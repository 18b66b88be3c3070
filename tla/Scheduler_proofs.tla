-------------------------- MODULE Scheduler_proofs --------------------------
(***************************************************************************)
(* Theorems about Scheduler, for every set of runs and of subjects, every  *)
(* limit of claims, and any number of stops and of refused writes.         *)
(***************************************************************************)
EXTENDS Scheduler, FiniteSetTheorems, TLAPS

----------------------------------------------------------------------------
(* The inductive invariant *)

\* The dispatch tasks of a schedule against its record and its run.
Tasked(r) ==
    /\ created[r] + waiting[r] + (IF r \in carried THEN 1 ELSE 0) <= 1
    /\ created[r] > 0 => schedule[r].status = "claimed" /\ run[r] = "queued"
    /\ waiting[r] > 0 => schedule[r].status = "dispatched" /\ run[r] = "queued"
    /\ r \in carried => schedule[r].status = "dispatched" /\ run[r] = "running"
    /\ ~up => created[r] = 0 /\ waiting[r] = 0 /\ r \notin carried
    /\ up /\ faults = 0 /\ schedule[r].status \in Dispatching =>
          created[r] + waiting[r] > 0 \/ r \in carried

\* A schedule against its run: a run is queued until it has begun, and a schedule
\* that waits for its time or is claimed has a queued run.
Paired(r) ==
    /\ run[r] = "absent" => schedule[r].status = "absent"
    /\ schedule[r].status \in {"scheduled", "claimed", "cancelled"} => run[r] = "queued"
    /\ schedule[r].status = "completed" => run[r] = "completed"
    /\ schedule[r].status = "failed" /\ faults = 0 => run[r] \in {"failed", "cancelled"}

\* A run begins from the queue only, and when its time has come.
Begun(r) ==
    /\ starts[r] <= 1
    /\ run[r] \in {"absent", "queued"} \/ schedule[r].status = "absent" => starts[r] = 0
    /\ starts[r] > 0 \/ schedule[r].status \in Dispatching => schedule[r].time <= now

Fit(r) == Tasked(r) /\ Paired(r) /\ Begun(r)

IInv == TypeOK /\ \A r \in Runs : Fit(r)

----------------------------------------------------------------------------
(* Sequence numbers *)

\* A set of naturals has a least element.
LEMMA Smallest ==
    ASSUME NEW T \in SUBSET Nat, T # {}
    PROVE  \E x \in T : \A y \in T : x <= y
<1> DEFINE R == OpToRel(<, Nat)
<1>1. IsWellFoundedOn(R, Nat)
  BY NatLessThanWellFounded
<1>2. \A x, y \in Nat : x < y => <<x, y>> \in R
  BY DEF OpToRel
<1> HIDE DEF R
<1>3. PICK x \in T : \A y \in T : ~ (<<y, x>> \in R)
  BY <1>1, WFMin
<1>4. \A y \in T : ~(y < x)
  BY <1>2, <1>3
<1> QED BY <1>3, <1>4

\* A finite set of naturals has a maximum.
LEMMA MaxOfFinite ==
    ASSUME NEW T \in SUBSET Nat, IsFiniteSet(T), T # {}
    PROVE  Max(T) \in T /\ \A y \in T : Max(T) >= y
<1> DEFINE Above(m) == {x \in T : x > m}
           C == {Cardinality(Above(m)) : m \in T}
<1>1. \A m \in T : IsFiniteSet(Above(m)) /\ Cardinality(Above(m)) \in Nat
  <2> TAKE m \in T
  <2>1. Above(m) \in SUBSET T
    OBVIOUS
  <2> HIDE DEF Above
  <2> QED BY <2>1, FS_Subset, FS_CardinalityType
<1>2. PICK c \in C : \A d \in C : c <= d
  <2>1. C \in SUBSET Nat /\ C # {}
    BY <1>1
  <2> QED BY <2>1, Smallest
<1>3. PICK m \in T : c = Cardinality(Above(m))
  BY <1>2
<1>4. \A y \in T : m >= y
  <2> SUFFICES ASSUME NEW y \in T, ~(m >= y) PROVE FALSE
    OBVIOUS
  <2>1. Above(y) \in SUBSET Above(m) /\ y \in Above(m) /\ y \notin Above(y)
    <3>1. \A x \in Above(y) : x \in Above(m)
      OBVIOUS
    <3>2. y \in Above(m) /\ y \notin Above(y)
      OBVIOUS
    <3> QED BY <3>1, <3>2
  <2>2. Cardinality(Above(m)) <= Cardinality(Above(y))
    BY <1>2, <1>3
  <2> HIDE DEF Above
  <2>3. Cardinality(Above(y)) = Cardinality(Above(m))
    BY <1>1, <2>1, <2>2, FS_Subset
  <2>4. Above(y) = Above(m)
    BY <1>1, <2>1, <2>3, FS_Subset
  <2> QED BY <2>1, <2>4
<1> QED BY <1>4 DEF Max

\* The sequence number of the next schedule.
LEMMA NextSequenceType == ASSUME TypeOK PROVE NextSequence \in Nat
<1> DEFINE f == [r \in Runs |-> schedule[r].sequence]
           S == {schedule[r].sequence : r \in Runs}
<1>1. f \in [Runs -> Nat]
  BY DEF TypeOK, Schedule
<1>2. S \in SUBSET Nat
  BY <1>1
<1>3. IsFiniteSet(S)
  <2>1. f \in Surjection(Runs, S)
    BY DEF Surjection
  <2> HIDE DEF S, f
  <2> QED BY <2>1, FS_Surjection, SchedulerAssumption
<1>4. NextSequence = Max({0} \cup S) + 1
  BY DEF NextSequence
<1> HIDE DEF S
<1>5. IsFiniteSet({0} \cup S) /\ {0} \cup S \in SUBSET Nat /\ {0} \cup S # {}
  <2>1. IsFiniteSet(S \cup {0}) /\ S \cup {0} = {0} \cup S
    BY <1>3, FS_AddElement
  <2> QED BY <1>2, <2>1
<1>6. Max({0} \cup S) \in Nat
  BY <1>5, MaxOfFinite
<1> QED BY <1>4, <1>6

----------------------------------------------------------------------------
(* Steps *)

\* What a step does not touch stays fit, while the server goes on.
LEMMA OthersStayFit ==
    ASSUME IInv, NEW q \in Runs, up' = up, faults' = 0 => faults = 0, now' = now,
           schedule'[q] = schedule[q], run'[q] = run[q], created'[q] = created[q],
           waiting'[q] = waiting[q], starts'[q] = starts[q], q \in carried' <=> q \in carried
    PROVE  Fit(q)'
BY DEF IInv, Fit, Tasked, Paired, Begun

\* A stop takes the tasks and leaves fit what is stored.
LEMMA StoppedStaysFit ==
    ASSUME IInv, Interrupt, NEW q \in Runs, now' = now, starts' = starts,
           schedule'[q] = schedule[q], run'[q] = run[q]
    PROVE  Fit(q)'
<1>1. ~up' /\ created'[q] = 0 /\ waiting'[q] = 0 /\ q \notin carried' /\ faults' = faults
  BY DEF Interrupt
<1>2. Tasked(q)'
  BY <1>1 DEF Tasked
<1>3. Paired(q)' /\ Begun(q)'
  BY <1>1 DEF IInv, Fit, Paired, Begun
<1> QED BY <1>2, <1>3 DEF Fit

\* What a stop and a refused write leave of the types.
LEMMA InterruptType ==
    ASSUME TypeOK, Interrupt
    PROVE  /\ created' \in [Runs -> Nat] /\ waiting' \in [Runs -> Nat] /\ carried' \in SUBSET Runs
           /\ stops' \in Nat /\ faults' \in Nat /\ up' \in BOOLEAN /\ faults' = faults
<1>1. up' \in BOOLEAN
  BY DEF Interrupt
<1> QED BY <1>1 DEF Interrupt, TypeOK

LEMMA RefusalType ==
    ASSUME TypeOK, Refusal
    PROVE  /\ stops' \in Nat /\ faults' \in Nat /\ up' \in BOOLEAN
           /\ faults' # 0 /\ up' = up
BY DEF Refusal, TypeOK

\* A schedule whose status becomes another.
LEMMA BecomeRecord ==
    ASSUME TypeOK, NEW r \in Runs, NEW v \in Statuses, Become(r, v)
    PROVE  /\ schedule' \in [Runs -> Schedule]
           /\ schedule'[r].status = v /\ schedule'[r].time = schedule[r].time
           /\ \A q \in Runs \ {r} : schedule'[q] = schedule[q]
BY DEF TypeOK, Become, Schedule

\* A request puts a queued run, then a scheduled schedule, where there was nothing.
LEMMA AskKeeps ==
    ASSUME IInv, NEW r \in Runs, NEW subject \in Subjects, NEW time \in Times, Ask(r, subject, time)
    PROVE  IInv'
<1>1. /\ TypeOK /\ Fit(r) /\ up /\ run[r] = "absent" /\ now' = now /\ starts' = starts
      /\ starts[r] = 0 /\ schedule[r].status = "absent"
      /\ created[r] = 0 /\ waiting[r] = 0 /\ r \notin carried
  <2>1. /\ TypeOK /\ Fit(r) /\ up /\ run[r] = "absent" /\ now' = now /\ starts' = starts
    BY DEF IInv, Ask
  <2> QED BY <2>1 DEF Fit, Tasked, Paired, Begun, TypeOK
<1>2. CASE /\ run' = [run EXCEPT ![r] = "queued"]
           /\ schedule' = [schedule EXCEPT ![r] = [status |-> "scheduled", time |-> time,
                                                   subject |-> subject, sequence |-> NextSequence]]
           /\ Smooth /\ UNCHANGED tasks
  <2>1. [status |-> "scheduled", time |-> time, subject |-> subject, sequence |-> NextSequence]
           \in Schedule
    BY <1>1, NextSequenceType, SchedulerAssumption DEF Schedule, Statuses, Times
  <2>2. TypeOK'
    BY <1>1, <1>2, <2>1 DEF TypeOK, Smooth, tasks, RunStatuses
  <2>3. schedule'[r].status = "scheduled" /\ run'[r] = "queued"
    BY <1>1, <1>2 DEF TypeOK
  <2>4. Fit(r)'
    BY <1>1, <1>2, <2>3 DEF Fit, Tasked, Paired, Begun, Smooth, tasks, Dispatching
  <2>5. \A q \in Runs \ {r} : Fit(q)'
    BY <1>1, <1>2, OthersStayFit DEF Smooth, tasks, TypeOK
  <2> QED BY <2>2, <2>4, <2>5 DEF IInv
<1>3. CASE run' = [run EXCEPT ![r] = "queued"] /\ Interrupt /\ UNCHANGED schedule
  <2>1. TypeOK'
    BY <1>1, <1>3, InterruptType DEF TypeOK, RunStatuses
  <2>2. Fit(r)'
    <3>1. ~up' /\ created'[r] = 0 /\ waiting'[r] = 0 /\ r \notin carried'
      BY <1>3 DEF Interrupt
    <3>2. run'[r] = "queued"
      BY <1>1, <1>3 DEF TypeOK
    <3> QED BY <1>1, <1>3, <3>1, <3>2 DEF Fit, Tasked, Paired, Begun, Dispatching
  <2>3. \A q \in Runs \ {r} : Fit(q)'
    BY <1>1, <1>3, StoppedStaysFit DEF TypeOK
  <2> QED BY <2>1, <2>2, <2>3 DEF IInv
<1>4. CASE run' = [run EXCEPT ![r] = "cancelled"] /\ Refusal /\ UNCHANGED <<schedule, tasks>>
  <2>1. TypeOK'
    BY <1>1, <1>4, RefusalType DEF TypeOK, RunStatuses, tasks
  <2>2. run'[r] = "cancelled"
    BY <1>1, <1>4 DEF TypeOK
  <2>3. Fit(r)'
    BY <1>1, <1>4, <2>2, RefusalType DEF Fit, Tasked, Paired, Begun, Dispatching, tasks
  <2>4. \A q \in Runs \ {r} : Fit(q)'
    BY <1>1, <1>4, RefusalType, OthersStayFit DEF TypeOK, tasks
  <2> QED BY <2>1, <2>3, <2>4 DEF IInv
<1> QED BY <1>2, <1>3, <1>4 DEF Ask

\* A schedule that waits for its time has no dispatch task to take down.
LEMMA CancelKeeps == ASSUME IInv, NEW r \in Runs, Cancel(r) PROVE IInv'
<1>1. /\ TypeOK /\ Fit(r) /\ up /\ schedule[r].status = "scheduled" /\ Become(r, "cancelled")
      /\ UNCHANGED <<run, created, waiting, carried, now, up, starts, stops, faults>>
  BY DEF IInv, Cancel, tasks, budget
<1>2. /\ schedule' \in [Runs -> Schedule] /\ schedule'[r].status = "cancelled"
      /\ schedule'[r].time = schedule[r].time /\ \A q \in Runs \ {r} : schedule'[q] = schedule[q]
  BY <1>1, BecomeRecord DEF Statuses
<1>3. TypeOK'
  BY <1>1, <1>2 DEF TypeOK
<1>4. Fit(r)'
  BY <1>1, <1>2 DEF Fit, Tasked, Paired, Begun, Dispatching, TypeOK
<1>5. \A q \in Runs \ {r} : Fit(q)'
  BY <1>1, <1>2, OthersStayFit
<1> QED BY <1>3, <1>4, <1>5 DEF IInv

\* The time that has come for a schedule stays come.
LEMMA TickKeeps == ASSUME IInv, Tick PROVE IInv'
<1>1. /\ UNCHANGED <<schedule, run, created, waiting, carried, up, starts, stops, faults>>
      /\ now' \in 0..MaxTime /\ now <= now'
  BY SchedulerAssumption DEF Tick, IInv, TypeOK, tasks, budget
<1>2. TypeOK'
  BY <1>1 DEF IInv, TypeOK
<1>3. ASSUME NEW r \in Runs PROVE Fit(r)'
  <2>1. Tasked(r)' /\ Paired(r)'
    BY <1>1 DEF IInv, Fit, Tasked, Paired
  <2>2. schedule[r].time \in Int /\ now \in Int /\ now' \in Int
    BY <1>1, SchedulerAssumption DEF IInv, TypeOK, Schedule
  <2>3. Begun(r)'
    BY <1>1, <2>2 DEF IInv, Fit, Begun
  <2> QED BY <2>1, <2>3 DEF Fit
<1> QED BY <1>2, <1>3 DEF IInv

\* What a poll, or the part of it before a stop, makes of the schedules: each one it
\* goes through has a queued run, and is claimed.
LEMMA ClaimedRecords ==
    ASSUME IInv, up, NEW seen \in SUBSET Due, schedule' = Claimed(seen)
    PROVE  /\ schedule' \in [Runs -> Schedule] /\ Claims(seen) = seen /\ seen \subseteq Runs
           /\ \A r \in seen : /\ schedule[r].status = "scheduled" /\ run[r] = "queued"
                              /\ schedule[r].time <= now /\ schedule'[r].time = schedule[r].time
                              /\ schedule'[r].status = "claimed"
           /\ \A r \in Runs \ seen : schedule'[r] = schedule[r]
<1>1. seen \subseteq Runs /\ schedule \in [Runs -> Schedule]
  BY DEF Due, IInv, TypeOK
<1>2. \A r \in seen : schedule[r].status = "scheduled" /\ run[r] = "queued" /\ schedule[r].time <= now
  BY DEF Due, IInv, Fit, Paired
<1>3. \A r \in seen : Verdict(r) = "claimed"
  BY <1>2 DEF Verdict
<1>4. Claims(seen) = seen
  BY <1>3 DEF Claims
<1>5. \A r \in seen : schedule'[r] = [schedule[r] EXCEPT !.status = "claimed"]
  BY <1>1, <1>3 DEF Claimed
<1>6. \A r \in Runs \ seen : schedule'[r] = schedule[r]
  BY DEF Claimed
<1>7. \A r \in seen : /\ schedule'[r] \in Schedule /\ schedule'[r].status = "claimed"
                      /\ schedule'[r].time = schedule[r].time
  BY <1>1, <1>5 DEF Schedule, Statuses
<1>8. schedule' \in [Runs -> Schedule]
  BY <1>1, <1>6, <1>7 DEF Claimed
<1> QED BY <1>1, <1>2, <1>4, <1>6, <1>7, <1>8

\* A claim comes with its task, unless a stop or a refused write cuts the poll short.
LEMMA PollKeeps == ASSUME IInv, Poll PROVE IInv'
<1>1. TypeOK /\ up /\ UNCHANGED <<run, now, starts>>
  BY DEF Poll, IInv
<1>2. PICK batch \in SUBSET Due :
          \/ /\ schedule' = Claimed(batch)
             /\ created' = [r \in Runs |-> IF r \in Claims(batch) THEN created[r] + 1
                                                                  ELSE created[r]]
             /\ Smooth /\ UNCHANGED <<waiting, carried>>
          \/ \E part \in SUBSET batch :
                /\ schedule' = Claimed(part)
                /\ Interrupt \/ (Refusal /\ UNCHANGED tasks)
  BY DEF Poll
<1>3. CASE /\ schedule' = Claimed(batch)
           /\ created' = [r \in Runs |-> IF r \in Claims(batch) THEN created[r] + 1
                                                                ELSE created[r]]
           /\ Smooth /\ UNCHANGED <<waiting, carried>>
  <2>1. /\ schedule' \in [Runs -> Schedule] /\ Claims(batch) = batch /\ batch \subseteq Runs
        /\ \A r \in batch : /\ schedule[r].status = "scheduled" /\ run[r] = "queued"
                            /\ schedule[r].time <= now /\ schedule'[r].time = schedule[r].time
                            /\ schedule'[r].status = "claimed"
        /\ \A r \in Runs \ batch : schedule'[r] = schedule[r]
    BY <1>1, <1>3, ClaimedRecords
  <2>2. \A r \in Runs : created'[r] = IF r \in batch THEN created[r] + 1 ELSE created[r]
    BY <1>3, <2>1
  <2>3. TypeOK'
    BY <1>1, <1>3, <2>1 DEF TypeOK, Smooth
  <2>4. ASSUME NEW r \in batch PROVE Fit(r)'
    <3>1. Fit(r) /\ created[r] = 0 /\ waiting[r] = 0 /\ r \notin carried
      BY <2>1, <2>4, <1>1 DEF IInv, Fit, Tasked, TypeOK
    <3>2. created'[r] = 1 /\ waiting'[r] = 0 /\ r \notin carried'
      BY <1>3, <2>1, <2>2, <2>4, <3>1
    <3> QED BY <1>1, <1>3, <2>1, <2>4, <3>1, <3>2 DEF Smooth, Fit, Tasked, Paired, Begun
  <2>5. \A r \in Runs \ batch : Fit(r)'
    BY <1>1, <1>3, <2>1, <2>2, OthersStayFit DEF Smooth
  <2> QED BY <2>3, <2>4, <2>5 DEF IInv
<1>4. CASE \E part \in SUBSET batch :
              /\ schedule' = Claimed(part)
              /\ Interrupt \/ (Refusal /\ UNCHANGED tasks)
  <2>1. PICK part \in SUBSET batch : /\ schedule' = Claimed(part)
                                     /\ Interrupt \/ (Refusal /\ UNCHANGED tasks)
    BY <1>4
  <2>2. /\ schedule' \in [Runs -> Schedule] /\ part \subseteq Runs
        /\ \A r \in part : /\ schedule[r].status = "scheduled" /\ run[r] = "queued"
                           /\ schedule[r].time <= now /\ schedule'[r].time = schedule[r].time
                           /\ schedule'[r].status = "claimed"
        /\ \A r \in Runs \ part : schedule'[r] = schedule[r]
    BY <1>1, <2>1, ClaimedRecords
  <2>3. CASE Interrupt
    <3>1. TypeOK'
      BY <1>1, <2>2, <2>3, InterruptType DEF TypeOK
    <3>2. ASSUME NEW r \in part PROVE Fit(r)'
      <4>1. ~up' /\ created'[r] = 0 /\ waiting'[r] = 0 /\ r \notin carried'
        BY <2>2, <2>3, <3>2 DEF Interrupt
      <4> QED BY <1>1, <2>2, <3>2, <4>1 DEF IInv, Fit, Tasked, Paired, Begun
    <3>3. \A r \in Runs \ part : Fit(r)'
      BY <1>1, <2>2, <2>3, StoppedStaysFit
    <3> QED BY <3>1, <3>2, <3>3 DEF IInv
  <2>4. CASE Refusal /\ UNCHANGED tasks
    <3>1. TypeOK'
      BY <1>1, <2>2, <2>4, RefusalType DEF TypeOK, tasks
    <3>2. ASSUME NEW r \in part PROVE Fit(r)'
      <4>1. Fit(r) /\ created[r] = 0 /\ waiting[r] = 0 /\ r \notin carried
        BY <2>2, <3>2, <1>1 DEF IInv, Fit, Tasked, TypeOK
      <4>2. UNCHANGED <<created, waiting, carried>> /\ faults' # 0 /\ up' = up
        BY <1>1, <2>4, RefusalType DEF tasks
      <4> QED BY <1>1, <2>2, <3>2, <4>1, <4>2 DEF Fit, Tasked, Paired, Begun
    <3>3. \A r \in Runs \ part : Fit(r)'
      BY <1>1, <2>2, <2>4, RefusalType, OthersStayFit DEF tasks
    <3> QED BY <3>1, <3>2, <3>3 DEF IInv
  <2> QED BY <2>1, <2>3, <2>4
<1> QED BY <1>2, <1>3, <1>4

----------------------------------------------------------------------------
(* A dispatch task *)

\* The task that starts is the only one of its schedule.
LEMMA DispatchKeeps == ASSUME IInv, NEW r \in Runs, Dispatch(r) PROVE IInv'
<1>1. /\ TypeOK /\ Fit(r) /\ up /\ schedule[r].status = "claimed" /\ run[r] = "queued"
      /\ created[r] = 1 /\ waiting[r] = 0 /\ r \notin carried
      /\ created' = [created EXCEPT ![r] = @ - 1] /\ created'[r] = 0
      /\ UNCHANGED <<run, carried, now, starts>>
  BY DEF IInv, Dispatch, Fit, Tasked, TypeOK
<1>2. created' \in [Runs -> Nat] /\ \A q \in Runs \ {r} : created'[q] = created[q]
  BY <1>1 DEF TypeOK
<1>3. CASE Become(r, "dispatched") /\ waiting' = [waiting EXCEPT ![r] = @ + 1] /\ Smooth
  <2>1. /\ schedule' \in [Runs -> Schedule] /\ schedule'[r].status = "dispatched"
        /\ schedule'[r].time = schedule[r].time /\ \A q \in Runs \ {r} : schedule'[q] = schedule[q]
    BY <1>1, <1>3, BecomeRecord DEF Statuses
  <2>2. waiting' \in [Runs -> Nat] /\ waiting'[r] = 1 /\ \A q \in Runs \ {r} : waiting'[q] = waiting[q]
    BY <1>1, <1>3 DEF TypeOK
  <2>3. TypeOK'
    BY <1>1, <1>2, <1>3, <2>1, <2>2 DEF TypeOK, Smooth
  <2>4. Fit(r)'
    BY <1>1, <1>3, <2>1, <2>2 DEF Smooth, Fit, Tasked, Paired, Begun, Dispatching
  <2>5. \A q \in Runs \ {r} : Fit(q)'
    BY <1>1, <1>2, <1>3, <2>1, <2>2, OthersStayFit DEF Smooth
  <2> QED BY <2>3, <2>4, <2>5 DEF IInv
<1>4. CASE Become(r, "failed") /\ Refusal /\ UNCHANGED waiting
  <2>1. /\ schedule' \in [Runs -> Schedule] /\ schedule'[r].status = "failed"
        /\ schedule'[r].time = schedule[r].time /\ \A q \in Runs \ {r} : schedule'[q] = schedule[q]
    BY <1>1, <1>4, BecomeRecord DEF Statuses
  <2>2. TypeOK'
    BY <1>1, <1>2, <1>4, <2>1, RefusalType DEF TypeOK
  <2>3. Fit(r)'
    BY <1>1, <1>4, <2>1, RefusalType DEF Fit, Tasked, Paired, Begun, Dispatching
  <2>4. \A q \in Runs \ {r} : Fit(q)'
    BY <1>1, <1>2, <1>4, <2>1, RefusalType, OthersStayFit
  <2> QED BY <2>2, <2>3, <2>4 DEF IInv
<1> QED BY <1>1, <1>3, <1>4 DEF Dispatch
\* The run begins from the queue, hence for the first time.
LEMMA StartKeeps == ASSUME IInv, NEW r \in Runs, Start(r) PROVE IInv'
<1>1. /\ TypeOK /\ Fit(r) /\ up /\ schedule[r].status = "dispatched" /\ run[r] = "queued"
      /\ created[r] = 0 /\ waiting[r] = 1 /\ r \notin carried /\ starts[r] = 0
      /\ waiting' = [waiting EXCEPT ![r] = @ - 1] /\ waiting'[r] = 0
      /\ UNCHANGED <<created, now>>
  BY DEF IInv, Start, Fit, Tasked, Begun, TypeOK
<1>2. waiting' \in [Runs -> Nat] /\ \A q \in Runs \ {r} : waiting'[q] = waiting[q]
  BY <1>1 DEF TypeOK
<1>3. CASE /\ run' = [run EXCEPT ![r] = "running"]
           /\ carried' = carried \cup {r}
           /\ starts' = [starts EXCEPT ![r] = @ + 1]
           /\ Smooth /\ UNCHANGED schedule
  <2>1. /\ run' \in [Runs -> RunStatuses] /\ run'[r] = "running"
        /\ starts' \in [Runs -> Nat] /\ starts'[r] = 1 /\ r \in carried' /\ carried' \in SUBSET Runs
        /\ \A q \in Runs \ {r} : /\ run'[q] = run[q] /\ starts'[q] = starts[q]
                                 /\ q \in carried' <=> q \in carried
    BY <1>1, <1>3 DEF TypeOK, RunStatuses
  <2>2. TypeOK'
    BY <1>1, <1>2, <1>3, <2>1 DEF TypeOK, Smooth
  <2>3. Fit(r)'
    BY <1>1, <1>3, <2>1 DEF Smooth, Fit, Tasked, Paired, Begun, Dispatching
  <2>4. \A q \in Runs \ {r} : Fit(q)'
    BY <1>1, <1>2, <1>3, <2>1, OthersStayFit DEF Smooth
  <2> QED BY <2>2, <2>3, <2>4 DEF IInv
<1>4. CASE /\ run' \in {run, [run EXCEPT ![r] = "running"]}
           /\ Become(r, "failed")
           /\ Refusal /\ UNCHANGED <<carried, starts>>
  <2>1. /\ schedule' \in [Runs -> Schedule] /\ schedule'[r].status = "failed"
        /\ schedule'[r].time = schedule[r].time /\ \A q \in Runs \ {r} : schedule'[q] = schedule[q]
    BY <1>1, <1>4, BecomeRecord DEF Statuses
  <2>2. /\ run' \in [Runs -> RunStatuses] /\ run'[r] \in {"queued", "running"}
        /\ \A q \in Runs \ {r} : run'[q] = run[q]
    BY <1>1, <1>4 DEF TypeOK, RunStatuses
  <2>3. TypeOK'
    BY <1>1, <1>2, <1>4, <2>1, <2>2, RefusalType DEF TypeOK
  <2>4. Fit(r)'
    BY <1>1, <1>4, <2>1, <2>2, RefusalType DEF Fit, Tasked, Paired, Begun, Dispatching
  <2>5. \A q \in Runs \ {r} : Fit(q)'
    BY <1>1, <1>2, <1>4, <2>1, <2>2, RefusalType, OthersStayFit
  <2> QED BY <2>3, <2>4, <2>5 DEF IInv
<1> QED BY <1>3, <1>4 DEF Start

\* The run and its schedule end alike, or a stop or a refused write parts them.
LEMMA EndKeeps ==
    ASSUME IInv, NEW r \in Runs, NEW status \in {"completed", "failed"}, End(r, status)
    PROVE  IInv'
<1>1. /\ TypeOK /\ Fit(r) /\ up /\ schedule[r].status = "dispatched" /\ run[r] = "running"
      /\ created[r] = 0 /\ waiting[r] = 0 /\ r \in carried
      /\ UNCHANGED <<now, starts>>
  BY DEF IInv, End, Fit, Tasked, TypeOK
<1>2. /\ Outcome(status) \in Statuses /\ Outcome(status) = status
  BY DEF Outcome, Statuses
<1>3. CASE /\ run' = [run EXCEPT ![r] = status]
           /\ Become(r, Outcome(status))
           /\ carried' = carried \ {r}
           /\ Smooth /\ UNCHANGED <<created, waiting>>
  <2>1. /\ schedule' \in [Runs -> Schedule] /\ schedule'[r].status = status
        /\ schedule'[r].time = schedule[r].time /\ \A q \in Runs \ {r} : schedule'[q] = schedule[q]
    BY <1>1, <1>2, <1>3, BecomeRecord
  <2>2. /\ run' \in [Runs -> RunStatuses] /\ run'[r] = status
        /\ \A q \in Runs \ {r} : run'[q] = run[q]
    BY <1>1, <1>3 DEF TypeOK, RunStatuses
  <2>3. TypeOK'
    BY <1>1, <1>3, <2>1, <2>2 DEF TypeOK, Smooth
  <2>4. Fit(r)'
    BY <1>1, <1>3, <2>1, <2>2 DEF Smooth, Fit, Tasked, Paired, Begun, Dispatching
  <2>5. \A q \in Runs \ {r} : Fit(q)'
    BY <1>1, <1>3, <2>1, <2>2, OthersStayFit DEF Smooth
  <2> QED BY <2>3, <2>4, <2>5 DEF IInv
<1>4. CASE run' = [run EXCEPT ![r] = status] /\ Interrupt /\ UNCHANGED schedule
  <2>1. /\ run' \in [Runs -> RunStatuses] /\ run'[r] = status
        /\ \A q \in Runs \ {r} : run'[q] = run[q]
    BY <1>1, <1>4 DEF TypeOK, RunStatuses
  <2>2. TypeOK'
    BY <1>1, <1>4, <2>1, InterruptType DEF TypeOK
  <2>3. ~up' /\ created'[r] = 0 /\ waiting'[r] = 0 /\ r \notin carried'
    BY <1>4 DEF Interrupt
  <2>4. Fit(r)'
    BY <1>1, <1>4, <2>1, <2>3 DEF Fit, Tasked, Paired, Begun, Dispatching
  <2>5. \A q \in Runs \ {r} : Fit(q)'
    BY <1>1, <1>4, <2>1, StoppedStaysFit
  <2> QED BY <2>2, <2>4, <2>5 DEF IInv
<1>5. CASE /\ run' \in {run, [run EXCEPT ![r] = status]}
           /\ Become(r, "failed")
           /\ carried' = carried \ {r}
           /\ Refusal /\ UNCHANGED <<created, waiting>>
  <2>1. /\ schedule' \in [Runs -> Schedule] /\ schedule'[r].status = "failed"
        /\ schedule'[r].time = schedule[r].time /\ \A q \in Runs \ {r} : schedule'[q] = schedule[q]
    BY <1>1, <1>5, BecomeRecord DEF Statuses
  <2>2. /\ run' \in [Runs -> RunStatuses] /\ run'[r] \in {"running", status}
        /\ \A q \in Runs \ {r} : run'[q] = run[q]
    BY <1>1, <1>5 DEF TypeOK, RunStatuses
  <2>3. TypeOK'
    BY <1>1, <1>5, <2>1, <2>2, RefusalType DEF TypeOK
  <2>4. Fit(r)'
    BY <1>1, <1>5, <2>1, <2>2, RefusalType DEF Fit, Tasked, Paired, Begun, Dispatching
  <2>5. \A q \in Runs \ {r} : Fit(q)'
    BY <1>1, <1>5, <2>1, <2>2, RefusalType, OthersStayFit
  <2> QED BY <2>3, <2>4, <2>5 DEF IInv
<1> QED BY <1>3, <1>4, <1>5 DEF End

----------------------------------------------------------------------------
(* Stops and recovery *)

\* A stop changes nothing that is stored.
LEMMA CrashKeeps == ASSUME IInv, Crash PROVE IInv'
<1>1. TypeOK /\ Interrupt /\ UNCHANGED <<schedule, run, now, starts>>
  BY DEF IInv, Crash
<1>2. TypeOK'
  BY <1>1, InterruptType DEF TypeOK
<1>3. \A q \in Runs : Fit(q)'
  BY <1>1, StoppedStaysFit
<1> QED BY <1>2, <1>3 DEF IInv

\* In a stopped process there are no tasks.
LEMMA NoTasksWhileDown ==
    ASSUME IInv, ~up, NEW r \in Runs
    PROVE  /\ Paired(r) /\ Begun(r)
           /\ created[r] = 0 /\ waiting[r] = 0 /\ r \notin carried
BY DEF IInv, Fit, Tasked

\* The recovery of the runs, whole or in part, before that of the schedules.
LEMMA RunRecovered ==
    ASSUME IInv, NEW r \in Runs
    PROVE  /\ RecoveredRun[r] \in RunStatuses /\ RecoveredRun[r] # "running"
           /\ run[r] # "running" => RecoveredRun[r] = run[r]
           /\ run[r] = "running" => RecoveredRun[r] = "failed"
BY DEF IInv, TypeOK, RecoveredRun, RunStatuses

\* What the recovery makes of a schedule that was being dispatched.
LEMMA ScheduleRecovered ==
    ASSUME IInv, NEW some \in SUBSET Interrupted, NEW r \in Runs
    PROVE  /\ Recovered(some)[r] \in Schedule
           /\ r \notin some => Recovered(some)[r] = schedule[r]
           /\ r \in some => /\ schedule[r].status \in Dispatching /\ run[r] # "absent"
                            /\ Recovered(some)[r].time = schedule[r].time
                            /\ Recovered(some)[r].status = Reconciled(RecoveredRun[r])
                            /\ Recovered(some)[r].status \in {"scheduled", "completed", "failed"}
                            /\ Recovered(some)[r].status = "scheduled" => run[r] = "queued"
                            /\ Recovered(some)[r].status = "completed" => run[r] = "completed"
                            /\ Recovered(some)[r].status = "failed" =>
                                  RecoveredRun[r] \in {"failed", "cancelled"}
<1>1. schedule[r] \in Schedule
  BY DEF IInv, TypeOK
<1>2. CASE r \notin some
  BY <1>1, <1>2 DEF Recovered
<1>3. CASE r \in some
  <2>1. Recovered(some)[r] = [schedule[r] EXCEPT !.status = Reconciled(RecoveredRun[r])]
    BY <1>3 DEF Recovered
  <2>2. Reconciled(RecoveredRun[r]) \in {"scheduled", "completed", "failed"}
    BY DEF Reconciled
  <2>3. /\ Recovered(some)[r] \in Schedule /\ Recovered(some)[r].time = schedule[r].time
        /\ Recovered(some)[r].status = Reconciled(RecoveredRun[r])
    BY <1>1, <2>1, <2>2 DEF Schedule, Statuses
  <2>4. schedule[r].status \in Dispatching /\ run[r] # "absent"
    BY <1>3 DEF Interrupted, IInv, Fit, Paired, Dispatching
  <2>5. /\ Reconciled(RecoveredRun[r]) = "scheduled" => run[r] = "queued"
        /\ Reconciled(RecoveredRun[r]) = "completed" => run[r] = "completed"
        /\ Reconciled(RecoveredRun[r]) = "failed" => RecoveredRun[r] \in {"failed", "cancelled"}
    BY <2>4, RunRecovered DEF Reconciled, RunStatuses
  <2> QED BY <1>3, <2>2, <2>3, <2>4, <2>5
<1> QED BY <1>2, <1>3

\* After the recovery no schedule is claimed or dispatched and no run is running.
LEMMA RestartKeeps == ASSUME IInv, Restart PROVE IInv'
<1>1. /\ TypeOK /\ ~up /\ up' = TRUE /\ run' = RecoveredRun /\ schedule' = Recovered(Interrupted)
      /\ UNCHANGED <<created, waiting, carried, now, starts, stops, faults>>
  BY DEF IInv, Restart, tasks, budget
<1>2. TypeOK'
  <2>1. run' \in [Runs -> RunStatuses]
    BY <1>1, RunRecovered DEF RecoveredRun
  <2>2. schedule' \in [Runs -> Schedule]
    BY <1>1, ScheduleRecovered DEF Recovered
  <2>3. up' \in BOOLEAN
    BY <1>1
  <2> QED BY <1>1, <2>1, <2>2, <2>3 DEF TypeOK
<1>3. ASSUME NEW r \in Runs PROVE Fit(r)'
  <2>1. /\ Paired(r) /\ Begun(r) /\ created[r] = 0 /\ waiting[r] = 0 /\ r \notin carried
    BY <1>1, NoTasksWhileDown
  <2>2. /\ run'[r] \in RunStatuses /\ run'[r] # "running"
        /\ run[r] # "running" => run'[r] = run[r]
        /\ run[r] = "running" => run'[r] = "failed"
    BY <1>1, RunRecovered
  <2>3. CASE r \in Interrupted
    <3>1. /\ schedule[r].status \in Dispatching /\ run[r] # "absent"
          /\ schedule'[r].time = schedule[r].time
          /\ schedule'[r].status \in {"scheduled", "completed", "failed"}
          /\ schedule'[r].status = "scheduled" => run[r] = "queued"
          /\ schedule'[r].status = "completed" => run[r] = "completed"
          /\ schedule'[r].status = "failed" => run'[r] \in {"failed", "cancelled"}
      BY <1>1, <2>3, ScheduleRecovered
    <3> QED BY <1>1, <2>1, <2>2, <3>1 DEF Fit, Tasked, Paired, Begun, Dispatching
  <2>4. CASE r \notin Interrupted
    <3>1. schedule'[r] = schedule[r] /\ schedule[r].status \notin Dispatching
      BY <1>1, <2>4, ScheduleRecovered DEF Interrupted
    <3> QED BY <1>1, <2>1, <2>2, <3>1 DEF Fit, Tasked, Paired, Begun, Dispatching
  <2> QED BY <2>3, <2>4
<1> QED BY <1>2, <1>3 DEF IInv

\* A recovery that is cut short has closed some runs, or all runs and some schedules.
LEMMA RestartCutShortKeeps == ASSUME IInv, RestartCutShort PROVE IInv'
<1>1. /\ TypeOK /\ ~up /\ stops' \in Nat
      /\ UNCHANGED <<created, waiting, carried, now, up, starts, faults>>
  BY DEF IInv, RestartCutShort, tasks, TypeOK
<1>2. \A r \in Runs : /\ Paired(r) /\ Begun(r)
                      /\ created[r] = 0 /\ waiting[r] = 0 /\ r \notin carried
  BY <1>1, NoTasksWhileDown
<1>3. CASE /\ \E some \in SUBSET Runs :
                 run' = [r \in Runs |-> IF r \in some THEN RecoveredRun[r] ELSE run[r]]
           /\ UNCHANGED schedule
  <2>1. PICK some \in SUBSET Runs :
                run' = [r \in Runs |-> IF r \in some THEN RecoveredRun[r] ELSE run[r]]
    BY <1>3
  <2>2. \A r \in Runs : /\ run'[r] \in RunStatuses
                        /\ run'[r] = run[r] \/ (run[r] = "running" /\ run'[r] = "failed")
    BY <1>1, <2>1, RunRecovered DEF TypeOK
  <2>3. TypeOK'
    BY <1>1, <1>3, <2>1, <2>2 DEF TypeOK
  <2>4. ASSUME NEW r \in Runs PROVE Fit(r)'
    BY <1>1, <1>2, <1>3, <2>2 DEF Fit, Tasked, Paired, Begun
  <2> QED BY <2>3, <2>4 DEF IInv
<1>4. CASE /\ run' = RecoveredRun
           /\ \E some \in SUBSET Interrupted : schedule' = Recovered(some)
  <2>1. PICK some \in SUBSET Interrupted : schedule' = Recovered(some)
    BY <1>4
  <2>2. \A r \in Runs : /\ run'[r] \in RunStatuses
                        /\ run[r] # "running" => run'[r] = run[r]
                        /\ run[r] = "running" => run'[r] = "failed"
    BY <1>4, RunRecovered
  <2>3. TypeOK'
    <3>1. schedule' \in [Runs -> Schedule]
      BY <2>1, ScheduleRecovered DEF Recovered
    <3>2. run' \in [Runs -> RunStatuses]
      BY <1>4, <2>2 DEF RecoveredRun
    <3> QED BY <1>1, <3>1, <3>2 DEF TypeOK
  <2>4. ASSUME NEW r \in Runs PROVE Fit(r)'
    <3>1. CASE r \in some
      <4>1. /\ schedule[r].status \in Dispatching /\ run[r] # "absent"
            /\ schedule'[r].time = schedule[r].time
            /\ schedule'[r].status \in {"scheduled", "completed", "failed"}
            /\ schedule'[r].status = "scheduled" => run[r] = "queued"
            /\ schedule'[r].status = "completed" => run[r] = "completed"
            /\ schedule'[r].status = "failed" => run'[r] \in {"failed", "cancelled"}
        BY <1>4, <2>1, <3>1, ScheduleRecovered
      <4> QED BY <1>1, <1>2, <2>2, <4>1 DEF Fit, Tasked, Paired, Begun, Dispatching
    <3>2. CASE r \notin some
      <4>1. schedule'[r] = schedule[r]
        BY <2>1, <3>2, ScheduleRecovered
      <4> QED BY <1>1, <1>2, <2>2, <4>1 DEF Fit, Tasked, Paired, Begun, Dispatching
    <3> QED BY <3>1, <3>2
  <2> QED BY <2>3, <2>4 DEF IInv
<1> QED BY <1>3, <1>4 DEF RestartCutShort
----------------------------------------------------------------------------
(* The theorems *)

LEMMA InitIInv == Init => IInv
<1> SUFFICES ASSUME Init PROVE IInv
  OBVIOUS
<1>1. TypeOK
  <2>1. up \in BOOLEAN
    BY DEF Init
  <2>2. 0 \in 0..MaxTime
    BY SchedulerAssumption
  <2> QED BY <2>1, <2>2, SchedulerAssumption DEF Init, TypeOK, Schedule, Statuses, RunStatuses
<1>2. ASSUME NEW r \in Runs PROVE Fit(r)
  BY DEF Init, Fit, Tasked, Paired, Begun, Dispatching
<1> QED BY <1>1, <1>2 DEF IInv

LEMMA NextIInv == IInv /\ [Next]_vars => IInv'
<1> SUFFICES ASSUME IInv, [Next]_vars PROVE IInv'
  OBVIOUS
<1>1. ASSUME NEW r \in Runs, Carry(r) PROVE IInv'
  BY <1>1, DispatchKeeps, StartKeeps, EndKeeps DEF Carry
<1>2. CASE UNCHANGED vars
  BY <1>2 DEF vars, IInv, TypeOK, Fit, Tasked, Paired, Begun
<1> QED BY <1>1, <1>2, AskKeeps, CancelKeeps, TickKeeps, PollKeeps, CrashKeeps, RestartKeeps,
           RestartCutShortKeeps DEF Next

\* The inductive invariant holds throughout.
THEOREM InvariantHolds == Spec => []IInv
BY InitIInv, NextIInv, PTL DEF Spec

\* Schedules, runs, dispatch tasks and the clock keep their types through requests,
\* polls, stops, interrupted recoveries and refused writes.
THEOREM TypeCorrect == Spec => []TypeOK
<1>1. IInv => TypeOK
  BY DEF IInv
<1> QED BY InvariantHolds, <1>1, PTL

\* However often dispatch_scheduled_analysis is interrupted and its schedule claimed
\* again, the run begins at most once, not before its time, and not when cancelled.
THEOREM RunsOnce == Spec => []RunsOnceInTime
<1>1. IInv => RunsOnceInTime
  BY DEF IInv, TypeOK, Fit, Begun, Paired, RunsOnceInTime
<1> QED BY InvariantHolds, <1>1, PTL

\* A dispatch task always finds its schedule and its run as it needs them, so the
\* silent ends of a dispatch cannot occur; and no claimed schedule is without a task in
\* a serving process, unless storage has refused a write.
THEOREM TasksFitRecords == Spec => []TasksMatchRecords
<1>1. IInv => TasksMatchRecords
  BY DEF IInv, Fit, Tasked, TasksMatchRecords
<1> QED BY InvariantHolds, <1>1, PTL

\* mark_completed, mark_failed and recover store the outcome that the run has.
THEOREM OutcomesAgree == Spec => []OutcomeIsTheRuns
<1>1. IInv => OutcomeIsTheRuns
  BY DEF IInv, Fit, Paired, OutcomeIsTheRuns
<1> QED BY InvariantHolds, <1>1, PTL

=============================================================================
