------------------------- MODULE AnalysisRun_proofs -------------------------
(***************************************************************************)
(* Theorems about AnalysisRun, for every set of runs and of roles, every   *)
(* number of slots and dispatches, and any number of stops and of refused  *)
(* writes: its invariants, and that it implements RunPromise.              *)
(***************************************************************************)
EXTENDS AnalysisRun, TLAPS

----------------------------------------------------------------------------
(* The inductive invariant *)

Heard(s, a)         == s.output[a] # "absent"
Answered(s, stage)  == \A a \in stage : s.output[a] = "completed"

\* The records behind DecisionIsGrounded and HumanGate.
Grounded(s) ==
    /\ (\E a \in Debaters : Heard(s, a)) => Answered(s, Analysts)
    /\ Heard(s, Chairman) => Answered(s, Debaters)
    /\ s.decision => s.market /\ s.risk /\ Answered(s, Roles)

Gated(s) ==
    /\ s.candidate \in {"ready_for_review", "approved", "rejected"} =>
          s.status = "completed" /\ s.decision
    /\ s.candidate \in {"approved", "rejected"} => s.reviews = <<s.candidate>>

\* What is stored of a run, whether or not the server is up: nobody is heard before
\* the run starts, and only a completed run, which has its decision, is reviewed.
Sound(s) ==
    /\ Grounded(s) /\ Gated(s)
    /\ s.candidate = "absent" => s.status = "absent"
    /\ s.status \in {"absent", "queued", "cancelled"} => \A a \in Roles : ~Heard(s, a)
    /\ s.status = "completed" => s.decision
    /\ s.reviews # <<>> => s.status = "completed"

\* The tasks of a run against what is stored of it: p is the run's phase, g its
\* agents.  Each phase says which agents may be anything but idle.
Matching(s, p, g) ==
    /\ p # "idle" => s.status = "running" /\ ~s.decision
    /\ \A a \in Roles :
          /\ g[a] = "created" => s.output[a] = "absent"
          /\ g[a] \in AtWork  => s.output[a] = "running"
          /\ g[a] = "done"    => s.output[a] = "completed"
    /\ p = "idle" => \A a \in Roles : g[a] = "idle"
    /\ p = "collecting" => \A a \in Roles : g[a] = "idle" /\ ~Heard(s, a)
    /\ p = "analysis" => /\ s.market
                         /\ \A a \in Debaters \cup {Chairman} : g[a] = "idle" /\ ~Heard(s, a)
    /\ p = "debate" => /\ s.market /\ \A a \in Analysts : g[a] = "done"
                       /\ g[Chairman] = "idle" /\ ~Heard(s, Chairman)
    /\ p = "chair" => /\ s.market /\ \A a \in Analysts \cup Debaters : g[a] = "done"
                      /\ g[Chairman] = "calling"
    /\ p = "unwinding" => /\ g[Chairman] = "idle"
                          /\ \A a \in Roles : g[a] \notin {"created", "calling"}
    /\ p # "chair" => g[Chairman] = "idle"

\* While storage accepts every write: a run that ended has no running output; and
\* in a serving process u a running run and a running output have their tasks.
Tidy(s, p, g, u) ==
    /\ s.status \in Terminal => \A a \in Roles : s.output[a] # "running"
    /\ u => /\ s.status = "running" => p # "idle"
            /\ \A a \in Roles : s.output[a] = "running" => g[a] \in AtWork

IInv ==
    /\ TypeOK
    /\ \A r \in Runs : Sound(store[r])
    /\ up => \A r \in Runs : Matching(store[r], phase[r], agent[r])
    /\ faults = 0 => \A r \in Runs : Tidy(store[r], phase[r], agent[r], up)

\* What a step may make of the record of a run, as far as its page shows it.
Follows(s, t) ==
    \/ t.status = s.status /\ t.reviews = s.reviews
    \/ /\ s.reviews = <<>> /\ t.reviews = <<>>
       /\ <<s.status, t.status>> \in {<<"absent", "queued">>, <<"queued", "running">>,
                                     <<"queued", "cancelled">>, <<"running", "completed">>,
                                     <<"running", "failed">>}
    \/ /\ s.status = "completed" /\ t.status = "completed" /\ s.reviews = <<>>
       /\ \E ruling \in Verdicts : t.reviews = <<ruling>>

\* What each step of the next-state relation is shown to do.
Kept == IInv' /\ \A r \in Runs : Follows(store[r], store'[r])

----------------------------------------------------------------------------
(* Steps on one run *)

\* A step writes t as the record of run r.
Writes(r, t) ==
    /\ store' = [store EXCEPT ![r] = t]
    /\ stops' \in Nat /\ faults' \in Nat /\ up' \in BOOLEAN
    /\ up' => up
    /\ faults' = 0 => faults = 0

\* A step that changes at most run r, whose record becomes s, its phase p and its
\* agents g, keeps the invariant when the new values do.
LEMMA OneRun ==
    ASSUME IInv, NEW r \in Runs, NEW s \in Record, NEW p \in Phases,
           NEW g \in [Roles -> AgentPhases],
           Writes(r, s), phase' = [phase EXCEPT ![r] = p],
           agent' = [agent EXCEPT ![r] = g],
           waiting' \in [Runs -> Nat], dispatches' \in [Runs -> Nat],
           Sound(s), up' => Matching(s, p, g), faults' = 0 => Tidy(s, p, g, up'),
           Follows(store[r], s)
    PROVE  Kept
<1>1. /\ store \in [Runs -> Record] /\ phase \in [Runs -> Phases]
      /\ agent \in [Runs -> [Roles -> AgentPhases]]
  BY DEF IInv, TypeOK
<1>2. TypeOK'
  BY <1>1 DEF TypeOK, Writes
<1>3. \A q \in Runs : /\ store'[q] = IF q = r THEN s ELSE store[q]
                      /\ phase'[q] = IF q = r THEN p ELSE phase[q]
                      /\ agent'[q] = IF q = r THEN g ELSE agent[q]
  BY <1>1 DEF Writes
<1>4. (\A q \in Runs : Sound(store[q]))'
  BY <1>3 DEF IInv
<1>5. (up => \A q \in Runs : Matching(store[q], phase[q], agent[q]))'
  BY <1>3 DEF IInv, Writes
<1>6. (faults = 0 => \A q \in Runs : Tidy(store[q], phase[q], agent[q], up))'
  <2> SUFFICES ASSUME faults' = 0, NEW q \in Runs
               PROVE  Tidy(store[q], phase[q], agent[q], up)'
    OBVIOUS
  <2>1. Tidy(store[q], phase[q], agent[q], up)
    BY DEF IInv, Writes
  <2>2. CASE q = r
    BY <1>3, <2>2
  <2>3. CASE q # r
    BY <1>3, <2>1, <2>3 DEF Tidy, Writes
  <2> QED BY <2>2, <2>3
<1>7. \A q \in Runs : Follows(store[q], store'[q])
  BY <1>3 DEF Follows
<1> QED BY <1>2, <1>4, <1>5, <1>6, <1>7 DEF IInv, Kept

\* A run that is stored as failed: it is running, or the failure comes while it is
\* stored as completed, before its candidate is offered.
CanFail(s) == /\ s.status \in {"running", "completed"} /\ s.reviews = <<>>
              /\ s.candidate \notin {"absent", "ready_for_review", "approved", "rejected"}

LEMMA RunningCanFail ==
    ASSUME NEW s \in Record, Sound(s), s.status = "running"
    PROVE  CanFail(s)
BY DEF CanFail, Sound, Gated

\* What the except block stores of such a run, whole or in part.
LEMMA FailedIsSound ==
    ASSUME NEW s \in Record, Sound(s), CanFail(s),
           NEW t \in FailedPartly(s) \cup {Failed(s)}
    PROVE  /\ t \in Record /\ Sound(t)
           /\ t.output = s.output /\ t.reviews = s.reviews
           /\ t = s \/ t.status = "failed"
           /\ t = Failed(s) => t.status = "failed"
<1>1. CASE t = s
  BY <1>1 DEF Failed, Record
<1>2. CASE t = [s EXCEPT !.status = "failed"]
  <2>1. /\ t \in Record /\ t.status = "failed" /\ t.output = s.output
        /\ t.candidate = s.candidate /\ t.market = s.market /\ t.risk = s.risk
        /\ t.decision = s.decision /\ t.reviews = s.reviews
    BY <1>2 DEF Record, RunStatuses
  <2>2. Sound(t)
    BY <2>1 DEF CanFail, Sound, Grounded, Gated, Heard, Answered
  <2> QED BY <2>1, <2>2
<1>3. CASE t = Failed(s)
  <2>1. /\ t \in Record /\ t.status = "failed" /\ t.output = s.output
        /\ t.candidate = "queued" /\ t.market = s.market /\ t.risk = s.risk
        /\ t.decision = s.decision /\ t.reviews = s.reviews
    BY <1>3 DEF Record, RunStatuses, CandidateStatuses, Failed
  <2>2. Sound(t)
    BY <2>1 DEF CanFail, Sound, Grounded, Gated, Heard, Answered
  <2> QED BY <2>1, <2>2
<1> QED BY <1>1, <1>2, <1>3 DEF FailedPartly

\* No agent of run r is at work, so none is left when its task ends.
LEMMA ReleaseLeavesNone ==
    ASSUME TypeOK, NEW r \in Runs, Release(r),
           \A a \in Roles \ {Chairman} : agent[r][a] \notin AtWork
    PROVE  /\ phase' = [phase EXCEPT ![r] = "idle"]
           /\ agent' = [agent EXCEPT ![r] = NoTask(r)]
           /\ NoTask(r) \in [Roles -> AgentPhases]
           /\ "idle" \in Phases
<1>1. agent[r] \in [Roles -> AgentPhases]
  BY DEF TypeOK
<1>2. [a \in Roles |-> IF a # Chairman /\ agent[r][a] \in AtWork THEN agent[r][a] ELSE "idle"] = NoTask(r)
  BY <1>1 DEF NoTask
<1> QED BY <1>2 DEF Release, NoTask, AgentPhases, Phases, TypeOK

\* A run without task, whose agents are gone, matches any record.
LEMMA NoTaskMatches ==
    ASSUME NEW r \in Runs, NEW s
    PROVE  Matching(s, "idle", NoTask(r))
BY DEF Matching, NoTask, AtWork, Roles

\* What a stretch of writes leaves: all of it, or a part of it when the process
\* stops in it or storage refuses a write.
LEMMA CommitWrites ==
    ASSUME TypeOK, NEW r \in Runs, NEW done, NEW partly, Commit(r, done, partly)
    PROVE  \E t : Writes(r, t) /\ (t = done \/ (t \in partly /\ ~up')) /\ faults' = faults
<1>1. CASE /\ store' = [store EXCEPT ![r] = done]
           /\ UNCHANGED <<up, budget>>
  <2>1. Writes(r, done) /\ faults' = faults
    BY <1>1 DEF Writes, TypeOK, budget
  <2> QED BY <2>1
<1>2. CASE /\ stops' = stops + 1
           /\ up' = FALSE
           /\ \E s \in partly : store' = [store EXCEPT ![r] = s]
           /\ UNCHANGED faults
  <2>1. PICK t \in partly : store' = [store EXCEPT ![r] = t]
    BY <1>2
  <2>2. up' \in BOOLEAN /\ ~up' /\ (up' => up) /\ (faults' = 0 => faults = 0)
    BY <1>2, Zenon
  <2>3. stops' \in Nat /\ faults' \in Nat
    BY <1>2 DEF TypeOK
  <2>4. Writes(r, t)
    BY <2>1, <2>2, <2>3 DEF Writes
  <2> QED BY <1>2, <2>1, <2>2, <2>4
<1> QED BY <1>1, <1>2 DEF Commit

LEMMA EscapeWrites ==
    ASSUME TypeOK, NEW r \in Runs, NEW partly, Escape(r, partly)
    PROVE  \E t \in partly : Writes(r, t) /\ faults' # 0
<1>1. PICK t \in partly : store' = [store EXCEPT ![r] = t]
  BY DEF Escape
<1>2. Writes(r, t) /\ faults' # 0
  BY <1>1 DEF Escape, Writes, TypeOK
<1> QED BY <1>2

LEMMA RefusedWrites ==
    ASSUME TypeOK, NEW r \in Runs, NEW done, NEW partly, Refused(r, done, partly)
    PROVE  \E t : Writes(r, t) /\ faults' # 0 /\ (t = done \/ (t \in partly /\ ~up'))
<1>1. CASE /\ store' = [store EXCEPT ![r] = done]
           /\ UNCHANGED <<up, stops>>
  <2>1. Writes(r, done) /\ faults' # 0
    BY <1>1 DEF Refused, Writes, TypeOK
  <2> QED BY <2>1
<1>2. CASE /\ stops' = stops + 1
           /\ up' = FALSE
           /\ \E s \in partly : store' = [store EXCEPT ![r] = s]
  <2>1. PICK t \in partly : store' = [store EXCEPT ![r] = t]
    BY <1>2
  <2>2. up' \in BOOLEAN /\ ~up' /\ (up' => up)
    BY <1>2, Zenon
  <2>3. stops' \in Nat /\ faults' \in Nat /\ faults' # 0
    BY <1>2 DEF Refused, TypeOK
  <2>4. Writes(r, t)
    BY <2>1, <2>2, <2>3 DEF Writes
  <2> QED BY <2>1, <2>2, <2>3, <2>4
<1> QED BY <1>1, <1>2 DEF Refused
\* The task that carries run r ends and leaves t as its record.
LEMMA TaskEnds ==
    ASSUME IInv, NEW r \in Runs, NEW t \in Record, Sound(t), Writes(r, t), Release(r),
           \A a \in Roles \ {Chairman} : agent[r][a] \notin AtWork,
           UNCHANGED <<waiting, dispatches>>,
           faults' = 0 => \A a \in Roles : t.output[a] # "running",
           faults' = 0 /\ up' => t.status # "running",
           Follows(store[r], t)
    PROVE  Kept
<1>1. TypeOK
  BY DEF IInv
<1>2. /\ phase' = [phase EXCEPT ![r] = "idle"] /\ "idle" \in Phases
      /\ agent' = [agent EXCEPT ![r] = NoTask(r)] /\ NoTask(r) \in [Roles -> AgentPhases]
  BY <1>1, ReleaseLeavesNone
<1>3. waiting' \in [Runs -> Nat] /\ dispatches' \in [Runs -> Nat]
  BY <1>1 DEF TypeOK
<1>4. up' => Matching(t, "idle", NoTask(r))
  BY NoTaskMatches
<1>5. faults' = 0 => Tidy(t, "idle", NoTask(r), up')
  BY DEF Tidy
<1> QED BY <1>2, <1>3, <1>4, <1>5, OneRun

\* The except block of the task that carries run r, which stores s as failed.
LEMMA FailStep ==
    ASSUME IInv, NEW r \in Runs, NEW s \in Record, Sound(s), s.status = "running",
           faults = 0 => \A a \in Roles : s.output[a] # "running",
           \A a \in Roles \ {Chairman} : agent[r][a] \notin AtWork,
           FailRun(r, s), UNCHANGED <<waiting, dispatches>>,
           store[r].status = "running", store[r].reviews = s.reviews
    PROVE  Kept
<1>1. TypeOK /\ Release(r)
  BY DEF IInv, FailRun
<1>2. PICK t \in FailedPartly(s) \cup {Failed(s)} :
          Writes(r, t) /\ (t = Failed(s) \/ ~up' \/ faults' # 0)
  <2>1. CASE Commit(r, Failed(s), FailedPartly(s))
    BY <1>1, <2>1, CommitWrites, Zenon
  <2>2. CASE Escape(r, FailedPartly(s))
    BY <1>1, <2>2, EscapeWrites, Zenon
  <2> QED BY <2>1, <2>2 DEF FailRun
<1>3. /\ t \in Record /\ Sound(t) /\ t.output = s.output
      /\ (t = Failed(s) => t.status = "failed") /\ (t = s \/ t.status = "failed")
      /\ t.reviews = s.reviews /\ s.reviews = <<>>
  BY RunningCanFail, FailedIsSound DEF CanFail
<1>4. faults' = 0 => \A a \in Roles : t.output[a] # "running"
  BY <1>2, <1>3 DEF Writes
<1>5. faults' = 0 /\ up' => t.status # "running"
  BY <1>2, <1>3
<1>6. Follows(store[r], t)
  BY <1>3 DEF Follows
<1> QED BY <1>1, <1>2, <1>3, <1>4, <1>5, <1>6, TaskEnds

\* The same when storage refused a write of the task and the except block stored
\* Failed(s), or the process stopped in that block.
LEMMA RefusedStep ==
    ASSUME IInv, NEW r \in Runs, NEW s \in Record, Sound(s), CanFail(s),
           NEW partly,
           \A t \in partly : t \in Record /\ Sound(t) /\ Follows(store[r], t),
           store[r].status = "running", store[r].reviews = <<>>,
           \A a \in Roles \ {Chairman} : agent[r][a] \notin AtWork,
           Refused(r, Failed(s), partly), Release(r), UNCHANGED <<waiting, dispatches>>
    PROVE  Kept
<1>1. TypeOK
  BY DEF IInv
<1>2. PICK t : Writes(r, t) /\ faults' # 0 /\ (t = Failed(s) \/ t \in partly)
  BY <1>1, RefusedWrites, Zenon
<1>3. t \in Record /\ Sound(t)
  BY <1>2, FailedIsSound
<1>4. Follows(store[r], t)
  <2>1. CASE t = Failed(s)
    BY <2>1, FailedIsSound DEF CanFail, Follows
  <2>2. CASE t \in partly
    BY <2>2
  <2> QED BY <1>2, <2>1, <2>2
<1> QED BY <1>2, <1>3, <1>4, TaskEnds
----------------------------------------------------------------------------
(* Requests *)

\* A step that writes t as the record of run r and leaves its tasks alone.
LEMMA OnlyStored ==
    ASSUME IInv, NEW r \in Runs, NEW t \in Record, Sound(t), Writes(r, t),
           UNCHANGED <<phase, agent>>,
           waiting' \in [Runs -> Nat], dispatches' \in [Runs -> Nat],
           up' => Matching(t, phase[r], agent[r]),
           faults' = 0 => Tidy(t, phase[r], agent[r], up'),
           Follows(store[r], t)
    PROVE  Kept
<1>1. /\ phase \in [Runs -> Phases] /\ agent \in [Runs -> [Roles -> AgentPhases]]
  BY DEF IInv, TypeOK
<1>2. /\ phase[r] \in Phases /\ agent[r] \in [Roles -> AgentPhases]
      /\ phase' = [phase EXCEPT ![r] = phase[r]] /\ agent' = [agent EXCEPT ![r] = agent[r]]
  BY <1>1
<1> QED BY <1>2, OneRun

\* A run that has not been started has no task and no outputs.
LEMMA Unstarted ==
    ASSUME IInv, up, NEW r \in Runs, store[r].status \in {"absent", "queued", "cancelled"}
    PROVE  /\ phase[r] = "idle" /\ \A a \in Roles : agent[r][a] = "idle"
           /\ \A a \in Roles : store[r].output[a] = "absent"
           /\ ~store[r].decision /\ store[r].reviews = <<>>
           /\ store[r] \in Record /\ Sound(store[r])
<1>1. store[r] \in Record /\ Sound(store[r]) /\ Matching(store[r], phase[r], agent[r])
  BY DEF IInv, TypeOK
<1>2. phase[r] = "idle" /\ \A a \in Roles : agent[r][a] = "idle"
  BY <1>1 DEF Matching
<1>3. \A a \in Roles : store[r].output[a] = "absent"
  BY <1>1 DEF Sound, Heard
<1>4. ~store[r].decision
  BY <1>1, <1>3 DEF Sound, Grounded, Answered, Roles
<1>5. store[r].reviews = <<>>
  BY <1>1 DEF Sound
<1> QED BY <1>1, <1>2, <1>3, <1>4, <1>5

\* Nor has a record of it with another status.
LEMMA StillUnstarted ==
    ASSUME IInv, up, NEW r \in Runs, store[r].status \in {"absent", "queued", "cancelled"},
           NEW t \in Record, Writes(r, t), UNCHANGED <<phase, agent>>,
           waiting' \in [Runs -> Nat], dispatches' \in [Runs -> Nat],
           t.output = store[r].output, t.reviews = store[r].reviews,
           ~t.decision, t.status \notin {"completed", "running"},
           t.candidate \notin {"ready_for_review", "approved", "rejected"},
           t.candidate = "absent" => t.status = "absent",
           Follows(store[r], t)
    PROVE  Kept
<1>1. /\ phase[r] = "idle" /\ \A a \in Roles : agent[r][a] = "idle"
      /\ \A a \in Roles : t.output[a] = "absent"
      /\ t.reviews = <<>>
  BY Unstarted
<1>2. Sound(t)
  BY <1>1 DEF Sound, Grounded, Gated, Heard, Answered, Roles
<1>3. Matching(t, phase[r], agent[r])
  BY <1>1 DEF Matching, AtWork, Roles
<1>4. Tidy(t, phase[r], agent[r], up')
  BY <1>1 DEF Tidy
<1> QED BY <1>2, <1>3, <1>4, OnlyStored

\* A step that leaves every record and every task in progress alone.
LEMMA OnlyWaits ==
    ASSUME IInv, UNCHANGED <<store, phase, agent, up, budget>>,
           waiting' \in [Runs -> Nat], dispatches' \in [Runs -> Nat]
    PROVE  Kept
<1>1. TypeOK'
  BY DEF IInv, TypeOK, budget
<1> QED BY <1>1 DEF IInv, budget, Kept, Follows

\* create_analysis, whole or cut short, leaves a run that has not started.
LEMMA CreateKeeps == ASSUME IInv, NEW r \in Runs, Create(r) PROVE Kept
<1> DEFINE s == store[r]
           partly == {s, [s EXCEPT !.candidate = "queued"], Created(s)}
<1>1. TypeOK /\ up /\ s \in Record /\ Sound(s) /\ s.status = "absent"
  BY DEF IInv, TypeOK, Create, Sound
<1>2. waiting' \in [Runs -> Nat] /\ dispatches' \in [Runs -> Nat]
  BY <1>1 DEF TypeOK, Create
<1>3. PICK t \in partly : Writes(r, t)
  <2>1. Created(s) \in partly /\ (Commit(r, Created(s), partly) \/ Escape(r, partly))
    BY DEF Create
  <2> HIDE DEF partly
  <2>2. CASE Commit(r, Created(s), partly)
    BY <1>1, <2>1, <2>2, CommitWrites, Zenon
  <2>3. CASE Escape(r, partly)
    BY <1>1, <2>3, EscapeWrites, Zenon
  <2> QED BY <2>1, <2>2, <2>3
<1>4. /\ t \in Record /\ t.output = s.output /\ t.reviews = s.reviews /\ t.decision = s.decision
      /\ t.status \in {"absent", "queued"} /\ t.candidate \in {s.candidate, "queued"}
      /\ t.candidate = "absent" => t.status = "absent"
  <2>1. CASE t = s
    BY <1>1, <2>1
  <2>2. CASE t = [s EXCEPT !.candidate = "queued"]
    BY <1>1, <2>2 DEF Record, CandidateStatuses
  <2>3. CASE t = Created(s)
    BY <1>1, <2>3 DEF Created, Record, RunStatuses, CandidateStatuses
  <2> QED BY <2>1, <2>2, <2>3
<1>5. ~t.decision
  BY <1>1, <1>4, Unstarted
<1>6. s.candidate = "absent" /\ UNCHANGED <<phase, agent>>
  BY DEF Create
<1>7. Follows(s, t)
  BY <1>1, <1>4, Unstarted DEF Follows
<1> QED BY <1>1, <1>2, <1>3, <1>4, <1>5, <1>6, <1>7, StillUnstarted

\* A dispatch only adds a task that waits for a slot.
LEMMA DispatchKeeps == ASSUME IInv, NEW r \in Runs, Dispatch(r) PROVE Kept
<1>1. waiting' \in [Runs -> Nat] /\ dispatches' \in [Runs -> Nat]
  BY DEF IInv, TypeOK, Dispatch
<1> QED BY <1>1, OnlyWaits DEF Dispatch

\* A task that finds its run no longer queued ends without a trace.
LEMMA ConflictKeeps == ASSUME IInv, NEW r \in Runs, Conflict(r) PROVE Kept
<1>1. waiting' \in [Runs -> Nat] /\ dispatches' \in [Runs -> Nat]
  BY DEF IInv, TypeOK, Conflict
<1> QED BY <1>1, OnlyWaits DEF Conflict

\* The run that is withdrawn has no task and no output.
LEMMA CancelQueuedKeeps == ASSUME IInv, NEW r \in Runs, CancelQueued(r) PROVE Kept
<1> DEFINE s == store[r]
           done == [s EXCEPT !.status = "cancelled", !.candidate = "archived"]
<1>1. TypeOK /\ up /\ s \in Record /\ Sound(s) /\ s.status = "queued"
  BY DEF IInv, TypeOK, CancelQueued
<1>2. waiting' \in [Runs -> Nat] /\ dispatches' \in [Runs -> Nat] /\ UNCHANGED <<phase, agent>>
  BY <1>1 DEF TypeOK, CancelQueued, tasks
<1>3. PICK t \in {done} \cup CancelledPartly(s) : Writes(r, t)
  <2> HIDE DEF done
  <2>1. CASE Commit(r, done, CancelledPartly(s))
    BY <1>1, <2>1, CommitWrites, Zenon
  <2>2. CASE Escape(r, CancelledPartly(s))
    BY <1>1, <2>2, EscapeWrites, Zenon
  <2>3. Commit(r, done, CancelledPartly(s)) \/ Escape(r, CancelledPartly(s))
    BY DEF CancelQueued, done
  <2> QED BY <2>1, <2>2, <2>3
<1>4. /\ t \in Record /\ t.output = s.output /\ t.reviews = s.reviews /\ t.decision = s.decision
      /\ t.status \in {"cancelled", "queued"} /\ t.candidate \in {s.candidate, "archived"}
  <2>1. CASE t = s
    BY <1>1, <2>1
  <2>2. CASE t = [s EXCEPT !.status = "cancelled"]
    BY <1>1, <2>2 DEF Record, RunStatuses
  <2>3. CASE t = done
    BY <1>1, <2>3 DEF Record, RunStatuses, CandidateStatuses
  <2> QED BY <2>1, <2>2, <2>3, <1>3 DEF CancelledPartly
<1>5. ~t.decision /\ s.candidate \notin {"absent", "ready_for_review", "approved", "rejected"}
  <2>1. ~t.decision
    BY <1>1, <1>4, Unstarted
  <2>2. s.candidate \notin {"absent", "ready_for_review", "approved", "rejected"}
    BY <1>1 DEF Sound, Gated
  <2> QED BY <2>1, <2>2
<1>6. Follows(s, t)
  BY <1>1, <1>4, Unstarted DEF Follows
<1> HIDE DEF done
<1> QED BY <1>1, <1>2, <1>3, <1>4, <1>5, <1>6, StillUnstarted
\* record_review finds a completed run without a review, hence with a decision.
LEMMA ReviewKeeps ==
    ASSUME IInv, NEW r \in Runs, NEW ruling \in Verdicts, Review(r, ruling)
    PROVE  Kept
<1> DEFINE s == store[r]
           appended == [s EXCEPT !.reviews = Append(@, ruling)]
           partly == {s, appended}
<1>1. /\ TypeOK /\ up /\ s \in Record /\ Sound(s) /\ Matching(s, phase[r], agent[r])
      /\ s.status = "completed" /\ s.reviews = <<>>
      /\ UNCHANGED <<phase, agent, waiting, dispatches>>
  BY DEF IInv, TypeOK, Review, tasks
<1>2. waiting' \in [Runs -> Nat] /\ dispatches' \in [Runs -> Nat]
  BY <1>1 DEF TypeOK
<1>3. PICK t \in {s, appended, Reviewed(s, ruling)} :
         Writes(r, t) /\ (faults' = 0 => faults = 0)
  <2>1. Commit(r, Reviewed(s, ruling), partly) \/ Escape(r, partly)
    BY DEF Review
  <2> HIDE DEF partly
  <2>2. \E t \in {Reviewed(s, ruling)} \cup partly : Writes(r, t)
    BY <1>1, <2>1, CommitWrites, EscapeWrites, Zenon
  <2> QED BY <2>2 DEF partly, Writes
<1>4. /\ t \in Record /\ t.output = s.output /\ t.status = "completed" /\ t.market = s.market
      /\ t.risk = s.risk /\ t.decision = s.decision
      /\ \/ t.candidate = s.candidate
         \/ t.candidate = "ready_for_review"
         \/ t.candidate = ruling /\ t.reviews = <<ruling>>
      /\ t.reviews \in {<<>>, <<ruling>>}
  <2>0. Append(s.reviews, ruling) = <<ruling>> /\ Append(s.reviews, ruling) \in Seq(Verdicts)
    BY <1>1
  <2>1. CASE t = s
    BY <1>1, <2>1
  <2>2. CASE t = appended
    BY <1>1, <2>0, <2>2 DEF Record
  <2>3. CASE t = Reviewed(s, ruling)
    <3>1. t.reviews = <<ruling>>
      BY <1>1, <2>0, <2>3 DEF Reviewed, Record
    <3>2. t.candidate = IF ruling = "hold" THEN "ready_for_review" ELSE ruling
      BY <1>1, <2>3 DEF Reviewed, Record
    <3>3. /\ t.output = s.output /\ t.status = "completed" /\ t.market = s.market
          /\ t.risk = s.risk /\ t.decision = s.decision
      BY <1>1, <2>3 DEF Reviewed, Record
    <3>4. t \in Record
      BY <1>1, <2>0, <2>3 DEF Reviewed, Record, CandidateStatuses, Verdicts
    <3> QED BY <3>1, <3>2, <3>3, <3>4
  <2> QED BY <2>1, <2>2, <2>3, <1>3
<1>5. s.candidate \notin {"absent", "approved", "rejected"}
  BY <1>1 DEF Sound, Gated
<1>6. ruling # "absent"
  BY DEF Verdicts
<1>7. Sound(t)
  BY <1>1, <1>4, <1>5, <1>6 DEF Sound, Grounded, Gated, Heard, Answered
<1>8. phase[r] = "idle" /\ \A a \in Roles : agent[r][a] = "idle"
  BY <1>1 DEF Matching
<1>9. Matching(t, phase[r], agent[r])
  BY <1>8 DEF Matching, AtWork, Roles
<1>10. faults' = 0 => Tidy(t, phase[r], agent[r], up')
  BY <1>1, <1>3, <1>4 DEF IInv, Tidy, Terminal
<1>11. Follows(s, t)
  BY <1>1, <1>4 DEF Follows
<1> HIDE DEF s
<1> QED BY <1>1, <1>2, <1>3, <1>4, <1>7, <1>9, <1>10, <1>11, OnlyStored DEF s

----------------------------------------------------------------------------
(* The task that carries a run *)

\* The run that starts was queued: it has no task, no output and no decision.
LEMMA BeginKeeps == ASSUME IInv, NEW r \in Runs, Begin(r) PROVE Kept
<1> DEFINE s == store[r]
           done == [s EXCEPT !.status = "running", !.candidate = "analyzing"]
<1>1. /\ TypeOK /\ up /\ s \in Record /\ Sound(s) /\ s.status = "queued"
      /\ agent \in [Runs -> [Roles -> AgentPhases]] /\ phase \in [Runs -> Phases]
      /\ UNCHANGED <<agent, dispatches>>
  BY DEF IInv, TypeOK, Begin
<1>2. waiting' \in [Runs -> Nat] /\ dispatches' \in [Runs -> Nat]
  BY <1>1 DEF TypeOK, Begin
<1>3. /\ phase[r] = "idle" /\ \A a \in Roles : agent[r][a] = "idle"
      /\ \A a \in Roles : s.output[a] = "absent"
      /\ ~s.decision /\ s.reviews = <<>>
  BY <1>1, Unstarted
<1>4. \A t \in {done} \cup StartedPartly(s) :
         /\ t \in Record /\ t.output = s.output /\ t.reviews = s.reviews
         /\ t.decision = s.decision /\ t.status \in {"queued", "running"}
         /\ t.candidate \in {s.candidate, "analyzing"}
  <2> SUFFICES ASSUME NEW t \in {done} \cup StartedPartly(s)
               PROVE  /\ t \in Record /\ t.output = s.output /\ t.reviews = s.reviews
                      /\ t.decision = s.decision /\ t.status \in {"queued", "running"}
                      /\ t.candidate \in {s.candidate, "analyzing"}
    OBVIOUS
  <2>1. CASE t = s
    BY <1>1, <2>1
  <2>2. CASE t = [s EXCEPT !.status = "running"]
    BY <1>1, <2>2 DEF Record, RunStatuses
  <2>3. CASE t = done
    BY <1>1, <2>3 DEF Record, RunStatuses, CandidateStatuses
  <2> QED BY <2>1, <2>2, <2>3 DEF StartedPartly
<1>5. done.status = "running"
  BY <1>1 DEF Record
<1>6. s.candidate \notin {"absent", "ready_for_review", "approved", "rejected"}
  BY <1>1 DEF Sound, Gated
<1>7. \A t \in {done} \cup StartedPartly(s) : Sound(t)
  BY <1>3, <1>4, <1>6 DEF Sound, Grounded, Gated, Heard, Answered, Roles
<1>10. \A t \in {done} \cup StartedPartly(s) : Follows(s, t)
  BY <1>1, <1>3, <1>4 DEF Follows
<1> HIDE DEF done
<1>8. CASE Commit(r, done, StartedPartly(s)) /\ phase' = [phase EXCEPT ![r] = "collecting"]
  <2>1. PICK t : Writes(r, t) /\ (t = done \/ (t \in StartedPartly(s) /\ ~up'))
    BY <1>1, <1>8, CommitWrites, Zenon
  <2>2. t \in Record /\ Sound(t) /\ t.output = s.output /\ t.decision = s.decision
        /\ t.status \in {"queued", "running"}
    BY <2>1, <1>4, <1>7
  <2>3. up' => Matching(t, "collecting", agent[r])
    BY <1>3, <1>5, <2>1, <2>2 DEF Matching, AtWork, Heard, Roles
  <2>4. Tidy(t, "collecting", agent[r], up')
    BY <1>3, <2>2 DEF Tidy, Terminal
  <2>5. agent[r] \in [Roles -> AgentPhases] /\ agent' = [agent EXCEPT ![r] = agent[r]]
    BY <1>1
  <2>6. "collecting" \in Phases
    BY DEF Phases
  <2> QED BY <1>2, <1>8, <1>10, <2>1, <2>2, <2>3, <2>4, <2>5, <2>6, OneRun
<1>9. CASE Escape(r, StartedPartly(s)) /\ UNCHANGED phase
  <2>1. PICK t \in StartedPartly(s) : Writes(r, t) /\ faults' # 0
    BY <1>1, <1>9, EscapeWrites, Zenon
  <2>2. t \in Record /\ Sound(t)
    BY <2>1, <1>4, <1>7
  <2>3. Matching(t, phase[r], agent[r])
    BY <1>3 DEF Matching, AtWork, Roles
  <2> QED BY <1>1, <1>2, <1>9, <1>10, <2>1, <2>2, <2>3, OnlyStored
<1> QED BY <1>8, <1>9 DEF Begin, done
\* What is known of a run that a phase p other than idle carries.
LEMMA Carried ==
    ASSUME IInv, up, NEW r \in Runs
    PROVE  /\ TypeOK /\ store[r] \in Record /\ Sound(store[r])
           /\ phase[r] \in Phases /\ agent[r] \in [Roles -> AgentPhases]
           /\ Matching(store[r], phase[r], agent[r])
           /\ phase[r] # "idle" => store[r].status = "running" /\ ~store[r].decision
           /\ faults = 0 => \A a \in Roles : store[r].output[a] = "running" => agent[r][a] \in AtWork
BY DEF IInv, TypeOK, Matching, Tidy

\* A record of which one output is stored.
LEMMA OutputStored ==
    ASSUME NEW s \in Record, NEW a \in Roles, NEW v \in OutputStatuses, NEW t,
           t = [s EXCEPT !.output[a] = v]
    PROVE  /\ t \in Record /\ t.status = s.status /\ t.candidate = s.candidate
           /\ t.market = s.market /\ t.risk = s.risk /\ t.decision = s.decision
           /\ t.reviews = s.reviews
           /\ \A b \in Roles : t.output[b] = IF b = a THEN v ELSE s.output[b]
BY DEF Record

\* The snapshot is stored before an analyst exists.
LEMMA CollectKeeps == ASSUME IInv, NEW r \in Runs, Collect(r) PROVE Kept
<1> DEFINE s == store[r]
           done == [s EXCEPT !.market = TRUE]
           g == [a \in Roles |-> IF a \in Analysts THEN "created" ELSE agent[r][a]]
<1>1. /\ TypeOK /\ up /\ s \in Record /\ Sound(s) /\ agent[r] \in [Roles -> AgentPhases]
      /\ s.status = "running" /\ ~s.decision
      /\ \A a \in Roles : agent[r][a] = "idle" /\ s.output[a] = "absent"
  BY Carried DEF Collect, Matching, Heard
<1>2. waiting' \in [Runs -> Nat] /\ dispatches' \in [Runs -> Nat]
  BY <1>1 DEF TypeOK, Collect
<1>3. /\ phase' = [phase EXCEPT ![r] = "analysis"] /\ "analysis" \in Phases
      /\ agent' = [agent EXCEPT ![r] = g] /\ g \in [Roles -> AgentPhases]
  BY <1>1 DEF Collect, Assemble, TypeOK, Phases, AgentPhases
<1>4. PICK t : Writes(r, t) /\ (t = done \/ (t \in {s} /\ ~up'))
  <2>1. Commit(r, done, {s})
    BY DEF Collect
  <2> HIDE DEF done
  <2> QED BY <1>1, <2>1, CommitWrites, Zenon
<1>5. /\ t \in Record /\ t.status = "running" /\ t.output = s.output /\ t.risk = s.risk
      /\ t.decision = s.decision /\ t.reviews = s.reviews /\ t.candidate = s.candidate
      /\ up' => t.market
  BY <1>1, <1>4 DEF Record
<1>6. Sound(t)
  BY <1>1, <1>5 DEF Sound, Grounded, Gated, Heard, Answered
<1>7. up' => Matching(t, "analysis", g)
  BY <1>1, <1>5, AnalysisRunAssumption DEF Matching, AtWork, Heard, Roles
<1>8. Tidy(t, "analysis", g, up')
  BY <1>1, <1>5 DEF Tidy, Terminal
<1>9. Follows(s, t)
  BY <1>1, <1>5 DEF Follows
<1> HIDE DEF g
<1> QED BY <1>2, <1>3, <1>4, <1>5, <1>6, <1>7, <1>8, <1>9, OneRun

\* A run that fails while it collects has no agent to leave behind.
LEMMA CollectFailsKeeps == ASSUME IInv, NEW r \in Runs, CollectFails(r) PROVE Kept
<1> DEFINE s == store[r]
<1>1. /\ s \in Record /\ Sound(s) /\ s.status = "running"
      /\ \A a \in Roles : agent[r][a] = "idle" /\ s.output[a] = "absent"
      /\ UNCHANGED <<waiting, dispatches>>
  BY Carried DEF CollectFails, Matching, Heard
<1>2. \A a \in Roles \ {Chairman} : agent[r][a] \notin AtWork
  BY <1>1 DEF AtWork
<1>3. CanFail(s) /\ \A t \in FailedPartly(s) : t \in Record /\ Sound(t) /\ Follows(s, t)
  BY <1>1, RunningCanFail, FailedIsSound DEF Follows, CanFail
<1>4. CASE FailRun(r, s)
  <2> QED BY <1>1, <1>2, <1>4, FailStep
<1>5. CASE Refused(r, Failed(s), FailedPartly(s)) /\ Release(r)
  <2> QED BY <1>1, <1>2, <1>3, <1>5, RefusedStep DEF CanFail
<1> QED BY <1>4, <1>5 DEF CollectFails

\* All analysts are done, so their outputs are completed before a debater exists.
LEMMA BeginDebateKeeps == ASSUME IInv, NEW r \in Runs, BeginDebate(r) PROVE Kept
<1> DEFINE s == store[r]
           g == [a \in Roles |-> IF a \in Debaters THEN "created" ELSE agent[r][a]]
<1>1. /\ TypeOK /\ up /\ s \in Record /\ Sound(s) /\ agent[r] \in [Roles -> AgentPhases]
      /\ s.status = "running" /\ ~s.decision /\ Matching(s, "analysis", agent[r])
      /\ \A a \in Analysts : agent[r][a] = "done"
      /\ faults = 0 => \A a \in Roles : s.output[a] = "running" => agent[r][a] \in AtWork
  BY Carried DEF BeginDebate
<1>2. waiting' \in [Runs -> Nat] /\ dispatches' \in [Runs -> Nat]
  BY <1>1 DEF TypeOK, BeginDebate
<1>3. /\ phase' = [phase EXCEPT ![r] = "debate"] /\ "debate" \in Phases
      /\ agent' = [agent EXCEPT ![r] = g] /\ g \in [Roles -> AgentPhases]
  BY <1>1 DEF BeginDebate, Assemble, TypeOK, Phases, AgentPhases
<1>4. Writes(r, s) /\ faults' = faults
  BY <1>1 DEF BeginDebate, Writes, budget, TypeOK
<1>5. Matching(s, "debate", g)
  BY <1>1, AnalysisRunAssumption DEF Matching, AtWork, Heard, Roles
<1>6. \A a \in Debaters : s.output[a] = "absent"
  BY <1>1 DEF Matching, Heard
<1>7. faults' = 0 => Tidy(s, "debate", g, up')
  BY <1>1, <1>4, <1>6 DEF Tidy, Terminal
<1>8. Follows(s, s)
  BY DEF Follows
<1> HIDE DEF g
<1> QED BY <1>1, <1>2, <1>3, <1>4, <1>5, <1>7, <1>8, OneRun
\* All debaters are done, so theirs are completed before the chairman is heard.
LEMMA CallChairmanKeeps == ASSUME IInv, NEW r \in Runs, CallChairman(r) PROVE Kept
<1> DEFINE s == store[r]
           done == [s EXCEPT !.output[Chairman] = "running"]
           g == [agent[r] EXCEPT ![Chairman] = "calling"]
<1>1. /\ TypeOK /\ up /\ s \in Record /\ Sound(s) /\ agent[r] \in [Roles -> AgentPhases]
      /\ s.status = "running" /\ ~s.decision /\ Matching(s, "debate", agent[r])
      /\ \A a \in Debaters : agent[r][a] = "done"
      /\ faults = 0 => \A a \in Roles : s.output[a] = "running" => agent[r][a] \in AtWork
      /\ UNCHANGED <<waiting, dispatches>>
  BY Carried DEF CallChairman
<1>2. waiting' \in [Runs -> Nat] /\ dispatches' \in [Runs -> Nat]
  BY <1>1 DEF TypeOK
<1>3. /\ s.market /\ agent[r][Chairman] = "idle"
      /\ \A a \in Analysts \cup Debaters : agent[r][a] = "done" /\ s.output[a] = "completed"
  BY <1>1 DEF Matching, Roles
<1>4. CASE /\ Commit(r, done, {s})
           /\ phase' = [phase EXCEPT ![r] = "chair"]
           /\ agent' = [agent EXCEPT ![r][Chairman] = "calling"]
  <2>1. PICK t : Writes(r, t) /\ (t = done \/ (t \in {s} /\ ~up')) /\ faults' = faults
    <3> HIDE DEF done
    <3> QED BY <1>1, <1>4, CommitWrites, Zenon
  <2>2. /\ phase' = [phase EXCEPT ![r] = "chair"] /\ "chair" \in Phases
        /\ agent' = [agent EXCEPT ![r] = g] /\ g \in [Roles -> AgentPhases]
        /\ \A a \in Roles : g[a] = IF a = Chairman THEN "calling" ELSE agent[r][a]
    BY <1>1, <1>4 DEF Phases, AgentPhases, TypeOK, Roles
  <2>3. /\ t \in Record /\ t.status = s.status /\ t.market = s.market /\ t.risk = s.risk
        /\ t.decision = s.decision /\ t.reviews = s.reviews /\ t.candidate = s.candidate
        /\ \A a \in Roles \ {Chairman} : t.output[a] = s.output[a]
        /\ up' => t.output[Chairman] = "running"
    <3>1. CASE t = done
      BY <1>1, <3>1, OutputStored DEF Roles, OutputStatuses
    <3>2. CASE t = s /\ ~up'
      BY <1>1, <3>2
    <3> QED BY <2>1, <3>1, <3>2
  <2>4. Sound(t)
    BY <1>1, <1>3, <2>3, AnalysisRunAssumption DEF Sound, Grounded, Gated, Heard, Answered, Roles
  <2>5. up' => Matching(t, "chair", g)
    BY <1>1, <1>3, <2>2, <2>3, AnalysisRunAssumption DEF Matching, AtWork, Roles
  <2>6. faults' = 0 => Tidy(t, "chair", g, up')
    BY <1>1, <2>1, <2>2, <2>3 DEF Tidy, Terminal, AtWork
  <2>7. Follows(s, t)
    BY <2>3 DEF Follows
  <2> HIDE DEF g
  <2> QED BY <1>2, <2>1, <2>2, <2>3, <2>4, <2>5, <2>6, <2>7, OneRun
<1>5. CASE Refused(r, Failed(s), FailedPartly(s)) /\ Release(r)
  <2>1. CanFail(s) /\ \A t \in FailedPartly(s) : t \in Record /\ Sound(t) /\ Follows(s, t)
    BY <1>1, RunningCanFail, FailedIsSound DEF Follows, CanFail
  <2>2. \A a \in Roles \ {Chairman} : agent[r][a] \notin AtWork
    BY <1>3 DEF AtWork, Roles
  <2> QED BY <1>1, <1>5, <2>1, <2>2, RefusedStep DEF CanFail
<1> QED BY <1>4, <1>5 DEF CallChairman

\* What the chairman's answer leaves, write by write.
LEMMA Drafted ==
    ASSUME NEW s \in Record, s.status = "running", NEW t \in Drafts(s) \cup {Finished(s)}
    PROVE  /\ t \in Record /\ t.market = s.market /\ t.reviews = s.reviews
           /\ \A a \in Roles : t.output[a] = IF a = Chairman THEN "completed" ELSE s.output[a]
           /\ t.decision => s.decision \/ t.risk
           /\ t.status \in {"running", "completed"} /\ (t.status = "completed" => t.decision)
           /\ \/ t.candidate = s.candidate
              \/ t.candidate = "ready_for_review" /\ t.status = "completed"
           /\ t \in Drafts(s) => t.candidate = s.candidate
           /\ t = Finished(s) => t.status = "completed"
<1> DEFINE Same(x, y) == /\ x \in Record /\ x.output = y.output /\ x.market = y.market
                         /\ x.reviews = y.reviews
<1>1. /\ Spoken(s) \in Record /\ Spoken(s).market = s.market /\ Spoken(s).reviews = s.reviews
      /\ Spoken(s).risk = s.risk /\ Spoken(s).decision = s.decision
      /\ Spoken(s).status = "running" /\ Spoken(s).candidate = s.candidate
      /\ \A a \in Roles : Spoken(s).output[a] = IF a = Chairman THEN "completed" ELSE s.output[a]
  BY OutputStored DEF Spoken, Roles, OutputStatuses
<1>2. /\ Same(Judged(s), Spoken(s)) /\ Judged(s).risk = TRUE /\ Judged(s).decision = s.decision
      /\ Judged(s).status = "running" /\ Judged(s).candidate = s.candidate
  BY <1>1 DEF Judged, Record
<1>3. /\ Same(Decided(s), Spoken(s)) /\ Decided(s).risk = TRUE /\ Decided(s).decision = TRUE
      /\ Decided(s).status = "running" /\ Decided(s).candidate = s.candidate
  BY <1>2 DEF Decided, Record
<1>4. /\ Same(Completed(s), Spoken(s)) /\ Completed(s).risk = TRUE /\ Completed(s).decision = TRUE
      /\ Completed(s).status = "completed" /\ Completed(s).candidate = s.candidate
  BY <1>3 DEF Completed, Record, RunStatuses
<1>5. /\ Same(Finished(s), Spoken(s)) /\ Finished(s).risk = TRUE /\ Finished(s).decision = TRUE
      /\ Finished(s).status = "completed" /\ Finished(s).candidate = "ready_for_review"
  BY <1>4 DEF Finished, Record, CandidateStatuses
<1>6. t \in {Spoken(s), Judged(s), Decided(s), Completed(s), Finished(s)}
  BY DEF Drafts
<1>7. t \in Drafts(s) => t # Finished(s) \/ t.candidate = s.candidate
  BY <1>1, <1>2, <1>3, <1>4 DEF Drafts
<1>8. CASE t = Spoken(s)
  BY <1>1, <1>5, <1>8
<1>9. CASE t = Judged(s)
  BY <1>1, <1>2, <1>5, <1>9
<1>10. CASE t = Decided(s)
  BY <1>1, <1>3, <1>5, <1>10
<1>11. CASE t = Completed(s)
  BY <1>1, <1>4, <1>5, <1>11
<1>12. CASE t = Finished(s)
  BY <1>1, <1>5, <1>7, <1>12
<1> QED BY <1>6, <1>8, <1>9, <1>10, <1>11, <1>12
\* The record in which the chairman failed.
LEMMA SilencedRecord ==
    ASSUME NEW s \in Record
    PROVE  /\ Silenced(s) \in Record /\ Silenced(s).status = s.status
           /\ Silenced(s).candidate = s.candidate /\ Silenced(s).market = s.market
           /\ Silenced(s).risk = s.risk /\ Silenced(s).decision = s.decision
           /\ Silenced(s).reviews = s.reviews
           /\ \A a \in Roles : Silenced(s).output[a] = IF a = Chairman THEN "failed" ELSE s.output[a]
BY OutputStored DEF Silenced, Roles, OutputStatuses

\* The records that the chairman's answer leaves are sound.
LEMMA DraftedIsSound ==
    ASSUME NEW s \in Record, Sound(s), s.status = "running", s.market,
           \A a \in Analysts \cup Debaters : s.output[a] = "completed", ~s.decision,
           NEW t \in Drafts(s) \cup {Finished(s)}
    PROVE  /\ t \in Record /\ Sound(t)
           /\ t \in Drafts(s) => CanFail(t)
           /\ \A a \in Roles : t.output[a] = "completed"
           /\ t = Finished(s) => t.status = "completed"
           /\ Follows(s, t)
<1>1. CanFail(s)
  BY RunningCanFail
<1>2. /\ t \in Record /\ t.market /\ t.reviews = <<>>
      /\ \A a \in Roles : t.output[a] = "completed"
      /\ t.decision => t.risk
      /\ t.status \in {"running", "completed"} /\ (t.status = "completed" => t.decision)
      /\ \/ t.candidate = s.candidate
         \/ t.candidate = "ready_for_review" /\ t.status = "completed"
      /\ t \in Drafts(s) => t.candidate = s.candidate
      /\ t = Finished(s) => t.status = "completed"
  BY <1>1, Drafted DEF Roles, CanFail
<1>3. Sound(t)
  BY <1>1, <1>2 DEF CanFail, Sound, Grounded, Gated, Heard, Answered, Roles
<1>4. t \in Drafts(s) => CanFail(t)
  BY <1>1, <1>2 DEF CanFail
<1>5. Follows(s, t)
  BY <1>1, <1>2 DEF CanFail, Follows
<1> QED BY <1>2, <1>3, <1>4, <1>5

\* What holds when the chairman answers.
LEMMA AtTheChair ==
    ASSUME IInv, up, NEW r \in Runs, phase[r] = "chair"
    PROVE  /\ TypeOK /\ store[r] \in Record /\ Sound(store[r])
           /\ store[r].status = "running" /\ ~store[r].decision /\ store[r].market
           /\ \A a \in Analysts \cup Debaters : store[r].output[a] = "completed"
           /\ \A a \in Roles \ {Chairman} : agent[r][a] \notin AtWork
<1>1. /\ TypeOK /\ store[r] \in Record /\ Sound(store[r]) /\ ~store[r].decision
      /\ store[r].status = "running" /\ Matching(store[r], "chair", agent[r])
  BY Carried
<1> QED BY <1>1 DEF Matching, AtWork, Roles

\* Each prefix of the chairman's writes is a sound record.
LEMMA FinishKeeps == ASSUME IInv, NEW r \in Runs, Finish(r) PROVE Kept
<1> DEFINE s == store[r]
           partly == {s} \cup Drafts(s)
<1>1. /\ TypeOK /\ up /\ phase[r] = "chair" /\ Release(r) /\ UNCHANGED <<waiting, dispatches>>
      /\ s \in Record /\ Sound(s) /\ s.status = "running" /\ ~s.decision /\ s.market
      /\ \A a \in Analysts \cup Debaters : s.output[a] = "completed"
      /\ \A a \in Roles \ {Chairman} : agent[r][a] \notin AtWork
  BY AtTheChair DEF Finish, IInv
<1>2. PICK t : Writes(r, t) /\ (t = Finished(s) \/ (t \in partly /\ ~up')) /\ faults' = faults
  <2>1. Commit(r, Finished(s), partly)
    BY DEF Finish
  <2> HIDE DEF partly
  <2> QED BY <1>1, <2>1, CommitWrites, Zenon
<1>3. CASE t = s /\ ~up'
  \* The process stops before the first write: the chairman's output stays running.
  <2>1. UNCHANGED <<waiting, dispatches>> /\ TypeOK
    BY <1>1
  <2>2. waiting' \in [Runs -> Nat] /\ dispatches' \in [Runs -> Nat]
    BY <2>1 DEF TypeOK
  <2>3. /\ phase' = [phase EXCEPT ![r] = "idle"] /\ "idle" \in Phases
        /\ agent' = [agent EXCEPT ![r] = NoTask(r)] /\ NoTask(r) \in [Roles -> AgentPhases]
    BY <1>1, ReleaseLeavesNone
  <2>4. Tidy(t, "idle", NoTask(r), up')
    BY <1>1, <1>3 DEF Tidy, Terminal
  <2>5. Follows(s, t)
    BY <1>3 DEF Follows
  <2> QED BY <1>1, <1>2, <1>3, <2>2, <2>3, <2>4, <2>5, OneRun
<1>4. CASE t \in Drafts(s) \cup {Finished(s)}
  <2>1. /\ t \in Record /\ Sound(t) /\ \A a \in Roles : t.output[a] = "completed"
        /\ t = Finished(s) => t.status = "completed"
        /\ Follows(s, t)
    BY <1>1, <1>4, DraftedIsSound
  <2>2. up' => t.status # "running"
    BY <1>2, <2>1
  <2>3. \A a \in Roles : t.output[a] # "running"
    BY <2>1
  <2> QED BY <1>1, <1>2, <2>1, <2>2, <2>3, TaskEnds
<1> QED BY <1>2, <1>3, <1>4

\* A failure in the chairman's writes leaves a draft that may fail, or a failed run.
LEMMA FinishFailsKeeps == ASSUME IInv, NEW r \in Runs, FinishFails(r) PROVE Kept
<1> DEFINE s == store[r]
<1>1. /\ TypeOK /\ up /\ phase[r] = "chair" /\ UNCHANGED <<waiting, dispatches>>
      /\ s \in Record /\ Sound(s) /\ s.status = "running" /\ ~s.decision /\ s.market
      /\ \A a \in Analysts \cup Debaters : s.output[a] = "completed"
      /\ \A a \in Roles \ {Chairman} : agent[r][a] \notin AtWork
  BY AtTheChair DEF FinishFails, IInv
<1>2. CASE FailRun(r, Silenced(s))
  <2>1. /\ Silenced(s) \in Record /\ Silenced(s).status = s.status
        /\ Silenced(s).candidate = s.candidate /\ Silenced(s).market = s.market
        /\ Silenced(s).risk = s.risk /\ Silenced(s).decision = s.decision
        /\ Silenced(s).reviews = s.reviews
        /\ \A a \in Roles : Silenced(s).output[a] = IF a = Chairman THEN "failed" ELSE s.output[a]
    BY <1>1, SilencedRecord
  <2>2. \A a \in Roles : Silenced(s).output[a] \in {"completed", "failed"}
    BY <1>1, <2>1 DEF Roles
  <2>3. CanFail(s)
    BY <1>1, RunningCanFail
  <2>4. \A a \in Analysts \cup Debaters : Silenced(s).output[a] = "completed"
    BY <1>1, <2>1, AnalysisRunAssumption DEF Roles
  <2>5. Sound(Silenced(s))
    BY <1>1, <2>1, <2>3, <2>4 DEF CanFail, Sound, Grounded, Gated, Heard, Answered
  <2>6. \A a \in Roles : Silenced(s).output[a] # "running"
    BY <2>2
  <2>7. Silenced(s).status = "running"
    BY <1>1, <2>1
  <2> QED BY <1>1, <1>2, <2>1, <2>5, <2>6, <2>7, FailStep
<1>3. CASE /\ \E p \in Drafts(s) : Refused(r, Failed(p), Drafts(s) \cup FailedPartly(p))
           /\ Release(r)
  <2>1. PICK p \in Drafts(s) : Refused(r, Failed(p), Drafts(s) \cup FailedPartly(p))
    BY <1>3
  <2>2. \A t \in Drafts(s) : t \in Record /\ Sound(t) /\ CanFail(t) /\ Follows(s, t)
    BY <1>1, DraftedIsSound
  <2>3. s.reviews = <<>>
    BY <1>1, RunningCanFail DEF CanFail
  <2>4. \A t \in FailedPartly(p) : t \in Record /\ Sound(t) /\ Follows(s, t)
    <3> TAKE t \in FailedPartly(p)
    <3>1. t \in Record /\ Sound(t) /\ t.reviews = p.reviews /\ (t = p \/ t.status = "failed")
      BY <2>1, <2>2, FailedIsSound
    <3> QED BY <1>1, <2>1, <2>2, <2>3, <3>1 DEF Follows, CanFail
  <2> QED BY <1>1, <1>3, <2>1, <2>2, <2>3, <2>4, RefusedStep
<1> QED BY <1>2, <1>3 DEF FinishFails
----------------------------------------------------------------------------
(* The agents of a stage *)

\* Where an agent that has not answered yet is, and what is stored of it.
LEMMA AtStage ==
    ASSUME IInv, up, NEW r \in Runs, NEW a \in Roles, a # Chairman \/ agent[r][a] = "created",
           agent[r][a] \in {"created", "calling", "cancelling"}
    PROVE  /\ a # Chairman /\ phase[r] \in {"analysis", "debate", "unwinding"}
           /\ agent[r][a] = "created" => phase[r] # "unwinding" /\ store[r].output[a] = "absent"
           /\ agent[r][a] \in AtWork => store[r].output[a] = "running"
           /\ agent[r][a] = "calling" => phase[r] # "unwinding"
           /\ phase[r] = "analysis" => a \in Analysts
           /\ phase[r] = "debate" => a \in Debaters
<1>1. phase[r] \in Phases /\ Matching(store[r], phase[r], agent[r])
  BY Carried
<1> QED BY <1>1 DEF Matching, Roles, Phases, AtWork

\* A step of an agent a that has not answered yet: it becomes v, and t differs from
\* the record of its run in the output of a at most.
LEMMA AgentStep ==
    ASSUME IInv, up, NEW r \in Runs, NEW a \in Roles, a # Chairman,
           agent[r][a] \in {"created", "calling", "cancelling"},
           NEW t \in Record, Writes(r, t),
           t.status = store[r].status, t.candidate = store[r].candidate,
           t.market = store[r].market, t.risk = store[r].risk,
           t.decision = store[r].decision, t.reviews = store[r].reviews,
           \A b \in Roles \ {a} : t.output[b] = store[r].output[b],
           t.output[a] = "absent" => store[r].output[a] = "absent",
           NEW v \in {"calling", "done", "raised"},
           v = "calling" => agent[r][a] = "created" /\ (up' => t.output[a] = "running"),
           v = "done" /\ up' => t.output[a] = "completed",
           faults' = 0 /\ up' /\ t.output[a] = "running" => v = "calling",
           agent' = [agent EXCEPT ![r][a] = v], UNCHANGED <<waiting, phase, dispatches>>
    PROVE  Kept
<1> DEFINE s == store[r]
           g == [agent[r] EXCEPT ![a] = v]
<1>1. /\ TypeOK /\ s \in Record /\ Sound(s) /\ phase[r] \in Phases
      /\ agent[r] \in [Roles -> AgentPhases] /\ Matching(s, phase[r], agent[r])
      /\ faults = 0 => \A b \in Roles : s.output[b] = "running" => agent[r][b] \in AtWork
  BY Carried
<1>2. /\ phase[r] \in {"analysis", "debate", "unwinding"}
      /\ s.status = "running" /\ ~s.decision
      /\ agent[r][a] = "created" => phase[r] # "unwinding" /\ s.output[a] = "absent"
      /\ agent[r][a] \in AtWork => s.output[a] = "running"
      /\ phase[r] = "analysis" => a \in Analysts
      /\ phase[r] = "debate" => a \in Debaters
  BY AtStage, Carried
<1>3. /\ waiting' \in [Runs -> Nat] /\ dispatches' \in [Runs -> Nat]
      /\ phase' = [phase EXCEPT ![r] = phase[r]]
      /\ agent' = [agent EXCEPT ![r] = g] /\ g \in [Roles -> AgentPhases]
      /\ \A b \in Roles : g[b] = IF b = a THEN v ELSE agent[r][b]
  BY <1>1 DEF TypeOK, AgentPhases
<1>4. s.output[a] # "completed" /\ a \in Analysts \cup Debaters
  BY <1>2 DEF AtWork, Roles
<1>5. phase[r] = "analysis" => \A b \in Debaters \cup {Chairman} : s.output[b] = "absent"
  BY <1>1 DEF Matching, Heard
<1>6. phase[r] = "debate" => \A b \in Analysts : s.output[b] = "completed"
  BY <1>1 DEF Matching, Roles
<1>7. a \in Debaters /\ t.output[a] # "absent" => \A b \in Analysts : s.output[b] = "completed"
  BY <1>1, <1>2, <1>6, AnalysisRunAssumption DEF Sound, Grounded, Heard, Answered, AtWork
<1>8. Grounded(t)
  <2>1. ASSUME NEW b \in Debaters, Heard(t, b) PROVE Answered(t, Analysts)
    <3>1. CASE a \in Debaters
      BY <1>1, <1>7, <2>1, <3>1, AnalysisRunAssumption DEF Sound, Grounded, Heard, Answered, Roles
    <3>2. CASE a \in Analysts
      BY <1>1, <1>4, <2>1, <3>2, AnalysisRunAssumption DEF Sound, Grounded, Heard, Answered, Roles
    <3> QED BY <1>4, <3>1, <3>2
  <2>2. Heard(t, Chairman) => Answered(t, Debaters)
    BY <1>1, <1>4, <1>7, AnalysisRunAssumption DEF Sound, Grounded, Heard, Answered, Roles
  <2> QED BY <1>2, <2>1, <2>2 DEF Grounded
<1>9. Sound(t)
  BY <1>1, <1>2, <1>8 DEF Sound, Gated
<1>10. up' => Matching(t, phase[r], g)
  <2>1. SUFFICES ASSUME up' PROVE Matching(t, phase[r], g)
    OBVIOUS
  <2>2. \A b \in Roles : /\ g[b] = "created" => t.output[b] = "absent"
                         /\ g[b] \in AtWork  => t.output[b] = "running"
                         /\ g[b] = "done"    => t.output[b] = "completed"
    <3> TAKE b \in Roles
    <3>1. CASE b = a
      BY <1>3, <2>1, <3>1 DEF AtWork
    <3>2. CASE b # a
      BY <1>1, <1>3, <3>2 DEF Matching
    <3> QED BY <3>1, <3>2
  <2>3. CASE phase[r] = "analysis"
    BY <1>1, <1>2, <1>3, <2>2, <2>3, AnalysisRunAssumption DEF Matching, Heard, Roles
  <2>4. CASE phase[r] = "debate"
    BY <1>1, <1>2, <1>3, <2>2, <2>4, AnalysisRunAssumption DEF Matching, Heard, Roles
  <2>5. CASE phase[r] = "unwinding"
    BY <1>1, <1>2, <1>3, <2>2, <2>5, AnalysisRunAssumption DEF Matching, Heard, Roles
  <2> QED BY <1>2, <2>3, <2>4, <2>5
<1>11. faults' = 0 => Tidy(t, phase[r], g, up')
  <2>1. SUFFICES ASSUME faults' = 0, up' PROVE Tidy(t, phase[r], g, up')
    BY <1>2 DEF Tidy, Terminal
  <2>2. faults = 0
    BY <2>1 DEF Writes
  <2>3. \A b \in Roles : t.output[b] = "running" => g[b] \in AtWork
    BY <1>1, <1>3, <2>1, <2>2 DEF AtWork
  <2> QED BY <1>2, <2>3 DEF Tidy, Terminal
<1>12. Follows(s, t)
  BY DEF Follows
<1> HIDE DEF g
<1> QED BY <1>1, <1>3, <1>9, <1>10, <1>11, <1>12, OneRun
\* An agent announces itself, or storage refuses that.
LEMMA SpeakKeeps == ASSUME IInv, NEW r \in Runs, NEW a \in Roles, Speak(r, a) PROVE Kept
<1> DEFINE s == store[r]
           done == [s EXCEPT !.output[a] = "running"]
<1>1. TypeOK /\ up /\ s \in Record /\ agent[r][a] = "created"
      /\ UNCHANGED <<waiting, phase, dispatches>>
  BY DEF IInv, TypeOK, Speak
<1>2. a # Chairman /\ s.output[a] = "absent"
  BY <1>1, AtStage
<1>3. CASE Commit(r, done, {s}) /\ agent' = [agent EXCEPT ![r][a] = "calling"]
  <2>1. PICK t : Writes(r, t) /\ (t = done \/ (t \in {s} /\ ~up'))
    <3> HIDE DEF done
    <3> QED BY <1>1, <1>3, CommitWrites, Zenon
  <2>2. /\ t \in Record /\ t.status = s.status /\ t.market = s.market /\ t.risk = s.risk
        /\ t.decision = s.decision /\ t.reviews = s.reviews /\ t.candidate = s.candidate
        /\ \A b \in Roles \ {a} : t.output[b] = s.output[b]
        /\ up' => t.output[a] = "running"
        /\ t.output[a] = "absent" => s.output[a] = "absent"
    <3>1. CASE t = done
      BY <1>1, <3>1, OutputStored DEF OutputStatuses
    <3>2. CASE t = s /\ ~up'
      BY <1>1, <3>2
    <3> QED BY <2>1, <3>1, <3>2
  <2> QED BY <1>1, <1>2, <1>3, <2>1, <2>2, AgentStep
<1>4. CASE Escape(r, {s}) /\ agent' = [agent EXCEPT ![r][a] = "raised"]
  <2>1. PICK t \in {s} : Writes(r, t) /\ faults' # 0
    BY <1>1, <1>4, EscapeWrites
  <2> QED BY <1>1, <1>2, <1>4, <2>1, AgentStep
<1> QED BY <1>3, <1>4 DEF Speak

\* The record in which the output of a is v.
Out(s, a, v) == [s EXCEPT !.output[a] = v]

LEMMA OutRecord ==
    ASSUME NEW s \in Record, NEW a \in Roles, NEW v \in OutputStatuses
    PROVE  /\ Out(s, a, v) \in Record /\ Out(s, a, v).status = s.status
           /\ Out(s, a, v).market = s.market /\ Out(s, a, v).risk = s.risk
           /\ Out(s, a, v).decision = s.decision /\ Out(s, a, v).reviews = s.reviews
           /\ Out(s, a, v).candidate = s.candidate /\ Out(s, a, v).output[a] = v
           /\ \A b \in Roles \ {a} : Out(s, a, v).output[b] = s.output[b]
BY DEF Out, Record

\* An analyst without input announces itself and answers in one stretch.
LEMMA SpeakOfGapKeeps ==
    ASSUME IInv, NEW r \in Runs, NEW a \in Roles, SpeakOfGap(r, a) PROVE Kept
<1> DEFINE s == store[r]
           out(v) == Out(s, a, v)
<1>1. TypeOK /\ up /\ s \in Record /\ agent[r][a] = "created"
      /\ UNCHANGED <<waiting, phase, dispatches>>
  BY DEF IInv, TypeOK, SpeakOfGap
<1>2. a # Chairman /\ s.output[a] = "absent"
  BY <1>1, AtStage
<1>3. \A v \in OutputStatuses :
        /\ out(v) \in Record /\ out(v).status = s.status /\ out(v).market = s.market
        /\ out(v).risk = s.risk /\ out(v).decision = s.decision /\ out(v).reviews = s.reviews
        /\ out(v).candidate = s.candidate /\ out(v).output[a] = v
        /\ \A b \in Roles \ {a} : out(v).output[b] = s.output[b]
  BY <1>1, OutRecord
<1>4. {"running", "completed", "failed"} \subseteq OutputStatuses
  BY DEF OutputStatuses
<1>5. \/ /\ Commit(r, out("completed"), {s, out("running")})
         /\ agent' = [agent EXCEPT ![r][a] = "done"]
      \/ /\ Refused(r, out("failed"), {out("running")})
         /\ agent' = [agent EXCEPT ![r][a] = "raised"]
  BY DEF SpeakOfGap, Out
<1> HIDE DEF out
<1>6. CASE /\ Commit(r, out("completed"), {s, out("running")})
           /\ agent' = [agent EXCEPT ![r][a] = "done"]
  <2>1. PICK t : Writes(r, t) /\ (t = out("completed") \/ (t \in {s, out("running")} /\ ~up'))
    BY <1>1, <1>6, CommitWrites, Zenon
  <2>2. CASE t = out("completed")
    <3>1. /\ t \in Record /\ t.status = s.status /\ t.market = s.market /\ t.risk = s.risk
          /\ t.decision = s.decision /\ t.reviews = s.reviews /\ t.candidate = s.candidate
          /\ t.output[a] = "completed" /\ \A b \in Roles \ {a} : t.output[b] = s.output[b]
      BY <1>3, <1>4, <2>2
    <3> QED BY <1>1, <1>2, <1>6, <2>1, <3>1, AgentStep
  <2>3. CASE t = out("running") /\ ~up'
    BY <1>1, <1>2, <1>3, <1>4, <1>6, <2>1, <2>3, AgentStep
  <2>4. CASE t = s /\ ~up'
    BY <1>1, <1>2, <1>6, <2>1, <2>4, AgentStep
  <2> QED BY <2>1, <2>2, <2>3, <2>4
<1>7. CASE /\ Refused(r, out("failed"), {out("running")})
           /\ agent' = [agent EXCEPT ![r][a] = "raised"]
  <2>1. PICK t : Writes(r, t) /\ faults' # 0 /\ t \in {out("failed"), out("running")}
    BY <1>1, <1>7, RefusedWrites
  <2>2. PICK v \in {"failed", "running"} : t = out(v)
    BY <2>1
  <2> QED BY <1>1, <1>2, <1>3, <1>4, <1>7, <2>1, <2>2, AgentStep
<1> QED BY <1>5, <1>6, <1>7
\* The answer of a provider is stored.
LEMMA AnswerKeeps == ASSUME IInv, NEW r \in Runs, NEW a \in Roles, Answer(r, a) PROVE Kept
<1> DEFINE s == store[r]
           done == Out(s, a, "completed")
<1>1. TypeOK /\ up /\ s \in Record /\ a # Chairman /\ agent[r][a] = "calling"
      /\ Commit(r, done, {s}) /\ agent' = [agent EXCEPT ![r][a] = "done"]
      /\ UNCHANGED <<waiting, phase, dispatches>>
  BY DEF IInv, TypeOK, Answer, Out
<1>2. /\ done \in Record /\ done.status = s.status /\ done.market = s.market
      /\ done.risk = s.risk /\ done.decision = s.decision /\ done.reviews = s.reviews
      /\ done.candidate = s.candidate /\ done.output[a] = "completed"
      /\ \A b \in Roles \ {a} : done.output[b] = s.output[b]
  BY <1>1, OutRecord DEF OutputStatuses
<1>3. PICK t : Writes(r, t) /\ (t = done \/ (t \in {s} /\ ~up'))
  <2> HIDE DEF done
  <2> QED BY <1>1, CommitWrites, Zenon
<1> HIDE DEF done
<1>4. CASE t = done
  BY <1>1, <1>2, <1>3, <1>4, AgentStep
<1>5. CASE t = s /\ ~up'
  BY <1>1, <1>3, <1>5, AgentStep
<1> QED BY <1>3, <1>4, <1>5

\* An agent that fails or is cancelled closes its output unless storage refuses.
LEMMA BreakKeeps == ASSUME IInv, NEW r \in Runs, NEW a \in Roles, Break(r, a) PROVE Kept
<1> DEFINE s == store[r]
           done == Out(s, a, "failed")
<1>1. TypeOK /\ up /\ s \in Record /\ a # Chairman /\ agent[r][a] \in {"calling", "cancelling"}
      /\ (Commit(r, done, {s}) \/ Escape(r, {s})) /\ agent' = [agent EXCEPT ![r][a] = "raised"]
      /\ UNCHANGED <<waiting, phase, dispatches>>
  BY DEF IInv, TypeOK, Break, Out, AtWork
<1>2. /\ done \in Record /\ done.status = s.status /\ done.market = s.market
      /\ done.risk = s.risk /\ done.decision = s.decision /\ done.reviews = s.reviews
      /\ done.candidate = s.candidate /\ done.output[a] = "failed"
      /\ \A b \in Roles \ {a} : done.output[b] = s.output[b]
  BY <1>1, OutRecord DEF OutputStatuses
<1> HIDE DEF done
<1>3. CASE Commit(r, done, {s})
  <2>1. PICK t : Writes(r, t) /\ (t = done \/ (t \in {s} /\ ~up'))
    BY <1>1, <1>3, CommitWrites, Zenon
  <2>2. CASE t = done
    BY <1>1, <1>2, <2>1, <2>2, AgentStep
  <2>3. CASE t = s /\ ~up'
    BY <1>1, <2>1, <2>3, AgentStep
  <2> QED BY <2>1, <2>2, <2>3
<1>4. CASE Escape(r, {s})
  <2>1. PICK t \in {s} : Writes(r, t) /\ faults' # 0
    BY <1>1, <1>4, EscapeWrites
  <2> QED BY <1>1, <2>1, AgentStep
<1> QED BY <1>1, <1>3, <1>4

\* The agents at work stay at work until their cancellation reaches them.
LEMMA CancelSiblingsKeeps == ASSUME IInv, NEW r \in Runs, CancelSiblings(r) PROVE Kept
<1> DEFINE s == store[r]
           g == [a \in Roles |-> IF agent[r][a] = "calling" THEN "cancelling" ELSE agent[r][a]]
<1>1. /\ TypeOK /\ up /\ s \in Record /\ Sound(s) /\ agent[r] \in [Roles -> AgentPhases]
      /\ phase[r] \in {"analysis", "debate"} /\ Matching(s, phase[r], agent[r])
      /\ \A a \in Roles : agent[r][a] # "created"
      /\ faults = 0 => \A a \in Roles : s.output[a] = "running" => agent[r][a] \in AtWork
      /\ UNCHANGED <<waiting, dispatches>>
  BY Carried DEF CancelSiblings
<1>2. s.status = "running" /\ ~s.decision /\ agent[r][Chairman] = "idle"
  BY <1>1 DEF Matching
<1>3. /\ waiting' \in [Runs -> Nat] /\ dispatches' \in [Runs -> Nat]
      /\ phase' = [phase EXCEPT ![r] = "unwinding"] /\ "unwinding" \in Phases
      /\ agent' = [agent EXCEPT ![r] = g] /\ g \in [Roles -> AgentPhases]
  BY <1>1 DEF CancelSiblings, TypeOK, Phases, AgentPhases
<1>4. Writes(r, s) /\ faults' = faults
  BY <1>1 DEF CancelSiblings, Writes, budget, TypeOK
<1>5. \A a \in Roles : g[a] \in AtWork => agent[r][a] \in AtWork
  BY DEF AtWork
<1>6. Matching(s, "unwinding", g)
  BY <1>1, <1>2 DEF Matching, AtWork, Roles
<1>7. faults' = 0 => Tidy(s, "unwinding", g, up')
  <2>1. \A a \in Roles : agent[r][a] \in AtWork => g[a] \in AtWork
    BY DEF AtWork
  <2> QED BY <1>1, <1>2, <1>4, <2>1 DEF Tidy, Terminal
<1>8. Follows(s, s)
  BY DEF Follows
<1> HIDE DEF g
<1> QED BY <1>1, <1>3, <1>4, <1>6, <1>7, <1>8, OneRun

\* No agent is at work any more when the run is stored as failed.
LEMMA UnwindKeeps == ASSUME IInv, NEW r \in Runs, Unwind(r) PROVE Kept
<1> DEFINE s == store[r]
<1>1. /\ s \in Record /\ Sound(s) /\ s.status = "running" /\ Matching(s, "unwinding", agent[r])
      /\ faults = 0 => \A a \in Roles : s.output[a] = "running" => agent[r][a] \in AtWork
      /\ \A a \in Roles : agent[r][a] # "cancelling"
      /\ FailRun(r, s) /\ UNCHANGED <<waiting, dispatches>>
  BY Carried DEF Unwind
<1>2. \A a \in Roles : agent[r][a] \notin AtWork
  BY <1>1 DEF Matching, AtWork
<1>3. faults = 0 => \A a \in Roles : s.output[a] # "running"
  BY <1>1, <1>2
<1> QED BY <1>1, <1>2, <1>3, FailStep

----------------------------------------------------------------------------
(* Stops and recovery *)

\* A crash changes no record, and what relates records to tasks is about a serving process.
LEMMA CrashKeeps == ASSUME IInv, Crash PROVE Kept
<1>1. UNCHANGED <<store, waiting, phase, agent, dispatches, faults>> /\ up' = FALSE
  BY DEF Crash, tasks
<1>2. TypeOK'
  <2>1. stops' \in Nat
    BY DEF Crash, IInv, TypeOK
  <2>2. up' \in BOOLEAN
    BY <1>1
  <2> QED BY <1>1, <2>1, <2>2 DEF IInv, TypeOK
<1>3. (faults = 0 => \A r \in Runs : Tidy(store[r], phase[r], agent[r], up))'
  BY <1>1 DEF IInv, Tidy
<1> QED BY <1>1, <1>2, <1>3 DEF IInv, Kept, Follows

\* A record of which some outputs at work are closed.
LEMMA Closed ==
    ASSUME NEW s \in Record, Sound(s), NEW closed, \A a \in Roles \cap closed : s.output[a] = "running",
           NEW t, t = OutputsClosed(s, closed)
    PROVE  /\ t \in Record /\ Sound(t) /\ t.status = s.status
           /\ t.candidate = s.candidate /\ t.reviews = s.reviews
           /\ \A a \in Roles : t.output[a] = IF a \in closed THEN "failed" ELSE s.output[a]
<1>1. /\ t \in Record /\ t.status = s.status /\ t.candidate = s.candidate
      /\ t.market = s.market /\ t.risk = s.risk /\ t.decision = s.decision
      /\ t.reviews = s.reviews
      /\ \A a \in Roles : t.output[a] = IF a \in closed THEN "failed" ELSE s.output[a]
  BY DEF OutputsClosed, Record, OutputStatuses
<1>2. Sound(t)
  BY <1>1 DEF Sound, Grounded, Gated, Heard, Answered, Roles
<1> QED BY <1>1, <1>2
\* What the recovery leaves of an interrupted run, whole or in part: no output of it
\* is running once it is stored as failed.
LEMMA RecoveredRecord ==
    ASSUME NEW s \in Record, Sound(s), s.status = "running",
           NEW t \in RecoveredPartly(s) \cup {Recovered(s)}
    PROVE  /\ t \in Record /\ Sound(t) /\ t.status \in {"running", "failed"}
           /\ t = Recovered(s) => t.status = "failed"
           /\ t.status = "failed" => \A a \in Roles : t.output[a] # "running"
           /\ t.reviews = s.reviews /\ Follows(s, t)
<1> DEFINE c == OutputsClosed(s, RunningOutputs(s))
<1>1. \A a \in RunningOutputs(s) : s.output[a] = "running"
  BY DEF RunningOutputs
<1>2. /\ c \in Record /\ Sound(c) /\ c.status = "running"
      /\ c.reviews = s.reviews /\ s.reviews = <<>>
      /\ \A a \in Roles : c.output[a] # "running"
  BY <1>1, Closed, RunningCanFail DEF RunningOutputs, CanFail
<1>3. CASE t \in {OutputsClosed(s, closed) : closed \in SUBSET RunningOutputs(s)}
  <2>1. PICK closed \in SUBSET RunningOutputs(s) : t = OutputsClosed(s, closed)
    BY <1>3
  <2>2. t \in Record /\ Sound(t) /\ t.status = "running" /\ t.reviews = s.reviews
    BY <1>1, <2>1, Closed
  <2>3. Recovered(s).status = "failed"
    BY <1>2, RunningCanFail, FailedIsSound DEF Recovered
  <2> QED BY <2>2, <2>3 DEF Follows
<1>4. CASE t \in FailedPartly(c) \cup {Failed(c)}
  <2>1. t \in Record /\ Sound(t) /\ t.output = c.output /\ (t = c \/ t.status = "failed")
        /\ (t = Failed(c) => t.status = "failed") /\ t.reviews = c.reviews
    BY <1>2, <1>4, RunningCanFail, FailedIsSound
  <2> QED BY <1>2, <2>1 DEF Recovered, Follows
<1> QED BY <1>3, <1>4 DEF RecoveredPartly, Recovered

\* The agents that a shutdown cancels close running outputs.
LEMMA ShutdownKeeps == ASSUME IInv, Shutdown PROVE Kept
<1> DEFINE atWork(r) == {a \in Roles : agent[r][a] \in AtWork}
<1>1. /\ TypeOK /\ up /\ store \in [Runs -> Record] /\ UNCHANGED <<waiting, phase, agent, dispatches, faults>>
      /\ stops' = stops + 1 /\ up' = FALSE
      /\ store' = [r \in Runs |-> OutputsClosed(store[r], atWork(r))]
  <2>1. store \in [Runs -> Record]
    BY DEF IInv, TypeOK
  <2>2. \A r \in Runs : OutputsClosed(store[r], atWork(r)) =
           [store[r] EXCEPT !.output = [a \in Roles |-> IF agent[r][a] \in AtWork THEN "failed" ELSE @[a]]]
    BY <2>1 DEF OutputsClosed, Record
  <2> QED BY <2>1, <2>2, Zenon DEF Shutdown, tasks, IInv
<1>2. \A r \in Runs : \A a \in Roles \cap atWork(r) : store[r].output[a] = "running"
  BY <1>1 DEF IInv, Matching
<1>3. \A r \in Runs : store[r] \in Record /\ Sound(store[r])
  BY <1>1 DEF IInv
<1> HIDE DEF atWork
<1>4. \A r \in Runs :
         /\ store'[r] \in Record /\ Sound(store'[r]) /\ store'[r].status = store[r].status
         /\ store'[r].reviews = store[r].reviews
         /\ \A a \in Roles : store'[r].output[a] = "running" => store[r].output[a] = "running"
  <2> TAKE r \in Runs
  <2>1. store'[r] = OutputsClosed(store[r], atWork(r))
    BY <1>1
  <2> QED BY <1>2, <1>3, <2>1, Closed
<1>5. TypeOK'
  <2>1. store' \in [Runs -> Record]
    BY <1>1, <1>4
  <2>2. up' \in BOOLEAN
    BY <1>1
  <2> QED BY <1>1, <2>1, <2>2 DEF TypeOK
<1>6. (faults = 0 => \A r \in Runs : Tidy(store[r], phase[r], agent[r], up))'
  BY <1>1, <1>4 DEF IInv, Tidy
<1>7. (\A r \in Runs : Sound(store[r]))'
  BY <1>4
<1>8. \A r \in Runs : Follows(store[r], store'[r])
  BY <1>4 DEF Follows
<1> QED BY <1>1, <1>5, <1>6, <1>7, <1>8 DEF IInv, Kept

\* The recovery closes every running run and its outputs.
LEMMA RestartKeeps == ASSUME IInv, Restart PROVE Kept
<1>1. /\ TypeOK /\ store \in [Runs -> Record] /\ \A r \in Runs : Sound(store[r])
      /\ UNCHANGED <<dispatches, stops, faults>> /\ up' = TRUE
      /\ phase' = [r \in Runs |-> "idle"] /\ agent' = [r \in Runs |-> NoTask(r)]
      /\ waiting' = [r \in Runs |-> 0]
  BY DEF IInv, TypeOK, Restart, NoTasks, budget
<1>2. \A r \in Runs : store'[r] = IF store[r].status = "running" THEN Recovered(store[r]) ELSE store[r]
  BY DEF Restart, Interrupted
<1>3. \A r \in Runs :
         /\ store'[r] \in Record /\ Sound(store'[r]) /\ store'[r].status # "running"
         /\ store[r].status = "running" => \A a \in Roles : store'[r].output[a] # "running"
         /\ store[r].status # "running" => store'[r] = store[r]
         /\ Follows(store[r], store'[r])
  <2> TAKE r \in Runs
  <2>1. CASE store[r].status = "running"
    BY <1>1, <1>2, <2>1, RecoveredRecord
  <2>2. CASE store[r].status # "running"
    BY <1>1, <1>2, <2>2 DEF Follows
  <2> QED BY <2>1, <2>2
<1>4. TypeOK'
  <2>1. store' \in [Runs -> Record]
    BY <1>3 DEF Restart
  <2>2. agent' \in [Runs -> [Roles -> AgentPhases]]
    BY <1>1 DEF NoTask, AgentPhases
  <2>3. up' \in BOOLEAN
    BY <1>1
  <2> QED BY <1>1, <2>1, <2>2, <2>3 DEF TypeOK, Phases
<1>5. (up => \A r \in Runs : Matching(store[r], phase[r], agent[r]))'
  BY <1>1, NoTaskMatches
<1>6. ASSUME faults' = 0, NEW r \in Runs
      PROVE  Tidy(store[r], phase[r], agent[r], up)'
  <2>1. \A a \in Roles : store'[r].output[a] # "running"
    <3>1. CASE store[r].status = "running"
      BY <1>3, <3>1
    <3>2. CASE store[r].status \in Terminal
      BY <1>1, <1>3, <1>6, <3>2 DEF IInv, Tidy, Terminal
    <3>3. CASE store[r].status \in {"absent", "queued"}
      BY <1>1, <1>3, <3>3 DEF Sound, Heard
    <3> QED BY <1>1, <3>1, <3>2, <3>3 DEF Record, RunStatuses, Terminal
  <2> QED BY <1>3, <2>1 DEF Tidy
<1>7. (\A r \in Runs : Sound(store[r]))'
  BY <1>3
<1> QED BY <1>3, <1>4, <1>5, <1>6, <1>7 DEF IInv, Kept

\* A recovery that is cut short has closed some runs, and a prefix of one.
LEMMA RestartCutShortKeeps == ASSUME IInv, RestartCutShort PROVE Kept
<1>1. /\ TypeOK /\ store \in [Runs -> Record] /\ \A r \in Runs : Sound(store[r])
      /\ UNCHANGED <<waiting, phase, agent, up, dispatches, faults>> /\ ~up /\ stops' = stops + 1
  BY DEF IInv, TypeOK, RestartCutShort, tasks
<1>2. PICK done \in SUBSET Interrupted, r \in Interrupted : \E s \in RecoveredPartly(store[r]) :
          store' = [[q \in Runs |-> IF q \in done THEN Recovered(store[q]) ELSE store[q]]
                          EXCEPT ![r] = s]
  BY DEF RestartCutShort
<1>3. PICK s \in RecoveredPartly(store[r]) :
          store' = [[q \in Runs |-> IF q \in done THEN Recovered(store[q]) ELSE store[q]]
                          EXCEPT ![r] = s]
  BY <1>2
<1>4. \A q \in Runs : \/ store'[q] = store[q]
                      \/ /\ store[q].status = "running"
                         /\ store'[q] \in RecoveredPartly(store[q]) \cup {Recovered(store[q])}
  BY <1>3 DEF Interrupted
<1>5. \A q \in Runs : /\ store'[q] \in Record /\ Sound(store'[q])
                      /\ Follows(store[q], store'[q])
                      /\ \/ store'[q] = store[q]
                         \/ /\ store'[q].status \in {"running", "failed"}
                            /\ store'[q].status = "failed" =>
                                  \A a \in Roles : store'[q].output[a] # "running"
  BY <1>1, <1>4, RecoveredRecord DEF Follows
<1>6. TypeOK'
  <2>1. store' \in [Runs -> Record]
    BY <1>3, <1>5
  <2> QED BY <1>1, <2>1 DEF TypeOK
<1>7. ASSUME faults' = 0, NEW q \in Runs
      PROVE  Tidy(store[q], phase[q], agent[q], up)'
  BY <1>1, <1>5, <1>7 DEF IInv, Tidy, Terminal
<1>8. (\A q \in Runs : Sound(store[q]))'
  BY <1>5
<1> QED BY <1>1, <1>5, <1>6, <1>7, <1>8 DEF IInv, Kept
----------------------------------------------------------------------------
(* The theorems *)

LEMMA InitIInv == Init => IInv
<1> SUFFICES ASSUME Init PROVE IInv
  OBVIOUS
<1>1. /\ Absent \in Record /\ Absent.status = "absent" /\ Absent.candidate = "absent"
      /\ Absent.decision = FALSE /\ Absent.reviews = <<>>
      /\ \A a \in Roles : Absent.output[a] = "absent"
  BY DEF Absent, Record, RunStatuses, CandidateStatuses, OutputStatuses
<1>2. Sound(Absent)
  BY <1>1 DEF Sound, Grounded, Gated, Heard, Answered, Roles
<1>3. \A r \in Runs : /\ store[r] = Absent /\ phase[r] = "idle" /\ agent[r] = NoTask(r)
  BY DEF Init
<1>4. TypeOK
  <2>1. store \in [Runs -> Record] /\ agent \in [Runs -> [Roles -> AgentPhases]]
    BY <1>1 DEF Init, NoTask, AgentPhases
  <2>2. up \in BOOLEAN
    BY DEF Init
  <2> QED BY <2>1, <2>2 DEF Init, TypeOK, Phases
<1>5. \A r \in Runs : Matching(store[r], phase[r], agent[r])
  BY <1>3, NoTaskMatches
<1>6. \A r \in Runs : Tidy(store[r], phase[r], agent[r], up)
  BY <1>1, <1>3 DEF Tidy, Terminal
<1> QED BY <1>2, <1>3, <1>4, <1>5, <1>6 DEF IInv

LEMMA NextIInv == IInv /\ [Next]_vars => Kept
<1> SUFFICES ASSUME IInv, [Next]_vars PROVE Kept
  OBVIOUS
<1>1. ASSUME NEW r \in Runs, Request(r) PROVE Kept
  BY <1>1, CreateKeeps, DispatchKeeps, CancelQueuedKeeps, ReviewKeeps DEF Request
<1>2. ASSUME NEW r \in Runs, Progress(r) PROVE Kept
  <2>1. ASSUME NEW a \in Roles, Speak(r, a) \/ SpeakOfGap(r, a) \/ Answer(r, a) \/ Break(r, a)
        PROVE  Kept
    BY <2>1, SpeakKeeps, SpeakOfGapKeeps, AnswerKeeps, BreakKeeps
  <2> QED BY <1>2, <2>1, BeginKeeps, ConflictKeeps, CollectKeeps, CollectFailsKeeps,
             BeginDebateKeeps, CallChairmanKeeps, FinishKeeps, FinishFailsKeeps,
             CancelSiblingsKeeps, UnwindKeeps DEF Progress
<1>3. CASE UNCHANGED vars
  <2>1. waiting' \in [Runs -> Nat] /\ dispatches' \in [Runs -> Nat]
    BY <1>3 DEF vars, IInv, TypeOK
  <2> QED BY <1>3, <2>1, OnlyWaits DEF vars, budget
<1> QED BY <1>1, <1>2, <1>3, CrashKeeps, ShutdownKeeps, RestartKeeps, RestartCutShortKeeps DEF Next

\* The inductive invariant holds throughout, stops, recoveries and refused writes included.
THEOREM InvariantHolds == Spec => []IInv
<1>1. IInv /\ [Next]_vars => IInv'
  BY NextIInv DEF Kept
<1> QED BY InitIInv, <1>1, PTL DEF Spec

\* Every record, task and counter keeps its type, whatever the stops and the refused
\* writes.
THEOREM TypeCorrect == Spec => []TypeOK
<1>1. IInv => TypeOK
  BY DEF IInv
<1> QED BY InvariantHolds, <1>1, PTL

\* In every state, also one that a stop in the middle of a handler or a refused write
\* leaves: no role is heard before the stage before it has answered, and a stored
\* decision rests on market data, risk output and all six answers.
THEOREM Grounding == Spec => []DecisionIsGrounded
<1>1. IInv => DecisionIsGrounded
  BY DEF IInv, Sound, Grounded, Heard, Answered, DecisionIsGrounded
<1> QED BY InvariantHolds, <1>1, PTL

\* Only a completed run with a decision has a candidate that is offered or judged, and
\* the judgement is the recorded verdict.
THEOREM HumanGating == Spec => []HumanGate
<1>1. IInv => HumanGate
  BY DEF IInv, Sound, Gated, HumanGate
<1> QED BY InvariantHolds, <1>1, PTL

\* An agent at work in a serving process works for a running run: CancelSiblings and
\* Release leave none behind.
THEOREM NoOrphanAgent == Spec => []NoAgentOutlivesRun
<1>1. IInv => NoAgentOutlivesRun
  <2> SUFFICES ASSUME IInv, up, NEW r \in Runs, NEW a \in Roles, agent[r][a] \in AtWork
               PROVE  store[r].status = "running"
    BY DEF NoAgentOutlivesRun
  <2> QED BY DEF IInv, Matching, AtWork
<1> QED BY InvariantHolds, <1>1, PTL

\* While storage refuses nothing, every stop and cut-short recovery leaves records that
\* the next recovery closes: a serving process carries each running run.
THEOREM NothingIsStranded == Spec => []NothingStranded
<1>1. IInv => NothingStranded
  BY DEF IInv, Tidy, NothingStranded, RunsAreCarried, RunningOutputs
<1> QED BY InvariantHolds, <1>1, PTL

\* What a page shows of a record.
Shown(s) ==
    CASE s.status = "absent" -> "none"
      [] s.status = "completed" -> IF s.reviews = <<>> THEN "review" ELSE s.reviews[1]
      [] OTHER -> s.status

\* A step that Follows changes what the page shows along one lead, or not at all.
LEMMA FollowsALead ==
    ASSUME NEW s \in Record, NEW t \in Record, Follows(s, t)
    PROVE  /\ Shown(t) \in Promise!Views
           /\ Shown(t) # Shown(s) => <<Shown(s), Shown(t)>> \in Promise!Leads
<1>1. s.status \in RunStatuses /\ t.status \in RunStatuses /\ t.reviews \in Seq(Verdicts)
  BY DEF Record
<1>2. t.reviews # <<>> => t.reviews[1] \in Verdicts
  BY <1>1
<1>3. Shown(t) \in Promise!Views
  BY <1>1, <1>2 DEF Shown, RunStatuses, Verdicts, Promise!Views
<1>4. CASE t.status = s.status /\ t.reviews = s.reviews
  BY <1>3, <1>4 DEF Shown
<1>5. CASE /\ s.reviews = <<>> /\ t.reviews = <<>>
           /\ <<s.status, t.status>> \in {<<"absent", "queued">>, <<"queued", "running">>,
                                     <<"queued", "cancelled">>, <<"running", "completed">>,
                                     <<"running", "failed">>}
  BY <1>3, <1>5 DEF Shown, Promise!Leads
<1>6. CASE /\ s.status = "completed" /\ t.status = "completed" /\ s.reviews = <<>>
           /\ \E ruling \in Verdicts : t.reviews = <<ruling>>
  <2>1. PICK ruling \in Verdicts : t.reviews = <<ruling>>
    BY <1>6
  <2>2. Shown(s) = "review" /\ Shown(t) = ruling
    BY <1>6, <2>1 DEF Shown
  <2> QED BY <1>3, <2>2 DEF Verdicts, Promise!Leads
<1> QED BY <1>4, <1>5, <1>6 DEF Follows

\* A run keeps the promise of RunPromise, its abstract specification: each step moves
\* what the pages show along the leads, and every recovery moves several runs so.
THEOREM RunKeepsPromise == Spec => KeepsPromise
<1>1. Init => Promise!Init
  BY DEF Init, Absent, View, Promise!Init
<1>2. IInv /\ IInv' /\ [Next]_vars => [Promise!Move]_[r \in Runs |-> View(r)]
  <2> SUFFICES ASSUME IInv, IInv', [Next]_vars PROVE Promise!Move
    OBVIOUS
  <2>1. \A r \in Runs : /\ store[r] \in Record /\ store'[r] \in Record
                        /\ Follows(store[r], store'[r])
    BY NextIInv DEF Kept, IInv, TypeOK
  <2>2. \A r \in Runs : View(r) = Shown(store[r]) /\ View(r)' = Shown(store'[r])
    BY DEF View, Shown
  <2>3. \A r \in Runs : /\ View(r)' \in Promise!Views
                        /\ View(r)' # View(r) => <<View(r), View(r)'>> \in Promise!Leads
    BY <2>1, <2>2, FollowsALead
  <2> HIDE DEF View
  <2> QED BY <2>3 DEF Promise!Move
<1> QED BY InvariantHolds, <1>1, <1>2, PTL DEF Spec, KeepsPromise, Promise!Spec

============================================================================
