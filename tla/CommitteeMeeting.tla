-------------------------- MODULE CommitteeMeeting --------------------------
(***************************************************************************)
(* The committee meetings of one completed analysis run:                   *)
(* services/committee_broker.py with the commands of main.py.              *)
(*                                                                         *)
(* Storage keeps snapshots of the meetings and the broker only ever reads  *)
(* the newest one of a session or of the run, so `saved' holds the newest  *)
(* snapshot of each session and `latest' the session saved last.  In       *)
(* memory there are meeting objects, each with a lock; one of them may be  *)
(* registered as the run's active meeting.  A session restored from its    *)
(* snapshot gets a new object, and commands keep the object they started   *)
(* with.                                                                   *)
(*                                                                         *)
(* A command is accepted by its request and executed by a task.  The task  *)
(* suspends only at the object's lock, which is first in first out, and in *)
(* the provider call: what lies between is one action.  Roles, topics and  *)
(* the turns taken over from the analysis are left out; MaxTurns counts    *)
(* the directed turns.                                                     *)
(***************************************************************************)
EXTENDS Naturals, Sequences, FiniteSets, SequencesExt

CONSTANTS
    Sessions,    \* meetings that may be started
    Commands,    \* commands that clients may send
    NoOne,       \* no session
    MaxTurns,    \* max_turns, less the turns taken over
    Patient,     \* clients read the meeting first and wait for it to end
    MaxObjects,  \* bound: meeting objects of one process
    MaxStops,    \* bound: crashes and shutdowns
    MaxFaults    \* bound: outages in which storage refuses one write or several in a row

ASSUME CommitteeMeetingAssumption ==
    /\ NoOne \notin Sessions
    /\ MaxTurns \in Nat \ {0} /\ Patient \in BOOLEAN
    /\ MaxObjects \in Nat /\ MaxStops \in Nat /\ MaxFaults \in Nat

VARIABLES
    saved,     \* the newest stored snapshot of each session
    latest,    \* the session of the run's newest stored snapshot
    output,    \* the stored output of each directed speech
    meeting,   \* the meeting objects of this process, in order of creation
    active,    \* the registered object of the run, or 0
    cached,    \* the broker's cached state of each session
    minuted,   \* the sessions whose minutes the broker has cached
    command,   \* where each command is
    tasks,     \* command tasks created and not yet started
    stops, faults

stored == <<saved, latest, output>>
memory == <<meeting, active, cached, minuted>>
budget == <<stops, faults>>
vars   == <<saved, latest, output, meeting, active, cached, minuted, command, tasks,
            stops, faults>>

OpenStatuses   == {"running", "stop_requested"}
ClosedStatuses == {"completed", "stopped"}
Kinds          == {"speak", "finish", "stop", "blank"}  \* blank: a stop whose reason is blank
Pending        == {"created", "waiting", "calling"}

Turn     == [number : Nat, speech : Commands, ok : BOOLEAN]
State    == [status : {"none"} \cup OpenStatuses \cup ClosedStatuses,
             turns : Seq(Turn), stop : BOOLEAN]
Object   == [session : Sessions, turns : Seq(Turn), stop : BOOLEAN, queue : Seq(Commands)]
Command  == [kind : Kinds, session : Sessions \cup {NoOne}, object : Nat,
             at : {"unsent", "done", "lost"} \cup Pending]

TypeOK ==
    /\ saved \in [Sessions -> State] /\ latest \in Sessions \cup {NoOne}
    /\ output \in [Commands -> {"absent", "running", "completed", "failed"}]
    /\ meeting \in Seq(Object) /\ active \in 0..Len(meeting)
    /\ cached \in [Sessions -> State] /\ minuted \in SUBSET Sessions
    /\ command \in [Commands -> Command] /\ tasks \in Seq(Commands)
    /\ stops \in Nat /\ faults \in Nat

----------------------------------------------------------------------------
(* Reading: the cache, the snapshots and the restored object *)

Unknown == [status |-> "none", turns |-> <<>>, stop |-> FALSE]

IsOpen(state)   == state.status \in OpenStatuses
IsClosed(state) == state.status \in ClosedStatuses

\* Variant: a restored object does not take the turns over.
NewObject_Empty(s, state) == [session |-> s, turns |-> <<>>, stop |-> state.stop, queue |-> <<>>]
NewObject(s, state) ==
    [session |-> s, turns |-> state.turns, stop |-> state.stop, queue |-> <<>>]

\* Variant: a restored meeting replaces the active one.
Restore_Again(s) ==
    LET snapshot == saved[s]
        revived  == IsOpen(snapshot)
    IN
    /\ revived => Len(meeting) < MaxObjects
    /\ cached' = [cached EXCEPT ![s] = snapshot]
    /\ meeting' = IF revived THEN Append(meeting, NewObject(s, snapshot)) ELSE meeting
    /\ active' = IF revived THEN Len(meeting) + 1 ELSE active
    /\ minuted' = IF IsClosed(snapshot) THEN minuted \cup {s} ELSE minuted

\* _restore_snapshot on the newest snapshot of s: the cache takes it over, an open
\* meeting becomes the active one if there is none, and minutes are cached.
Restore(s) ==
    LET snapshot == saved[s]
        revived  == IsOpen(snapshot) /\ active = 0
    IN
    /\ revived => Len(meeting) < MaxObjects
    /\ cached' = [cached EXCEPT ![s] = snapshot]
    /\ meeting' = IF revived THEN Append(meeting, NewObject(s, snapshot)) ELSE meeting
    /\ active' = IF revived THEN Len(meeting) + 1 ELSE active
    /\ minuted' = IF IsClosed(snapshot) THEN minuted \cup {s} ELSE minuted

\* get_state of s, leaving the cache and the registry as it does.
ReadState(s) ==
    IF cached[s].status = "none" /\ saved[s].status # "none"
    THEN Restore(s)
    ELSE UNCHANGED memory

\* GET /api/runs/{run}/committee: get_latest_state prefers the active object.
ReadLatest ==
    /\ active = 0 /\ latest # NoOne
    /\ Restore(latest)
    /\ UNCHANGED <<stored, command, tasks, budget>>

\* GET /api/committee/{session}
ReadSession(s) ==
    /\ saved[s].status # "none"
    /\ ReadState(s)
    /\ UNCHANGED <<stored, command, tasks, budget>>

\* GET /api/committee/{session}/minutes: get_minutes restores the newest snapshot
\* when it has no minutes, even over a cached state.
ReadMinutes(s) ==
    /\ saved[s].status # "none" /\ s \notin minuted
    /\ Restore(s)
    /\ UNCHANGED <<stored, command, tasks, budget>>

----------------------------------------------------------------------------
(* Requests *)

StateOf(object, status) ==
    [status |-> status, turns |-> object.turns, stop |-> object.stop]

\* _save_state_snapshot
Save(s, state) ==
    /\ saved' = [saved EXCEPT ![s] = state]
    /\ latest' = s
    /\ cached' = [cached EXCEPT ![s] = state]

\* What a patient client has seen before it offers to start a meeting: the newest
\* one, if any, has ended.
SeenToEnd == ~\E s \in Sessions : s = latest /\ IsOpen(saved[s])

\* start_meeting.  (When storage refuses the snapshot the registration is undone,
\* and nothing is left.)
Start(s) ==
    LET object == NewObject(s, Unknown) IN
    /\ active = 0 /\ saved[s].status = "none" /\ Len(meeting) < MaxObjects
    /\ Patient => SeenToEnd
    /\ meeting' = Append(meeting, object)
    /\ active' = Len(meeting) + 1
    /\ Save(s, StateOf(object, "running"))
    /\ UNCHANGED <<output, minuted, command, tasks, budget>>

Ending == \E c \in Commands : command[c].kind # "speak" /\ command[c].at \in Pending

\* What a patient client adds: it sends to the meeting it sees, and nothing more
\* once it has asked for the end.
Considerate(s) == active # 0 /\ meeting[active].session = s /\ ~Ending

\* POST /api/committee/{session}/commands: the session is read, the run must have
\* an active meeting, and a task is created.
Send(c, s, kind) ==
    /\ command[c].at = "unsent"
    /\ Patient => Considerate(s)
    /\ ReadState(s)
    /\ cached'[s].status # "none" /\ active' # 0
    /\ kind = "speak" => Len(cached'[s].turns) < MaxTurns
    /\ command' = [command EXCEPT ![c] =
                      [kind |-> kind, session |-> s, object |-> 0, at |-> "created"]]
    /\ tasks' = Append(tasks, c)
    /\ UNCHANGED <<stored, budget>>

----------------------------------------------------------------------------
(* Command tasks *)

At(c, place) == [command EXCEPT ![c].at = place]

\* ... with object m.
Put(c, place, m) == [command EXCEPT ![c] = [@ EXCEPT !.at = place, !.object = m]]

\* c leaves the lock of object m, at whose head it is in `objects'.
Leave(objects, m) == [objects EXCEPT ![m].queue = Tail(@)]

SpeakStatus(object) == IF object.stop THEN "stop_requested" ELSE "running"

\* Variant: a refused speech does not pass the lock on.
Refuse_KeepsLock(c, m, objects) ==
    /\ objects[m].stop \/ Len(objects[m].turns) >= MaxTurns
    /\ meeting' = objects
    /\ command' = Put(c, "done", m)
    /\ UNCHANGED <<stored, active, cached, minuted, budget>>

\* The lock is c's: a speech is refused on a stopped or full meeting.
Refuse(c, m, objects) ==
    /\ objects[m].stop \/ Len(objects[m].turns) >= MaxTurns
    /\ meeting' = Leave(objects, m)
    /\ command' = Put(c, "done", m)
    /\ UNCHANGED <<stored, active, cached, minuted, budget>>

\* Variant: the limit is not checked.
MaySpeak_Unlimited(object) == ~object.stop
MaySpeak(object) == ~object.stop /\ Len(object.turns) < MaxTurns

\* The speech is stored as running and the provider is called.
Call(c, m, objects) ==
    /\ MaySpeak(objects[m])
    /\ output' = [output EXCEPT ![c] = "running"]
    /\ meeting' = objects
    /\ command' = Put(c, "calling", m)
    /\ UNCHANGED <<saved, latest, active, cached, minuted, budget>>

Outage == faults < MaxFaults /\ faults' = faults + 1 /\ UNCHANGED stops

\* Storage refuses the running output: the exception ends the task.
CallRefused(c, m, objects) ==
    /\ MaySpeak(objects[m]) /\ Outage
    /\ meeting' = Leave(objects, m)
    /\ command' = Put(c, "done", m)
    /\ UNCHANGED <<stored, active, cached, minuted>>

TurnOf(c, object, ok) == [number |-> Len(object.turns) + 1, speech |-> c, ok |-> ok]

Outcome(ok) == IF ok THEN "completed" ELSE "failed"

\* The end of directed_speak: the output is stored, turns are added to the object and
\* the snapshot with all its turns is stored.
Record(c, m, objects, turns, ok) ==
    LET object == [objects[m] EXCEPT !.turns = @ \o turns] IN
    /\ output' = [output EXCEPT ![c] = Outcome(ok)]
    /\ meeting' = Leave([objects EXCEPT ![m] = object], m)
    /\ Save(object.session, StateOf(object, SpeakStatus(object)))
    /\ command' = Put(c, "done", m)
    /\ UNCHANGED <<active, minuted>>

\* Storage refuses a write of the except block: the exception ends the task.  Turns
\* added before are in memory only, and the output is as it was stored last.
Unrecorded(c, m, objects, turns, outcome) ==
    LET object == [objects[m] EXCEPT !.turns = @ \o turns] IN
    /\ output' = [output EXCEPT ![c] = outcome]
    /\ meeting' = Leave([objects EXCEPT ![m] = object], m)
    /\ command' = Put(c, "done", m)
    /\ UNCHANGED <<saved, latest, active, cached, minuted>>

\* The try and the except block from the provider's answer or failure on.  A refused
\* write of the completed output ends like a failed call.  A refused snapshot makes
\* the except block add the speech again, as a failed turn with the same number.
\* A refused write in the except block itself leaves the turns added so far
\* unrecorded: its first write stores the failed output, its second the snapshot.
Answer(c, m, objects) ==
    LET turn(ok) == TurnOf(c, objects[m], ok) IN
    \/ /\ \E ok \in BOOLEAN : Record(c, m, objects, <<turn(ok)>>, ok)
       /\ UNCHANGED budget
    \/ /\ Outage
       /\ \/ Record(c, m, objects, <<turn(TRUE), turn(FALSE)>>, FALSE)
          \/ Unrecorded(c, m, objects, <<>>, "running")
          \/ \E ok \in BOOLEAN : Unrecorded(c, m, objects, <<turn(ok)>>, Outcome(ok))
          \/ Unrecorded(c, m, objects, <<turn(TRUE), turn(FALSE)>>, "failed")

\* A technical speech without chart data is answered without the provider.
SpeakOfGap(c, m, objects) == MaySpeak(objects[m]) /\ Answer(c, m, objects)

EnterSpeak(c, m, objects) ==
    \/ Refuse(c, m, objects)
    \/ Call(c, m, objects)
    \/ CallRefused(c, m, objects)
    \/ SpeakOfGap(c, m, objects)

\* _finish_meeting under the lock.  Cached minutes end it early, registry untouched.
EnterFinish(c, m, objects, caches) ==
    LET object == objects[m]
        s      == object.session
        status == IF object.stop THEN "stopped" ELSE "completed"
    IN
    /\ command' = Put(c, "done", m)
    /\ meeting' = Leave(objects, m)
    /\ \/ /\ s \in minuted
          /\ cached' = caches
          /\ UNCHANGED <<saved, latest, active, minuted, budget>>
       \/ /\ s \notin minuted
          /\ saved' = [saved EXCEPT ![s] = StateOf(object, status)]
          /\ latest' = s
          /\ cached' = [caches EXCEPT ![s] = StateOf(object, status)]
          /\ minuted' = minuted \cup {s}
          /\ active' = IF active = m THEN 0 ELSE active
          /\ UNCHANGED budget
       \/ /\ s \notin minuted /\ Outage
          /\ cached' = caches
          /\ UNCHANGED <<saved, latest, active, minuted>>
    /\ UNCHANGED output

\* What the first stretch of a command task makes of the objects and of the cache: a
\* stop marks its object and the cached state before it waits for the lock.
Marked(c) == IF command[c].kind = "stop" THEN [meeting EXCEPT ![active].stop = TRUE] ELSE meeting
Queued(c) == [Marked(c) EXCEPT ![active].queue = Append(@, c)]
Caches(c) ==
    IF command[c].kind = "stop"
    THEN [cached EXCEPT ![meeting[active].session] = StateOf(Marked(c)[active], "stop_requested")]
    ELSE cached

\* Variant: whoever ends a meeting does not wait for its lock.
StartTask_Barges ==
    LET c == Head(tasks) IN
    /\ tasks # <<>> /\ tasks' = Tail(tasks)
    /\ \/ /\ command[c].kind = "blank" \/ active = 0
          /\ command' = At(c, "done")
          /\ UNCHANGED <<stored, memory, budget>>
       \/ /\ command[c].kind \in {"finish", "stop"} /\ active # 0
          /\ EnterFinish(c, active, [Marked(c) EXCEPT ![active].queue = <<c>> \o @], Caches(c))
       \/ /\ command[c].kind = "speak" /\ active # 0 /\ meeting[active].queue = <<>>
          /\ EnterSpeak(c, active, Queued(c))
       \/ /\ command[c].kind = "speak" /\ active # 0 /\ meeting[active].queue # <<>>
          /\ meeting' = Queued(c)
          /\ command' = Put(c, "waiting", active)
          /\ UNCHANGED <<stored, active, cached, minuted, budget>>

\* The first stretch of a command task, up to the lock.  stop_meeting refuses a blank
\* reason before anything else, and every command needs an active meeting; the task
\* swallows the exception.
StartTask ==
    LET c == Head(tasks) IN
    /\ tasks # <<>> /\ tasks' = Tail(tasks)
    /\ \/ /\ command[c].kind = "blank" \/ active = 0
          /\ command' = At(c, "done")
          /\ UNCHANGED <<stored, memory, budget>>
       \/ /\ command[c].kind # "blank" /\ active # 0 /\ meeting[active].queue = <<>>
          /\ IF command[c].kind = "speak"
             THEN EnterSpeak(c, active, Queued(c))
             ELSE EnterFinish(c, active, Queued(c), Caches(c))
       \/ /\ command[c].kind # "blank" /\ active # 0 /\ meeting[active].queue # <<>>
          /\ meeting' = Queued(c)
          /\ cached' = Caches(c)
          /\ command' = Put(c, "waiting", active)
          /\ UNCHANGED <<stored, active, minuted, budget>>

\* The lock of an object passes to the next waiter.
Wake(m) ==
    LET c == Head(meeting[m].queue) IN
    /\ meeting[m].queue # <<>> /\ command[c].at = "waiting"
    /\ IF command[c].kind = "speak"
       THEN EnterSpeak(c, m, meeting)
       ELSE EnterFinish(c, m, meeting, cached)
    /\ UNCHANGED tasks

\* The provider answers or fails.
Return(c) ==
    /\ command[c].at = "calling"
    /\ Answer(c, command[c].object, meeting)
    /\ UNCHANGED tasks

----------------------------------------------------------------------------
(* Stops *)

Lost == [c \in Commands |->
            IF command[c].at \in Pending THEN [command[c] EXCEPT !.at = "lost", !.object = 0]
                                         ELSE [command[c] EXCEPT !.object = 0]]

Forget ==
    /\ meeting' = <<>> /\ active' = 0 /\ tasks' = <<>>
    /\ cached' = [s \in Sessions |-> Unknown] /\ minuted' = {}
    /\ command' = Lost

\* The process ends and another one starts; meetings are restored when they are
\* read.  A shutdown does the same: directed_speak does not catch the cancellation.
Crash ==
    /\ stops < MaxStops /\ stops' = stops + 1
    /\ Forget
    /\ UNCHANGED <<stored, faults>>

\* The process ends between the output of a speech and its snapshot.
CrashInReturn(c, ok) ==
    /\ command[c].at = "calling"
    /\ stops < MaxStops /\ stops' = stops + 1
    /\ output' = [output EXCEPT ![c] = Outcome(ok)]
    /\ Forget
    /\ UNCHANGED <<saved, latest, faults>>

----------------------------------------------------------------------------
Init ==
    /\ saved = [s \in Sessions |-> Unknown] /\ latest = NoOne
    /\ output = [c \in Commands |-> "absent"]
    /\ meeting = <<>> /\ active = 0
    /\ cached = [s \in Sessions |-> Unknown] /\ minuted = {}
    /\ command = [c \in Commands |->
                     [kind |-> "speak", session |-> NoOne, object |-> 0, at |-> "unsent"]]
    /\ tasks = <<>> /\ stops = 0 /\ faults = 0

Objects == 1..Len(meeting)

Progress ==
    \/ StartTask
    \/ \E m \in Objects : Wake(m)
    \/ \E c \in Commands : Return(c)

Next ==
    \/ ReadLatest
    \/ \E s \in Sessions : Start(s) \/ ReadSession(s) \/ ReadMinutes(s)
    \/ \E c \in Commands, s \in Sessions, kind \in Kinds : Send(c, s, kind)
    \/ Progress
    \/ Crash
    \/ \E c \in Commands, ok \in BOOLEAN : CrashInReturn(c, ok)

Spec == Init /\ [][Next]_vars

\* The event loop runs its tasks, and the provider answers or fails in time.
FairSpec == Spec /\ WF_vars(Progress)

----------------------------------------------------------------------------
(* Safety *)

\* For patient clients: one speech at a time over all objects of all meetings, so
\* the next speaker's context holds the previous answers.
OneSpeaker == Cardinality({c \in Commands : command[c].at = "calling"}) <= 1

\* While storage accepts every write, the turns of a stored meeting are numbered
\* as they follow one another, are no more than max_turns and tell what became of
\* distinct speeches.
TurnsTellSpeeches ==
    faults = 0 => \A s \in Sessions : LET turns == saved[s].turns IN
        /\ Len(turns) <= MaxTurns
        /\ \A i \in 1..Len(turns) :
              /\ turns[i].number = i
              /\ output[turns[i].speech] = Outcome(turns[i].ok)
              /\ \A j \in 1..(i - 1) : turns[j].speech # turns[i].speech

Spoken(c, s) == \E i \in 1..Len(saved[s].turns) : saved[s].turns[i].speech = c

\* For patient clients: the end waits for the speeches asked for before it.  Once a
\* meeting is closed none of its speeches is under way, and as long as storage accepts
\* every write its minutes tell each speech that was begun, unless a stop of the
\* process took it.
MinutesTellAll ==
    \A c \in Commands : LET s == command[c].session IN
        s # NoOne /\ command[c].kind = "speak" /\ IsClosed(saved[s]) =>
            /\ command[c].at \notin Pending
            /\ faults = 0 /\ command[c].at = "done" /\ output[c] # "absent" => Spoken(c, s)

\* A meeting that has its final minutes stays as it was stored.
EndedIsFinal == [][\A s \in Sessions : IsClosed(saved[s]) => saved'[s] = saved[s]]_vars

----------------------------------------------------------------------------
(* The record of meetings *)

RecordOf(state) ==
    [state |-> CASE IsOpen(state) -> "open" [] IsClosed(state) -> "closed" [] OTHER -> "none",
     turns |-> state.turns]

Stored == INSTANCE MeetingRecord WITH Turns <- Turn,
                                      record <- [s \in Sessions |-> RecordOf(saved[s])]

\* For patient clients the snapshots are a faithful record, through crashes and
\* refused writes: meetings open one at a time, grow, close and stay closed.
KeepsRecord == Stored!Spec

----------------------------------------------------------------------------
(* Liveness *)

\* With patient clients, whoever asks for the end of a meeting gets it, after the
\* speeches queued at its lock, unless the process stops and loses the command or
\* storage refuses a write. (With a speech queued behind a finish it does not hold:
\* a meeting reopened that way answers every later finish with its old minutes.)
EndIsReached ==
    \A c \in Commands, s \in Sessions :
        command[c].at = "created" /\ command[c].kind \in {"finish", "stop"}
            /\ command[c].session = s
            ~> IsClosed(saved[s]) \/ command[c].at = "lost" \/ faults > 0

=============================================================================
