---------------------- MODULE CommitteeMeeting_proofs ----------------------
(***************************************************************************)
(* Theorems about CommitteeMeeting, for every set of sessions and of       *)
(* commands, every limit of turns, and any number of objects, of stops and *)
(* of refused writes.  The first invariant holds for all clients, the      *)
(* second for patient ones.                                                *)
(***************************************************************************)
EXTENDS CommitteeMeeting, SequenceTheorems, FiniteSetTheorems, TLAPS

----------------------------------------------------------------------------
(* The inductive invariant for all clients *)

\* The queues of the objects' locks.
Lines(objects) == [m \in 1..Len(objects) |-> objects[m].queue]

\* The command at place i of the queue at m waits there, and there only; the one at
\* the head holds the lock and may be calling.
InLine(queue, commands, m, i) ==
    /\ commands[queue[i]].object = m
    /\ commands[queue[i]].at \in {"waiting", "calling"}
    /\ i > 1 => commands[queue[i]].at = "waiting"
    /\ \A j \in 1..Len(queue) : queue[j] = queue[i] => j = i

\* The command at place i of the tasks has not started, and has one task.
InTasks(begun, commands, i) ==
    /\ commands[begun[i]].at = "created"
    /\ \A j \in 1..Len(begun) : begun[j] = begun[i] => j = i

Occurs(c, queue) == \E i \in 1..Len(queue) : queue[i] = c

\* A command that is under way has its task, or its place in a queue.
Placed(lines, commands, begun, c) ==
    /\ commands[c].at = "created" => Occurs(c, begun)
    /\ commands[c].at \in {"waiting", "calling"} =>
          commands[c].object \in 1..Len(lines) /\ Occurs(c, lines[commands[c].object])

\* Each command is in one place.
Orderly(lines, commands, begun) ==
    /\ \A m \in 1..Len(lines) : \A i \in 1..Len(lines[m]) : InLine(lines[m], commands, m, i)
    /\ \A i \in 1..Len(begun) : InTasks(begun, commands, i)
    /\ \A c \in Commands : Placed(lines, commands, begun, c)

\* A command with the provider has its output stored as running, and its object has
\* room for its turn.
Called(c) ==
    command[c].at = "calling" =>
        output[c] = "running" /\ Len(meeting[command[c].object].turns) < MaxTurns

Settled == {"done", "lost"}

\* Turns are numbered, within the limit, and tell what became of distinct speeches
\* that are over.
Tells(turns, outputs, commands) ==
    /\ Len(turns) <= MaxTurns
    /\ \A i \in 1..Len(turns) :
          /\ turns[i].number = i
          /\ outputs[turns[i].speech] = Outcome(turns[i].ok)
          /\ commands[turns[i].speech].at \in Settled
          /\ \A j \in 1..(i - 1) : turns[j].speech # turns[i].speech

\* The turns of the snapshots and of the objects, while storage accepts every write.
AllTell ==
    faults = 0 =>
        /\ \A s \in Sessions : Tells(saved[s].turns, output, command)
        /\ \A m \in Objects : Tells(meeting[m].turns, output, command)

IInv ==
    /\ TypeOK
    /\ Orderly(Lines(meeting), command, tasks)
    /\ \A c \in Commands : Called(c)
    /\ AllTell

----------------------------------------------------------------------------
(* The inductive invariant for patient clients *)

\* Commands belong to the active object, and only the last one may ask for the end.
Courteous(lines, commands, begun, m) ==
    \A c \in Commands : commands[c].at \in Pending =>
        /\ m # 0
        /\ commands[c].at # "created" => commands[c].object = m
        /\ commands[c].kind # "speak" /\ commands[c].at = "created" =>
              begun[Len(begun)] = c
        /\ commands[c].kind # "speak" /\ commands[c].at # "created" =>
              begun = <<>> /\ lines[m][Len(lines[m])] = c

\* The sequence `more' begins with the turns.
Ahead(turns, more) == \E rest \in Seq(Turn) : more = turns \o rest

\* The active object is the one open meeting.  It begins with the turns stored last,
\* and has no others unless storage has refused a write.
Current ==
    /\ \A s \in Sessions : IsOpen(saved[s]) => s = latest
    /\ active # 0 =>
          /\ meeting[active].session = latest /\ IsOpen(saved[latest])
          /\ Ahead(saved[latest].turns, meeting[active].turns)
          /\ faults = 0 => meeting[active].turns = saved[latest].turns
    /\ \A m \in Objects : m # active => IsClosed(saved[meeting[m].session])
    /\ \A s \in Sessions : saved[s].status = "none" => saved[s].turns = <<>>
    /\ \A s \in minuted : IsClosed(saved[s])

\* A speech has no output before it begins and is told in its meeting once it is over;
\* a command under way belongs to the active meeting.
Accounted(c) ==
    /\ command[c].at \in {"unsent", "created", "waiting"} => output[c] = "absent"
    /\ faults = 0 /\ command[c].at = "done" /\ command[c].kind = "speak"
            /\ command[c].session # NoOne /\ output[c] # "absent"
          => Spoken(c, command[c].session)
    /\ command[c].at \in Pending => command[c].session = meeting[active].session

PatientInv ==
    /\ Courteous(Lines(meeting), command, tasks, active)
    /\ Current
    /\ \A c \in Commands : Accounted(c)
----------------------------------------------------------------------------
(* What moving one command does to the order of the commands *)

\* Only the queue at m differs, and it is `queue'.
Relined(lines, lines2, m, queue) ==
    /\ Len(lines2) = Len(lines) /\ lines2[m] = queue
    /\ \A k \in 1..Len(lines) : k # m => lines2[k] = lines[k]

\* Only c differs: it has the same kind and session, and its place is `at', with object m.
Moved(commands, commands2, c, at, m) ==
    /\ commands2[c].kind = commands[c].kind /\ commands2[c].session = commands[c].session
    /\ commands2[c].at = at /\ commands2[c].object = m
    /\ \A d \in Commands : d # c => commands2[d] = commands[d]
LEMMA SequenceFacts ==
    ASSUME NEW S, NEW seq \in Seq(S)
    PROVE  /\ Len(seq) \in Nat /\ \A i \in 1..Len(seq) : seq[i] \in S
           /\ seq # <<>> => /\ Len(seq) > 0 /\ Head(seq) = seq[1] /\ Tail(seq) \in Seq(S)
                            /\ Len(Tail(seq)) = Len(seq) - 1
                            /\ \A i \in 1..(Len(seq) - 1) : Tail(seq)[i] = seq[i + 1]
BY SMT

LEMMA ShortSequences ==
    \A S : \A e, f \in S : <<e>> \in Seq(S) /\ <<e, f>> \in Seq(S)
BY SMT

\* Who has a task is in no queue.
LEMMA TasksAreNotInLine ==
    ASSUME NEW lines, NEW commands, NEW begun, Orderly(lines, commands, begun),
           NEW i \in 1..Len(begun), NEW m \in 1..Len(lines), NEW j \in 1..Len(lines[m])
    PROVE  lines[m][j] # begun[i]
<1>1. commands[begun[i]].at = "created"
  BY DEF Orderly, InTasks
<1>2. commands[lines[m][j]].at \in {"waiting", "calling"}
  BY DEF Orderly, InLine
<1> QED BY <1>1, <1>2

\* A queue, or the tasks, to whose end c is added.
LEMMA Longer ==
    ASSUME NEW queue \in Seq(Commands), NEW c \in Commands, ~Occurs(c, queue)
    PROVE  LET longer == Append(queue, c) IN
           /\ longer \in Seq(Commands) /\ Len(longer) = Len(queue) + 1
           /\ longer[Len(longer)] = c
           /\ \A i \in 1..Len(queue) : longer[i] = queue[i]
           /\ \A i, j \in 1..Len(longer) :
                 (\A k, l \in 1..Len(queue) : queue[k] = queue[l] => k = l)
                    => (longer[i] = longer[j] => i = j)
BY SMT DEF Occurs

\* The first of the tasks joins the queue at m.
LEMMA Joins ==
    ASSUME NEW lines \in Seq(Seq(Commands)), NEW lines2 \in Seq(Seq(Commands)),
           NEW commands, NEW commands2, NEW begun \in Seq(Commands), begun # <<>>,
           NEW c, c = Head(begun),
           NEW m \in 1..Len(lines), Orderly(lines, commands, begun),
           Relined(lines, lines2, m, Append(lines[m], c)),
           Moved(commands, commands2, c, "waiting", m)
    PROVE  Orderly(lines2, commands2, Tail(begun))
<1> DEFINE rest == Tail(begun)
<1>0. /\ Len(begun) \in Nat /\ Len(begun) > 0 /\ c \in Commands /\ c = begun[1]
      /\ rest \in Seq(Commands) /\ Len(rest) = Len(begun) - 1
      /\ \A i \in 1..Len(rest) : rest[i] = begun[i + 1] /\ rest[i] \in Commands
      /\ \A i \in 1..Len(begun) : begun[i] \in Commands
  BY SequenceFacts, SMT
<1> HIDE DEF rest
<1>1. \A k \in 1..Len(lines) :
          /\ lines[k] \in Seq(Commands) /\ Len(lines[k]) \in Nat
          /\ \A i \in 1..Len(lines[k]) : lines[k][i] \in Commands
  BY SequenceFacts
<1>2. \A k \in 1..Len(lines) : ~Occurs(c, lines[k])
  <2>1. 1 \in 1..Len(begun)
    BY <1>0, SMT
  <2> QED BY <2>1, <1>0, TasksAreNotInLine DEF Occurs
<1>3. /\ Len(lines2[m]) = Len(lines[m]) + 1 /\ lines2[m][Len(lines[m]) + 1] = c
      /\ \A i \in 1..Len(lines[m]) : lines2[m][i] = lines[m][i]
      /\ Len(lines[m]) + 1 \in 1..Len(lines2[m])
      /\ \A i \in 1..Len(lines2[m]) : i \in 1..Len(lines[m]) \/ i = Len(lines[m]) + 1
  <2>1. lines[m] \in Seq(Commands) /\ Len(lines[m]) \in Nat
    BY <1>1
  <2>2. /\ Len(lines2[m]) = Len(lines[m]) + 1 /\ lines2[m][Len(lines[m]) + 1] = c
        /\ \A i \in 1..Len(lines[m]) : lines2[m][i] = lines[m][i]
    BY <2>1, <1>0, <1>2, Longer DEF Relined
  <2>3. \A n \in Nat : n + 1 \in 1..(n + 1) /\ \A i \in 1..(n + 1) : i \in 1..n \/ i = n + 1
    BY SMT
  <2> QED BY <2>1, <2>2, <2>3
<1>4. Len(lines2) = Len(lines) /\ \A k \in 1..Len(lines) : k # m => lines2[k] = lines[k]
  BY DEF Relined
<1>5. ASSUME NEW k \in 1..Len(lines2), NEW i \in 1..Len(lines2[k])
      PROVE  InLine(lines2[k], commands2, k, i)
  <2>1. CASE k # m
    <3>1. lines2[k] = lines[k] /\ k \in 1..Len(lines) /\ i \in 1..Len(lines[k])
      BY <2>1, <1>4, <1>5
    <3>2. InLine(lines[k], commands, k, i) /\ lines[k][i] # c /\ lines[k][i] \in Commands
      BY <3>1, <1>1, <1>2 DEF Orderly, Occurs
    <3> QED BY <3>1, <3>2 DEF InLine, Moved
  <2>2. CASE k = m /\ i = Len(lines[m]) + 1
    <3>1. lines2[k][i] = c /\ commands2[c].at = "waiting" /\ commands2[c].object = k
      BY <2>2, <1>3 DEF Moved
    <3>2. ASSUME NEW j \in 1..Len(lines2[k]), lines2[k][j] = c
          PROVE  j = i
      BY <3>2, <2>2, <1>2, <1>3 DEF Occurs
    <3> QED BY <3>1, <3>2 DEF InLine
  <2>3. CASE k = m /\ i # Len(lines[m]) + 1
    <3>1. i \in 1..Len(lines[m]) /\ lines2[k][i] = lines[m][i]
      BY <2>3, <1>3, <1>5
    <3>2. /\ lines[m][i] # c /\ lines[m][i] \in Commands
          /\ InLine(lines[m], commands, m, i)
      BY <3>1, <1>1, <1>2 DEF Occurs, Orderly
    <3>4. commands2[lines2[k][i]] = commands[lines[m][i]]
      BY <3>1, <3>2 DEF Moved
    <3>3. ASSUME NEW j \in 1..Len(lines2[k]), lines2[k][j] = lines2[k][i]
          PROVE  j = i
      <4>1. j # Len(lines[m]) + 1
        BY <3>2, <3>3, <2>3, <1>3
      <4>2. j \in 1..Len(lines[m]) /\ lines2[k][j] = lines[m][j]
        BY <4>1, <3>3, <2>3, <1>3
      <4> QED BY <4>2, <3>1, <3>2, <3>3 DEF InLine
    <3> QED BY <3>1, <3>2, <3>3, <3>4, <2>3 DEF InLine
  <2> QED BY <2>1, <2>2, <2>3
<1>6. ASSUME NEW i \in 1..Len(rest)
      PROVE  InTasks(rest, commands2, i)
  <2>1. i + 1 \in 1..Len(begun) /\ 1 \in 1..Len(begun) /\ i + 1 # 1
    BY <1>0, <1>6, SMT
  <2>2. InTasks(begun, commands, i + 1) /\ begun[i + 1] # c /\ begun[i + 1] \in Commands
    BY <2>1, <1>0 DEF Orderly, InTasks
  <2>3. ASSUME NEW j \in 1..Len(rest), rest[j] = rest[i]
        PROVE  j = i
    <3>1. j + 1 \in 1..Len(begun) /\ begun[j + 1] = begun[i + 1]
      BY <2>3, <1>0, SMT
    <3>2. j + 1 = i + 1
      BY <3>1, <2>2 DEF InTasks
    <3> QED BY <3>2, SMT
  <2> QED BY <2>2, <2>3, <1>0 DEF InTasks, Moved
<1>7. ASSUME NEW d \in Commands
      PROVE  Placed(lines2, commands2, rest, d)
  <2>1. CASE d = c
    <3>1. Occurs(c, lines2[m])
      BY <1>3 DEF Occurs
    <3> QED BY <2>1, <3>1, <1>4 DEF Placed, Moved
  <2>2. CASE d # c
    <3>1. commands2[d] = commands[d] /\ Placed(lines, commands, begun, d)
      BY <2>2 DEF Moved, Orderly
    <3>2. Occurs(d, begun) => Occurs(d, rest)
      <4>1. ASSUME NEW i \in 1..Len(begun), begun[i] = d
            PROVE  i - 1 \in 1..Len(rest) /\ rest[i - 1] = d
        BY <4>1, <2>2, <1>0, SMT
      <4> QED BY <4>1 DEF Occurs
    <3>3. \A k \in 1..Len(lines) : Occurs(d, lines[k]) => Occurs(d, lines2[k])
      <4>1. ASSUME NEW k \in 1..Len(lines), NEW i \in 1..Len(lines[k]), lines[k][i] = d
            PROVE  i \in 1..Len(lines2[k]) /\ lines2[k][i] = d
        <5>1. CASE k # m
          BY <4>1, <5>1, <1>4
        <5>2. CASE k = m
          BY <4>1, <5>2, <1>1, <1>3, SMT
        <5> QED BY <5>1, <5>2
      <4> QED BY <4>1 DEF Occurs
    <3> QED BY <3>1, <3>2, <3>3, <1>4 DEF Placed
  <2> QED BY <2>1, <2>2
<1>8. Orderly(lines2, commands2, rest)
  BY <1>5, <1>6, <1>7 DEF Orderly
<1> QED BY <1>8 DEF rest
\* A sequence without its first element.
LEMMA Shorter ==
    ASSUME NEW queue \in Seq(Commands), queue # <<>>, NEW d, d # Head(queue), Occurs(d, queue)
    PROVE  Occurs(d, Tail(queue))
<1>1. PICK i \in 1..Len(queue) : queue[i] = d
  BY DEF Occurs
<1>2. /\ Len(queue) \in Nat /\ Head(queue) = queue[1] /\ Len(Tail(queue)) = Len(queue) - 1
      /\ \A j \in 1..(Len(queue) - 1) : Tail(queue)[j] = queue[j + 1]
  BY SequenceFacts
<1>3. i - 1 \in 1..Len(Tail(queue)) /\ Tail(queue)[i - 1] = d
  BY <1>1, <1>2, SMT
<1> QED BY <1>3 DEF Occurs

\* The head of the queue at m leaves it.
LEMMA Leaves ==
    ASSUME NEW lines \in Seq(Seq(Commands)), NEW lines2 \in Seq(Seq(Commands)),
           NEW commands, NEW commands2, NEW begun \in Seq(Commands),
           NEW m \in 1..Len(lines), Orderly(lines, commands, begun),
           lines[m] # <<>>, NEW c, Head(lines[m]) = c,
           Relined(lines, lines2, m, Tail(lines[m])), Moved(commands, commands2, c, "done", m)
    PROVE  Orderly(lines2, commands2, begun)
<1>1. \A k \in 1..Len(lines) :
          /\ lines[k] \in Seq(Commands)
          /\ \A i \in 1..Len(lines[k]) : lines[k][i] \in Commands
  BY SequenceFacts
<1>2. Len(lines2) = Len(lines) /\ \A k \in 1..Len(lines) : k # m => lines2[k] = lines[k]
  BY DEF Relined
<1>3. /\ 1 \in 1..Len(lines[m]) /\ lines[m][1] = c
      /\ \A i \in 1..Len(lines2[m]) :
            i + 1 \in 1..Len(lines[m]) /\ i + 1 > 1 /\ lines2[m][i] = lines[m][i + 1]
      /\ \A i, j \in 1..Len(lines2[m]) : i + 1 = j + 1 => i = j
  <2>1. lines[m] \in Seq(Commands) /\ lines2[m] = Tail(lines[m])
    BY <1>1 DEF Relined
  <2>2. /\ Len(lines[m]) \in Nat /\ Len(lines[m]) > 0 /\ lines[m][1] = c
        /\ Len(lines2[m]) = Len(lines[m]) - 1
        /\ \A i \in 1..(Len(lines[m]) - 1) : lines2[m][i] = lines[m][i + 1]
    BY <2>1, SequenceFacts
  <2> QED BY <2>2, SMT
<1>4. InLine(lines[m], commands, m, 1)
  BY <1>3 DEF Orderly
<1>5. c \in Commands /\ commands[c].object = m /\ commands[c].at \in {"waiting", "calling"}
  BY <1>1, <1>3, <1>4 DEF InLine
<1>6. ASSUME NEW k \in 1..Len(lines2), NEW i \in 1..Len(lines2[k])
      PROVE  InLine(lines2[k], commands2, k, i)
  <2>1. CASE k # m
    <3>1. lines2[k] = lines[k] /\ InLine(lines[k], commands, k, i) /\ lines[k][i] \in Commands
      BY <2>1, <1>1, <1>2, <1>6 DEF Orderly
    <3>2. lines[k][i] # c
      BY <3>1, <2>1, <1>5 DEF InLine
    <3> QED BY <3>1, <3>2 DEF InLine, Moved
  <2>2. CASE k = m
    <3>1. i + 1 \in 1..Len(lines[m]) /\ i + 1 > 1 /\ lines2[m][i] = lines[m][i + 1]
      BY <2>2, <1>3, <1>6
    <3>2. InLine(lines[m], commands, m, i + 1) /\ lines[m][i + 1] \in Commands
      BY <3>1, <1>1 DEF Orderly
    <3>3. lines[m][i + 1] # c
      <4>1. i + 1 # 1
        BY <2>2, <1>6, SMT
      <4> QED BY <4>1, <3>1, <3>2, <1>3 DEF InLine
    <3>4. commands2[lines2[m][i]].at = "waiting" /\ commands2[lines2[m][i]].object = m
      BY <3>1, <3>2, <3>3 DEF InLine, Moved
    <3>5. ASSUME NEW j \in 1..Len(lines2[m]), lines2[m][j] = lines2[m][i]
          PROVE  j = i
      <4>1. j + 1 = i + 1
        BY <3>1, <3>2, <3>5, <1>3 DEF InLine
      <4> QED BY <4>1, <2>2, <1>3, <1>6, <3>5
    <3> QED BY <3>4, <3>5, <2>2 DEF InLine
  <2> QED BY <2>1, <2>2
<1>7. ASSUME NEW i \in 1..Len(begun)
      PROVE  InTasks(begun, commands2, i)
  <2>1. begun[i] \in Commands /\ InTasks(begun, commands, i)
    BY SequenceFacts DEF Orderly
  <2>2. begun[i] # c
    BY <2>1, <1>5 DEF InTasks
  <2> QED BY <2>1, <2>2 DEF InTasks, Moved
<1>8. ASSUME NEW d \in Commands
      PROVE  Placed(lines2, commands2, begun, d)
  <2>1. CASE d = c
    BY <2>1 DEF Placed, Moved
  <2>2. CASE d # c
    <3>1. commands2[d] = commands[d] /\ Placed(lines, commands, begun, d)
      BY <2>2 DEF Moved, Orderly
    <3>2. \A k \in 1..Len(lines) : Occurs(d, lines[k]) => Occurs(d, lines2[k])
      BY <2>2, <1>1, <1>2, Shorter DEF Relined
    <3> QED BY <3>1, <3>2, <1>2 DEF Placed
  <2> QED BY <2>1, <2>2
<1> QED BY <1>6, <1>7, <1>8 DEF Orderly

\* The head of the queue at m calls the provider.
LEMMA Calls ==
    ASSUME NEW lines \in Seq(Seq(Commands)), NEW commands, NEW commands2,
           NEW begun \in Seq(Commands), NEW m \in 1..Len(lines), Orderly(lines, commands, begun),
           lines[m] # <<>>, NEW c, Head(lines[m]) = c, Moved(commands, commands2, c, "calling", m)
    PROVE  Orderly(lines, commands2, begun)
<1>1. /\ lines[m] \in Seq(Commands) /\ 1 \in 1..Len(lines[m]) /\ lines[m][1] = c
      /\ \A i \in 1..Len(lines[m]) : i > 1 => i # 1
  <2>1. lines[m] \in Seq(Commands)
    BY SequenceFacts
  <2>2. Len(lines[m]) \in Nat /\ Len(lines[m]) > 0 /\ lines[m][1] = c
    BY <2>1, SequenceFacts
  <2> QED BY <2>1, <2>2, SMT
<1>2. InLine(lines[m], commands, m, 1)
  BY <1>1 DEF Orderly
<1>3. c \in Commands /\ commands[c].object = m /\ commands[c].at \in {"waiting", "calling"}
  BY <1>1, <1>2, SequenceFacts DEF InLine
<1>4. ASSUME NEW k \in 1..Len(lines), NEW i \in 1..Len(lines[k])
      PROVE  InLine(lines[k], commands2, k, i)
  <2>1. InLine(lines[k], commands, k, i) /\ lines[k][i] \in Commands
    BY SequenceFacts DEF Orderly
  <2>2. CASE lines[k][i] # c
    BY <2>1, <2>2 DEF InLine, Moved
  <2>3. CASE lines[k][i] = c
    <3>1. k = m
      BY <2>1, <2>3, <1>3 DEF InLine
    <3>2. i = 1
      BY <3>1, <2>3, <1>1, <1>2, <1>4 DEF InLine
    <3> QED BY <2>1, <2>3, <3>1, <3>2 DEF InLine, Moved
  <2> QED BY <2>2, <2>3
<1>5. ASSUME NEW i \in 1..Len(begun)
      PROVE  InTasks(begun, commands2, i)
  <2>1. begun[i] \in Commands /\ InTasks(begun, commands, i)
    BY SequenceFacts DEF Orderly
  <2>2. begun[i] # c
    BY <2>1, <1>3 DEF InTasks
  <2> QED BY <2>1, <2>2 DEF InTasks, Moved
<1>6. ASSUME NEW d \in Commands
      PROVE  Placed(lines, commands2, begun, d)
  BY <1>3 DEF Placed, Moved, Orderly
<1> QED BY <1>4, <1>5, <1>6 DEF Orderly

\* A command that was not sent before gets its task.
LEMMA Arrives ==
    ASSUME NEW lines \in Seq(Seq(Commands)), NEW commands, NEW commands2,
           NEW begun \in Seq(Commands), NEW c \in Commands, Orderly(lines, commands, begun),
           commands[c].at = "unsent", commands2[c].at = "created",
           \A d \in Commands : d # c => commands2[d] = commands[d]
    PROVE  Orderly(lines, commands2, Append(begun, c))
<1> DEFINE more == Append(begun, c)
<1>1. \A i \in 1..Len(begun) : InTasks(begun, commands, i) /\ begun[i] \in Commands /\ begun[i] # c
  BY SequenceFacts DEF Orderly, InTasks
<1>2. /\ more[Len(begun) + 1] = c /\ \A i \in 1..Len(begun) : more[i] = begun[i]
      /\ Len(begun) + 1 \in 1..Len(more)
      /\ \A i \in 1..Len(begun) : i \in 1..Len(more)
      /\ \A i \in 1..Len(more) : i \in 1..Len(begun) \/ i = Len(begun) + 1
  <2>1. Len(begun) \in Nat
    BY SequenceFacts
  <2>2. ~Occurs(c, begun)
    BY <1>1 DEF Occurs
  <2>3. /\ Len(more) = Len(begun) + 1 /\ more[Len(begun) + 1] = c
        /\ \A i \in 1..Len(begun) : more[i] = begun[i]
    BY <2>2, Longer
  <2> HIDE DEF more
  <2> QED BY <2>1, <2>3, SMT
<1> HIDE DEF more
<1>3. ASSUME NEW i \in 1..Len(more)
      PROVE  InTasks(more, commands2, i)
  <2>1. CASE i = Len(begun) + 1
    <3>1. ASSUME NEW j \in 1..Len(more), more[j] = more[i]
          PROVE  j = i
      BY <3>1, <2>1, <1>1, <1>2
    <3> QED BY <3>1, <2>1, <1>2 DEF InTasks
  <2>2. CASE i \in 1..Len(begun)
    <3>1. ASSUME NEW j \in 1..Len(more), more[j] = more[i]
          PROVE  j = i
      BY <3>1, <2>2, <1>1, <1>2 DEF InTasks
    <3>2. commands2[more[i]].at = "created"
      BY <2>2, <1>1, <1>2 DEF InTasks
    <3> QED BY <3>1, <3>2 DEF InTasks
  <2> QED BY <2>1, <2>2, <1>2
<1>4. ASSUME NEW k \in 1..Len(lines), NEW i \in 1..Len(lines[k])
      PROVE  InLine(lines[k], commands2, k, i)
  <2>1. InLine(lines[k], commands, k, i) /\ lines[k][i] \in Commands
    BY SequenceFacts DEF Orderly
  <2>2. lines[k][i] # c
    BY <2>1 DEF InLine
  <2> QED BY <2>1, <2>2 DEF InLine
<1>5. ASSUME NEW d \in Commands
      PROVE  Placed(lines, commands2, more, d)
  <2>1. Placed(lines, commands, begun, d)
    BY DEF Orderly
  <2>2. Occurs(d, begun) \/ d = c => Occurs(d, more)
    BY <1>2 DEF Occurs
  <2> QED BY <2>1, <2>2 DEF Placed
<1>6. Orderly(lines, commands2, more)
  BY <1>3, <1>4, <1>5 DEF Orderly
<1> QED BY <1>6 DEF more

\* The first of the tasks ends without joining a queue.
LEMMA GivesUp ==
    ASSUME NEW lines \in Seq(Seq(Commands)), NEW commands, NEW commands2,
           NEW begun \in Seq(Commands), begun # <<>>, Orderly(lines, commands, begun),
           NEW c, c = Head(begun), commands2[c].at = "done",
           \A d \in Commands : d # c => commands2[d] = commands[d]
    PROVE  Orderly(lines, commands2, Tail(begun))
<1> DEFINE rest == Tail(begun)
<1>1. /\ 1 \in 1..Len(begun) /\ c = begun[1] /\ c \in Commands
      /\ \A i \in 1..Len(rest) : i + 1 \in 1..Len(begun) /\ i + 1 # 1 /\ rest[i] = begun[i + 1]
      /\ \A i, j \in 1..Len(rest) : i + 1 = j + 1 => i = j
  <2>1. /\ Len(begun) \in Nat /\ Len(begun) > 0 /\ c = begun[1] /\ c \in Commands
        /\ Len(rest) = Len(begun) - 1
        /\ \A i \in 1..(Len(begun) - 1) : rest[i] = begun[i + 1]
    BY SequenceFacts, SMT
  <2> HIDE DEF rest
  <2> QED BY <2>1, SMT
<1>2. \A i \in 1..Len(begun) : InTasks(begun, commands, i) /\ begun[i] \in Commands
  BY SequenceFacts DEF Orderly
<1>3. ASSUME NEW i \in 1..Len(rest)
      PROVE  InTasks(rest, commands2, i)
  <2>1. /\ rest[i] = begun[i + 1] /\ InTasks(begun, commands, i + 1)
        /\ begun[i + 1] # c /\ begun[i + 1] \in Commands
    BY <1>1, <1>2, <1>3 DEF InTasks
  <2>2. ASSUME NEW j \in 1..Len(rest), rest[j] = rest[i]
        PROVE  j = i
    BY <2>1, <2>2, <1>1, <1>3 DEF InTasks
  <2> QED BY <2>1, <2>2 DEF InTasks
<1>4. ASSUME NEW k \in 1..Len(lines), NEW i \in 1..Len(lines[k])
      PROVE  InLine(lines[k], commands2, k, i)
  <2>1. InLine(lines[k], commands, k, i) /\ lines[k][i] \in Commands
    BY SequenceFacts DEF Orderly
  <2>2. lines[k][i] # c
    BY <1>1, TasksAreNotInLine
  <2> QED BY <2>1, <2>2 DEF InLine
<1>5. ASSUME NEW d \in Commands
      PROVE  Placed(lines, commands2, rest, d)
  <2>1. CASE d = c
    BY <2>1 DEF Placed
  <2>2. CASE d # c
    BY <2>2, Shorter DEF Placed, Orderly
  <2> QED BY <2>1, <2>2
<1> QED BY <1>3, <1>4, <1>5 DEF Orderly

\* A new object has an empty queue.
LEMMA Opens ==
    ASSUME NEW lines \in Seq(Seq(Commands)), NEW commands, NEW begun,
           Orderly(lines, commands, begun)
    PROVE  Orderly(Append(lines, <<>>), commands, begun)
<1>1. /\ Len(lines) \in Nat
      /\ \A m \in 1..Len(lines) : m \in 1..Len(Append(lines, <<>>))
                                  /\ Append(lines, <<>>)[m] = lines[m]
      /\ \A m \in 1..Len(Append(lines, <<>>)) :
            m \in 1..Len(lines) \/ Append(lines, <<>>)[m] = <<>>
  BY SMT
<1>2. \A i \in 1..Len(<<>>) : FALSE
  BY SMT
<1> QED BY <1>1, <1>2 DEF Orderly, Placed
----------------------------------------------------------------------------
(* ... and to their courtesy, the active object being m *)

LEMMA JoinsCourteously ==
    ASSUME NEW lines \in Seq(Seq(Commands)), NEW lines2 \in Seq(Seq(Commands)),
           NEW commands, NEW commands2, NEW begun \in Seq(Commands), begun # <<>>,
           NEW c, c = Head(begun),
           NEW m \in 1..Len(lines), Orderly(lines, commands, begun),
           Courteous(lines, commands, begun, m),
           Relined(lines, lines2, m, Append(lines[m], c)),
           Moved(commands, commands2, c, "waiting", m)
    PROVE  Courteous(lines2, commands2, Tail(begun), m)
<1> DEFINE rest == Tail(begun)
<1>1. /\ 1 \in 1..Len(begun) /\ c = begun[1] /\ c \in Commands /\ m # 0
      /\ Len(begun) \in 1..Len(begun)
      /\ begun[Len(begun)] # c => rest[Len(rest)] = begun[Len(begun)]
      /\ rest # <<>> => Len(begun) # 1
  <2>1. /\ Len(begun) \in Nat /\ Len(begun) > 0 /\ c = begun[1] /\ c \in Commands
        /\ rest \in Seq(Commands) /\ Len(rest) = Len(begun) - 1
        /\ \A i \in 1..(Len(begun) - 1) : rest[i] = begun[i + 1]
    BY SequenceFacts, SMT
  <2>2. rest # <<>> => Len(rest) > 0
    BY <2>1, SequenceFacts
  <2>3. m # 0
    BY SMT
  <2> HIDE DEF rest
  <2>4. begun[Len(begun)] # c => rest[Len(rest)] = begun[Len(begun)]
    <3>1. ASSUME begun[Len(begun)] # c
          PROVE  Len(rest) \in 1..(Len(begun) - 1) /\ Len(rest) + 1 = Len(begun)
      BY <3>1, <2>1, SMT
    <3> QED BY <3>1, <2>1
  <2> QED BY <2>1, <2>2, <2>3, <2>4, SMT
<1>2. InTasks(begun, commands, 1) /\ commands[c].at = "created"
  BY <1>1 DEF Orderly, InTasks
<1>3. lines2[m][Len(lines2[m])] = c
  <2>1. lines[m] \in Seq(Commands)
    BY SequenceFacts
  <2> QED BY <2>1, <1>1, AppendProperties DEF Relined
<1> HIDE DEF rest
<1>4. ASSUME NEW d \in Commands, commands2[d].at \in Pending
      PROVE  /\ m # 0
             /\ commands2[d].at # "created" => commands2[d].object = m
             /\ commands2[d].kind # "speak" /\ commands2[d].at = "created" =>
                   rest[Len(rest)] = d
             /\ commands2[d].kind # "speak" /\ commands2[d].at # "created" =>
                   rest = <<>> /\ lines2[m][Len(lines2[m])] = d
  <2>1. CASE d = c
    <3>1. ASSUME commands[c].kind # "speak"
          PROVE  rest = <<>>
      <4>1. begun[Len(begun)] = c
        BY <3>1, <1>1, <1>2 DEF Courteous, Pending
      <4>2. Len(begun) = 1
        BY <4>1, <1>1, <1>2 DEF InTasks
      <4> QED BY <4>2, <1>1
    <3> QED BY <2>1, <3>1, <1>1, <1>3 DEF Moved
  <2>2. CASE d # c
    <3>1. commands2[d] = commands[d] /\ commands[d].at \in Pending
      BY <2>2, <1>4 DEF Moved
    <3>2. commands[d].kind # "speak" => commands[d].at = "created"
      BY <3>1 DEF Courteous
    <3> QED BY <2>2, <3>1, <3>2, <1>1 DEF Courteous
  <2> QED BY <2>1, <2>2
<1>5. Courteous(lines2, commands2, rest, m)
  BY <1>4 DEF Courteous
<1> QED BY <1>5 DEF rest

\* The first of the tasks ends without joining a queue.
LEMMA GivesUpCourteously ==
    ASSUME NEW lines, NEW commands, NEW commands2, NEW begun \in Seq(Commands), begun # <<>>,
           NEW c, c = Head(begun), NEW m, Courteous(lines, commands, begun, m),
           commands2[c].at \notin Pending, \A d \in Commands : d # c => commands2[d] = commands[d]
    PROVE  Courteous(lines, commands2, Tail(begun), m)
<1> DEFINE rest == Tail(begun)
<1>1. begun[Len(begun)] # c => rest[Len(rest)] = begun[Len(begun)]
  <2>1. /\ Len(begun) \in Nat /\ Len(begun) > 0 /\ c = begun[1] /\ Len(rest) = Len(begun) - 1
        /\ \A i \in 1..(Len(begun) - 1) : rest[i] = begun[i + 1]
    BY SequenceFacts, SMT
  <2> HIDE DEF rest
  <2>2. ASSUME begun[Len(begun)] # c
        PROVE  Len(rest) \in 1..(Len(begun) - 1) /\ Len(rest) + 1 = Len(begun)
    <3>1. Len(begun) # 1
      BY <2>1, <2>2
    <3> QED BY <2>1, <3>1, SMT
  <2> QED BY <2>1, <2>2
<1> HIDE DEF rest
<1>2. ASSUME NEW d \in Commands, commands2[d].at \in Pending
      PROVE  /\ m # 0
             /\ commands2[d].at # "created" => commands2[d].object = m
             /\ commands2[d].kind # "speak" /\ commands2[d].at = "created" => rest[Len(rest)] = d
             /\ commands2[d].kind # "speak" /\ commands2[d].at # "created" =>
                   rest = <<>> /\ lines[m][Len(lines[m])] = d
  <2>1. d # c /\ commands2[d] = commands[d]
    BY <1>2
  <2> QED BY <2>1, <1>1, <1>2 DEF Courteous
<1>3. Courteous(lines, commands2, rest, m)
  BY <1>2 DEF Courteous
<1> QED BY <1>3 DEF rest

\* When the one who asks for the end leaves, nobody is left.
LEMMA LeavesCourteously ==
    ASSUME NEW lines \in Seq(Seq(Commands)), NEW lines2 \in Seq(Seq(Commands)),
           NEW commands, NEW commands2, NEW begun \in Seq(Commands),
           NEW m \in 1..Len(lines), Orderly(lines, commands, begun),
           Courteous(lines, commands, begun, m),
           lines[m] # <<>>, NEW c, Head(lines[m]) = c,
           Relined(lines, lines2, m, Tail(lines[m])), Moved(commands, commands2, c, "done", m)
    PROVE  /\ Courteous(lines2, commands2, begun, m)
           /\ commands[c].kind # "speak" => Courteous(lines2, commands2, begun, 0)
<1> DEFINE q == lines[m]
<1>1. /\ 1 \in 1..Len(q) /\ q[1] = c /\ m # 0 /\ Len(q) \in 1..Len(q)
      /\ q[Len(q)] # c => lines2[m][Len(lines2[m])] = q[Len(q)]
  <2>1. q \in Seq(Commands) /\ lines2[m] = Tail(q)
    BY SequenceFacts DEF Relined
  <2>2. /\ Len(q) \in Nat /\ Len(q) > 0 /\ q[1] = c
        /\ Len(lines2[m]) = Len(q) - 1
        /\ \A i \in 1..(Len(q) - 1) : lines2[m][i] = q[i + 1]
    BY <2>1, SequenceFacts
  <2>3. q[Len(q)] # c => lines2[m][Len(lines2[m])] = q[Len(q)]
    <3>1. ASSUME q[Len(q)] # c
          PROVE  Len(lines2[m]) \in 1..(Len(q) - 1) /\ Len(lines2[m]) + 1 = Len(q)
      BY <3>1, <2>2, SMT
    <3> QED BY <3>1, <2>2
  <2>4. m # 0
    BY SMT
  <2> QED BY <2>2, <2>3, <2>4, SMT
<1>2. /\ InLine(q, commands, m, 1) /\ c \in Commands
      /\ commands[c].at \in Pending /\ commands[c].at # "created"
  <2>1. InLine(q, commands, m, 1)
    BY <1>1 DEF Orderly
  <2>2. c \in Commands
    BY <1>1, SequenceFacts
  <2>3. commands[c].at \in {"waiting", "calling"}
    BY <2>1, <1>1 DEF InLine
  <2> QED BY <2>1, <2>2, <2>3 DEF Pending
<1>3. Courteous(lines2, commands2, begun, m)
  <2>1. ASSUME NEW d \in Commands, commands2[d].at \in Pending
        PROVE  d # c /\ commands2[d] = commands[d]
    BY <2>1 DEF Moved, Pending
  <2> QED BY <2>1, <1>1 DEF Courteous
<1>4. ASSUME commands[c].kind # "speak", NEW d \in Commands, commands2[d].at \in Pending
      PROVE  FALSE
  <2>1. begun = <<>> /\ q[Len(q)] = c
    BY <1>2, <1>4 DEF Courteous
  <2>2. Len(q) = 1
    BY <2>1, <1>1, <1>2 DEF InLine
  <2>3. d # c /\ commands2[d] = commands[d]
    BY <1>4 DEF Moved, Pending
  <2>4. commands[d].at # "created"
    <3>1. ~\E i \in 1..Len(begun) : begun[i] = d
      BY <2>1, SMT
    <3> QED BY <3>1 DEF Orderly, Placed, Occurs
  <2>5. commands[d].object = m /\ commands[d].at \in {"waiting", "calling"}
    BY <2>3, <2>4, <1>4 DEF Courteous, Pending
  <2>6. PICK i \in 1..Len(q) : q[i] = d
    BY <2>5 DEF Orderly, Placed, Occurs
  <2>7. i = 1
    BY <2>2, <2>6, SMT
  <2> QED BY <2>3, <2>6, <2>7, <1>1
<1>5. commands[c].kind # "speak" => Courteous(lines2, commands2, begun, 0)
  BY <1>4 DEF Courteous
<1> QED BY <1>3, <1>5

LEMMA ArrivesCourteously ==
    ASSUME NEW lines, NEW commands, NEW commands2,
           NEW begun \in Seq(Commands), NEW c \in Commands, NEW m, m # 0,
           Courteous(lines, commands, begun, m),
           commands2[c].at = "created",
           \A d \in Commands : d # c => commands2[d] = commands[d],
           \A d \in Commands : commands[d].at \in Pending => commands[d].kind = "speak"
    PROVE  Courteous(lines, commands2, Append(begun, c), m)
<1>1. Append(begun, c)[Len(Append(begun, c))] = c
  BY AppendProperties
<1>2. ASSUME NEW d \in Commands, commands2[d].at \in Pending
      PROVE  /\ d = c => commands2[d].at = "created"
             /\ d # c => /\ commands2[d].kind = "speak"
                         /\ commands2[d].at # "created" => commands2[d].object = m
  <2>1. CASE d = c
    BY <2>1
  <2>2. CASE d # c
    <3>1. commands2[d] = commands[d] /\ commands[d].at \in Pending
      BY <2>2, <1>2
    <3>2. commands[d].at # "created" => commands[d].object = m
      BY <3>1 DEF Courteous
    <3> QED BY <2>2, <3>1, <3>2
  <2> QED BY <2>1, <2>2
<1> QED BY <1>1, <1>2 DEF Courteous
----------------------------------------------------------------------------
(* Objects, places and turns *)

LEMMA LinesFacts ==
    ASSUME NEW objects \in Seq(Object)
    PROVE  /\ Lines(objects) \in Seq(Seq(Commands)) /\ Len(Lines(objects)) = Len(objects)
           /\ Len(objects) \in Nat
           /\ \A m \in 1..Len(objects) : /\ Lines(objects)[m] = objects[m].queue
                                         /\ objects[m] \in Object
<1>1. Len(objects) \in Nat /\ \A m \in 1..Len(objects) : objects[m] \in Object
  BY SequenceFacts
<1>2. \A m \in 1..Len(objects) : objects[m].queue \in Seq(Commands)
  BY <1>1 DEF Object
<1> QED BY <1>1, <1>2, SMT DEF Lines

\* One object is replaced.
LEMMA ReplaceFacts ==
    ASSUME NEW objects \in Seq(Object), NEW m \in 1..Len(objects), NEW object \in Object,
           NEW replaced, replaced = [objects EXCEPT ![m] = object]
    PROVE  /\ replaced \in Seq(Object) /\ Len(replaced) = Len(objects)
           /\ replaced[m] = object
           /\ \A k \in 1..Len(objects) : k # m => replaced[k] = objects[k]
           /\ Relined(Lines(objects), Lines(replaced), m, object.queue)
<1>1. /\ replaced \in Seq(Object) /\ Len(replaced) = Len(objects)
      /\ replaced[m] = object
      /\ \A k \in 1..Len(objects) : k # m => replaced[k] = objects[k]
  BY ExceptSeq
<1>2. /\ Len(Lines(objects)) = Len(objects) /\ Len(Lines(replaced)) = Len(objects)
      /\ \A k \in 1..Len(objects) : /\ Lines(objects)[k] = objects[k].queue
                                    /\ Lines(replaced)[k] = replaced[k].queue
  <2>1. Len(Lines(objects)) = Len(objects)
        /\ \A k \in 1..Len(objects) : Lines(objects)[k] = objects[k].queue
    BY LinesFacts
  <2>2. Len(Lines(replaced)) = Len(replaced)
        /\ \A k \in 1..Len(replaced) : Lines(replaced)[k] = replaced[k].queue
    BY <1>1, LinesFacts
  <2> QED BY <2>1, <2>2, <1>1
<1>3. \A k \in 1..Len(objects) : k # m => Lines(replaced)[k] = Lines(objects)[k]
  <2>1. ASSUME NEW k \in 1..Len(objects), k # m
        PROVE  Lines(replaced)[k] = Lines(objects)[k]
    <3>1. replaced[k] = objects[k]
      BY <2>1, <1>1
    <3> QED BY <3>1, <2>1, <1>2
  <2> QED BY <2>1
<1>4. Lines(replaced)[m] = object.queue
  BY <1>1, <1>2
<1> QED BY <1>1, <1>2, <1>3, <1>4 DEF Relined

LEMMA LeaveFacts ==
    ASSUME NEW objects \in Seq(Object), NEW m \in 1..Len(objects), objects[m].queue # <<>>
    PROVE  /\ Leave(objects, m) \in Seq(Object) /\ Len(Leave(objects, m)) = Len(objects)
           /\ \A k \in 1..Len(objects) :
                 /\ Leave(objects, m)[k].session = objects[k].session
                 /\ Leave(objects, m)[k].turns = objects[k].turns
                 /\ Leave(objects, m)[k].stop = objects[k].stop
           /\ Relined(Lines(objects), Lines(Leave(objects, m)), m, Tail(Lines(objects)[m]))
<1> DEFINE object == [objects[m] EXCEPT !.queue = Tail(objects[m].queue)]
<1>1. objects[m] \in Object /\ Lines(objects)[m] = objects[m].queue
  BY LinesFacts
<1>2. objects[m].queue \in Seq(Commands) /\ Tail(objects[m].queue) \in Seq(Commands)
  BY <1>1, SequenceFacts DEF Object
<1>3. /\ object \in Object /\ object.queue = Tail(objects[m].queue)
      /\ object.session = objects[m].session /\ object.turns = objects[m].turns
      /\ object.stop = objects[m].stop
  BY <1>1, <1>2 DEF Object
<1>4. Leave(objects, m) = [objects EXCEPT ![m] = object]
  BY DEF Leave
<1> HIDE DEF object
<1>5. /\ Leave(objects, m) \in Seq(Object) /\ Len(Leave(objects, m)) = Len(objects)
      /\ Leave(objects, m)[m] = object
      /\ \A k \in 1..Len(objects) : k # m => Leave(objects, m)[k] = objects[k]
      /\ Relined(Lines(objects), Lines(Leave(objects, m)), m, object.queue)
  BY <1>3, <1>4, ReplaceFacts
<1> QED BY <1>1, <1>3, <1>4, <1>5

LEMMA PlaceFacts ==
    ASSUME NEW commands \in [Commands -> Command], NEW c \in Commands, NEW m \in Nat,
           NEW place \in {"done", "waiting", "calling"}
    PROVE  LET placed == [commands EXCEPT ![c] = [@ EXCEPT !.at = place, !.object = m]] IN
           placed \in [Commands -> Command] /\ Moved(commands, placed, c, place, m)
<1> DEFINE placed == [commands EXCEPT ![c] = [@ EXCEPT !.at = place, !.object = m]]
           put == [commands[c] EXCEPT !.at = place, !.object = m]
<1>1. commands[c] \in Command
  OBVIOUS
<1>2. /\ put \in Command /\ put.at = place /\ put.object = m /\ put.kind = commands[c].kind
      /\ put.session = commands[c].session
  BY <1>1 DEF Command, Pending
<1>3. placed = [commands EXCEPT ![c] = put]
  OBVIOUS
<1> HIDE DEF put
<1>4. placed \in [Commands -> Command] /\ Moved(commands, placed, c, place, m)
  BY <1>2, <1>3 DEF Moved
<1> QED BY <1>4

LEMMA TellsStays ==
    ASSUME NEW turns \in Seq(Turn), NEW outputs, NEW commands, NEW outputs2, NEW commands2,
           Tells(turns, outputs, commands),
           \A c \in Commands : commands[c].at \in Settled =>
               commands2[c].at \in Settled /\ outputs2[c] = outputs[c]
    PROVE  Tells(turns, outputs2, commands2)
<1>1. \A i \in 1..Len(turns) : turns[i].speech \in Commands
  <2>1. \A i \in 1..Len(turns) : turns[i] \in Turn
    BY SequenceFacts
  <2> QED BY <2>1 DEF Turn
<1>2. ASSUME NEW i \in 1..Len(turns)
      PROVE  /\ outputs2[turns[i].speech] = outputs[turns[i].speech]
             /\ commands2[turns[i].speech].at \in Settled
  BY <1>1 DEF Tells
<1> QED BY <1>2 DEF Tells

\* The functions f and g on Commands differ at c only.
OnlyAt(c, f, g) == \A d \in Commands : d # c => g[d] = f[d]

LEMMA TellsMore ==
    ASSUME NEW turns \in Seq(Turn), NEW outputs, NEW commands, NEW outputs2, NEW commands2,
           NEW c \in Commands, NEW ok \in BOOLEAN, NEW turn,
           turn = [number |-> Len(turns) + 1, speech |-> c, ok |-> ok],
           NEW more, more = turns \o <<turn>>,
           Tells(turns, outputs, commands), Len(turns) < MaxTurns, commands[c].at \notin Settled,
           commands2[c].at \in Settled, outputs2[c] = Outcome(ok),
           OnlyAt(c, commands, commands2), OnlyAt(c, outputs, outputs2)
    PROVE  Tells(more, outputs2, commands2)
<1>1. turn \in Turn /\ Len(turns) \in Nat /\ \A i \in 1..Len(turns) : turns[i] \in Turn
  <2>1. Len(turns) \in Nat /\ \A i \in 1..Len(turns) : turns[i] \in Turn
    BY SequenceFacts
  <2>2. Len(turns) + 1 \in Nat
    BY <2>1, SMT
  <2> QED BY <2>1, <2>2 DEF Turn
<1>2. /\ Len(more) = Len(turns) + 1 /\ more[Len(turns) + 1] = turn
      /\ \A i \in 1..Len(turns) : more[i] = turns[i]
  BY <1>1, AppendIsConcat, AppendProperties
<1>3. Len(more) <= MaxTurns
  BY <1>1, <1>2, CommitteeMeetingAssumption, SMT
<1>4. \A i \in 1..Len(turns) : turns[i].speech \in Commands /\ turns[i].speech # c
  BY <1>1 DEF Tells, Turn
<1>5. ASSUME NEW i \in 1..Len(more)
      PROVE  /\ more[i].number = i
             /\ outputs2[more[i].speech] = Outcome(more[i].ok)
             /\ commands2[more[i].speech].at \in Settled
             /\ \A j \in 1..(i - 1) : more[j].speech # more[i].speech
  <2>1. CASE i = Len(turns) + 1
    <3>1. ASSUME NEW j \in 1..(i - 1)
          PROVE  more[j].speech # c
      <4>1. j \in 1..Len(turns)
        BY <2>1, <3>1, <1>1, SMT
      <4> QED BY <4>1, <1>2, <1>4
    <3>2. more[i].number = i /\ more[i].speech = c /\ more[i].ok = ok
      BY <2>1, <1>2
    <3> QED BY <3>1, <3>2
  <2>2. CASE i # Len(turns) + 1
    <3>1. i \in 1..Len(turns) /\ \A j \in 1..(i - 1) : j \in 1..Len(turns)
      BY <2>2, <1>1, <1>2, <1>5, SMT
    <3> QED BY <3>1, <1>2, <1>4 DEF Tells, OnlyAt
  <2> QED BY <2>1, <2>2
<1> QED BY <1>3, <1>5 DEF Tells
----------------------------------------------------------------------------
(* What steps have in common *)

\* Turns that were told before.
Old(turns) ==
    \/ turns = <<>>
    \/ \E s \in Sessions : turns = saved[s].turns
    \/ \E m \in Objects : turns = meeting[m].turns

LEMMA SavedFacts ==
    ASSUME TypeOK
    PROVE  /\ \A s \in Sessions : saved[s] \in State /\ saved[s].turns \in Seq(Turn)
           /\ \A m \in Objects : meeting[m] \in Object /\ meeting[m].turns \in Seq(Turn)
           /\ Len(meeting) \in Nat
           /\ Unknown \in State /\ <<>> \in Seq(Turn) /\ <<>> \in Seq(Commands)
<1>1. \A s \in Sessions : saved[s] \in State /\ saved[s].turns \in Seq(Turn)
  BY DEF TypeOK, State
<1>2. \A m \in Objects : meeting[m] \in Object
  BY LinesFacts DEF TypeOK, Objects
<1>3. <<>> \in Seq(Turn) /\ <<>> \in Seq(Commands)
  BY EmptySeq
<1> QED BY <1>1, <1>2, <1>3, LinesFacts DEF TypeOK, Object, Unknown, State

\* Told turns stay told when the outcomes of the speeches that are over stay.
LEMMA AllTellKept ==
    ASSUME TypeOK, AllTell, faults' = 0 => faults = 0,
           \A c \in Commands : command[c].at \in Settled =>
               command'[c].at \in Settled /\ output'[c] = output[c],
           faults' = 0 => \A s \in Sessions :
               Old(saved'[s].turns) \/ Tells(saved'[s].turns, output', command'),
           faults' = 0 => \A m \in 1..Len(meeting') :
               Old(meeting'[m].turns) \/ Tells(meeting'[m].turns, output', command')
    PROVE  AllTell'
<1>1. ASSUME faults = 0, NEW turns, Old(turns)
      PROVE  Tells(turns, output', command')
  <2>1. turns \in Seq(Turn)
    BY <1>1, SavedFacts DEF Old
  <2>2. Tells(turns, output, command)
    <3>1. CASE turns = <<>>
      <4>1. Len(turns) = 0 /\ ~\E i \in 1..Len(turns) : TRUE
        BY <3>1, SMT
      <4>2. Len(turns) <= MaxTurns
        BY <4>1, CommitteeMeetingAssumption, SMT
      <4> QED BY <4>1, <4>2 DEF Tells
    <3>2. CASE \E s \in Sessions : turns = saved[s].turns
      BY <3>2, <1>1 DEF AllTell
    <3>3. CASE \E m \in Objects : turns = meeting[m].turns
      BY <3>3, <1>1 DEF AllTell
    <3> QED BY <3>1, <3>2, <3>3, <1>1 DEF Old
  <2> QED BY <2>1, <2>2, TellsStays
<1> QED BY <1>1 DEF AllTell, Objects

\* The command c has the lock of object m, or gets it: `objects' are the objects with
\* c at the head of the queue, `places' the commands with c at that place.
Seated(c, m, objects, places) ==
    /\ objects \in Seq(Object) /\ Len(objects) = Len(meeting) /\ m \in 1..Len(objects)
    /\ \A k \in 1..Len(objects) : /\ objects[k].turns = meeting[k].turns
                                  /\ objects[k].session = meeting[k].session
    /\ objects[m].queue # <<>> /\ Head(objects[m].queue) = c /\ c \in Commands
    /\ command[c].at \in Pending
    /\ places \in [Commands -> Command] /\ Moved(command, places, c, places[c].at, m)
    /\ tasks' \in Seq(Commands) /\ Orderly(Lines(objects), places, tasks')

\* Nobody else is calling from the same object.
LEMMA NobodyElse ==
    ASSUME NEW c, NEW m, NEW objects, NEW places, Seated(c, m, objects, places),
           NEW d \in Commands, d # c, command[d].at = "calling"
    PROVE  command[d].object \in Objects /\ command[d].object # m
<1> DEFINE lines == Lines(objects)
<1>1. places[d] = command[d]
  BY DEF Seated, Moved
<1>2. /\ lines \in Seq(Seq(Commands)) /\ Len(lines) = Len(meeting)
      /\ lines[m] = objects[m].queue /\ lines[m] \in Seq(Commands) /\ lines[m] # <<>>
  <2>1. m \in 1..Len(objects) /\ objects \in Seq(Object)
    BY DEF Seated
  <2>2. objects[m] \in Object
    BY <2>1, LinesFacts
  <2> QED BY <2>1, <2>2, LinesFacts DEF Seated, Object
<1>3. lines[m][1] = c /\ \A i \in 1..Len(lines[m]) : i > 1 \/ i = 1
  BY <1>2, SequenceFacts, SMT DEF Seated
<1> HIDE DEF lines
<1>4. Placed(lines, places, tasks', d)
  BY DEF Seated, Orderly, lines
<1>5. command[d].object \in 1..Len(lines) /\ Occurs(d, lines[command[d].object])
  BY <1>1, <1>4 DEF Placed
<1>6. ASSUME command[d].object = m
      PROVE  FALSE
  <2>1. PICK i \in 1..Len(lines[m]) : lines[m][i] = d
    BY <1>5, <1>6 DEF Occurs
  <2>2. InLine(lines[m], places, m, i)
    BY <1>5, <1>6 DEF Seated, Orderly, lines
  <2>3. i > 1
    BY <2>1, <1>3
  <2> QED BY <2>1, <2>2, <2>3, <1>1 DEF InLine
<1> QED BY <1>2, <1>5, <1>6 DEF Objects

LEMMA OthersCalled ==
    ASSUME NEW c, NEW m, NEW objects, NEW places, Seated(c, m, objects, places),
           NEW d \in Commands, d # c, Called(d), command'[d] = command[d], output'[d] = output[d],
           \A k \in Objects : k # m => meeting'[k].turns = meeting[k].turns
    PROVE  Called(d)'
BY NobodyElse DEF Called

\* c leaves the queue, the turns of m being `turns' afterwards.
LEMMA Departs ==
    ASSUME NEW c, NEW m, NEW objects, NEW places, Seated(c, m, objects, places), TypeOK,
           NEW object \in Object, object.queue = objects[m].queue,
           meeting' = Leave([objects EXCEPT ![m] = object], m), command' = Put(c, "done", m)
    PROVE  /\ meeting' \in Seq(Object) /\ Len(meeting') = Len(meeting)
           /\ \A k \in Objects :
                 /\ meeting'[k].turns = IF k = m THEN object.turns ELSE meeting[k].turns
                 /\ meeting'[k].session = IF k = m THEN object.session ELSE meeting[k].session
                 /\ meeting'[k].stop = IF k = m THEN object.stop ELSE objects[k].stop
           /\ Relined(Lines(objects), Lines(meeting'), m, Tail(Lines(objects)[m]))
           /\ Lines(objects)[m] # <<>> /\ Head(Lines(objects)[m]) = c
           /\ command' \in [Commands -> Command] /\ Moved(command, command', c, "done", m)
           /\ Moved(places, command', c, "done", m)
           /\ Orderly(Lines(meeting'), command', tasks')
<1> DEFINE replaced == [objects EXCEPT ![m] = object]
<1>0. /\ objects \in Seq(Object) /\ m \in 1..Len(objects) /\ c \in Commands /\ m \in Nat
      /\ objects[m].queue # <<>>
  BY SMT DEF Seated
<1>1. /\ replaced \in Seq(Object) /\ Len(replaced) = Len(objects) /\ replaced[m] = object
      /\ \A k \in 1..Len(objects) : k # m => replaced[k] = objects[k]
  BY <1>0, ReplaceFacts
<1>2. meeting' = Leave(replaced, m)
  OBVIOUS
<1> HIDE DEF replaced
<1>3. /\ meeting' \in Seq(Object) /\ Len(meeting') = Len(replaced)
      /\ \A k \in 1..Len(replaced) :
            /\ meeting'[k].session = replaced[k].session /\ meeting'[k].turns = replaced[k].turns
            /\ meeting'[k].stop = replaced[k].stop
      /\ Relined(Lines(replaced), Lines(meeting'), m, Tail(Lines(replaced)[m]))
  <2>1. m \in 1..Len(replaced) /\ replaced[m].queue # <<>>
    BY <1>0, <1>1
  <2>2. /\ Leave(replaced, m) \in Seq(Object) /\ Len(Leave(replaced, m)) = Len(replaced)
        /\ \A k \in 1..Len(replaced) :
              /\ Leave(replaced, m)[k].session = replaced[k].session
              /\ Leave(replaced, m)[k].turns = replaced[k].turns
              /\ Leave(replaced, m)[k].stop = replaced[k].stop
        /\ Relined(Lines(replaced), Lines(Leave(replaced, m)), m, Tail(Lines(replaced)[m]))
    BY <2>1, <1>1, LeaveFacts
  <2> QED BY <2>2, <1>2
<1>4. /\ Len(Lines(replaced)) = Len(Lines(objects))
      /\ \A k \in 1..Len(objects) : Lines(replaced)[k] = Lines(objects)[k]
      /\ Lines(objects)[m] = objects[m].queue
  <2>1. ASSUME NEW k \in 1..Len(objects)
        PROVE  Lines(replaced)[k] = Lines(objects)[k]
    <3>1. replaced[k].queue = objects[k].queue
      BY <1>1
    <3> QED BY <3>1, <1>0, <1>1, LinesFacts
  <2> QED BY <2>1, <1>0, <1>1, LinesFacts
<1>5. Relined(Lines(objects), Lines(meeting'), m, Tail(Lines(objects)[m]))
  <2>1. \A k \in 1..Len(Lines(objects)) : k \in 1..Len(objects)
    BY <1>0, LinesFacts
  <2> QED BY <2>1, <1>0, <1>3, <1>4 DEF Relined
<1>6. command' \in [Commands -> Command] /\ Moved(command, command', c, "done", m)
  BY <1>0, PlaceFacts DEF TypeOK, Put
<1>7. Moved(places, command', c, "done", m)
  BY <1>6 DEF Seated, Moved
<1>8. Lines(objects)[m] # <<>> /\ Head(Lines(objects)[m]) = c
  BY <1>0, <1>4 DEF Seated
<1>9. Orderly(Lines(meeting'), command', tasks')
  <2>1. /\ Lines(objects) \in Seq(Seq(Commands)) /\ Lines(meeting') \in Seq(Seq(Commands))
        /\ m \in 1..Len(Lines(objects)) /\ tasks' \in Seq(Commands)
        /\ Orderly(Lines(objects), places, tasks')
    BY <1>0, <1>3, LinesFacts DEF Seated
  <2> QED BY <2>1, <1>5, <1>7, <1>8, Leaves
<1>10. /\ Len(meeting') = Len(meeting)
       /\ \A k \in Objects :
             /\ meeting'[k].turns = IF k = m THEN object.turns ELSE meeting[k].turns
             /\ meeting'[k].session = IF k = m THEN object.session ELSE meeting[k].session
             /\ meeting'[k].stop = IF k = m THEN object.stop ELSE objects[k].stop
  <2>1. ASSUME NEW k \in Objects
        PROVE  /\ k \in 1..Len(objects) /\ k \in 1..Len(replaced)
               /\ objects[k].turns = meeting[k].turns /\ objects[k].session = meeting[k].session
    BY <1>1 DEF Seated, Objects
  <2>2. ASSUME NEW k \in Objects
        PROVE  /\ meeting'[k].turns = IF k = m THEN object.turns ELSE meeting[k].turns
               /\ meeting'[k].session = IF k = m THEN object.session ELSE meeting[k].session
               /\ meeting'[k].stop = IF k = m THEN object.stop ELSE objects[k].stop
    <3>1. CASE k = m
      BY <3>1, <2>1, <1>1, <1>3
    <3>2. CASE k # m
      BY <3>2, <2>1, <1>1, <1>3
    <3> QED BY <3>1, <3>2
  <2> QED BY <2>2, <1>1, <1>3 DEF Seated
<1> QED BY <1>3, <1>5, <1>6, <1>7, <1>8, <1>9, <1>10
\* c leaves without a turn.
LEMMA DepartsSilently ==
    ASSUME NEW c, NEW m, NEW objects, NEW places, Seated(c, m, objects, places), IInv,
           meeting' = Leave(objects, m), command' = Put(c, "done", m), output' = output,
           faults' = 0 => faults = 0, \A s \in Sessions : Old(saved'[s].turns)
    PROVE  /\ meeting' \in Seq(Object) /\ Len(meeting') = Len(meeting)
           /\ \A k \in Objects :
                 /\ meeting'[k].turns = meeting[k].turns /\ meeting'[k].session = meeting[k].session
                 /\ meeting'[k].stop = objects[k].stop
           /\ Relined(Lines(objects), Lines(meeting'), m, Tail(Lines(objects)[m]))
           /\ Lines(objects)[m] # <<>> /\ Head(Lines(objects)[m]) = c
           /\ command' \in [Commands -> Command]
           /\ Moved(command, command', c, "done", m) /\ Moved(places, command', c, "done", m)
           /\ Orderly(Lines(meeting'), command', tasks')
           /\ \A d \in Commands : Called(d)'
           /\ AllTell'
<1>1. objects \in Seq(Object) /\ m \in 1..Len(objects) /\ c \in Commands /\ Len(objects) = Len(meeting)
  BY DEF Seated
<1>2. objects[m] \in Object /\ [objects EXCEPT ![m] = objects[m]] = objects
  <2>1. objects[m] \in Object
    BY <1>1, LinesFacts
  <2>2. DOMAIN objects = 1..Len(objects) /\ objects \in [1..Len(objects) -> Object]
    BY <1>1, LenProperties
  <2> QED BY <2>1, <2>2
<1>3. meeting' = Leave([objects EXCEPT ![m] = objects[m]], m)
  BY <1>2
<1>4. /\ meeting' \in Seq(Object) /\ Len(meeting') = Len(meeting)
      /\ \A k \in Objects :
            /\ meeting'[k].turns = IF k = m THEN objects[m].turns ELSE meeting[k].turns
            /\ meeting'[k].session = IF k = m THEN objects[m].session ELSE meeting[k].session
            /\ meeting'[k].stop = IF k = m THEN objects[m].stop ELSE objects[k].stop
      /\ Relined(Lines(objects), Lines(meeting'), m, Tail(Lines(objects)[m]))
      /\ Lines(objects)[m] # <<>> /\ Head(Lines(objects)[m]) = c
      /\ command' \in [Commands -> Command] /\ Moved(command, command', c, "done", m)
      /\ Moved(places, command', c, "done", m)
      /\ Orderly(Lines(meeting'), command', tasks')
  BY <1>2, <1>3, Departs DEF IInv
<1>5. \A k \in Objects :
          /\ meeting'[k].turns = meeting[k].turns /\ meeting'[k].session = meeting[k].session
          /\ meeting'[k].stop = objects[k].stop
  BY <1>1, <1>4 DEF Seated, Objects
<1>6. ASSUME NEW d \in Commands
      PROVE  Called(d)'
  <2>1. CASE d = c
    BY <2>1, <1>4 DEF Called, Moved
  <2>2. CASE d # c
    <3>1. Called(d) /\ command'[d] = command[d] /\ output'[d] = output[d]
      BY <2>2, <1>4 DEF Moved, IInv
    <3> QED BY <3>1, <2>2, <1>5, OthersCalled
  <2> QED BY <2>1, <2>2
<1>7. AllTell'
  <2>1. \A d \in Commands : command[d].at \in Settled => command'[d].at \in Settled
    BY <1>4 DEF Moved, Settled
  <2>2. \A k \in 1..Len(meeting') : Old(meeting'[k].turns)
    BY <1>4, <1>5 DEF Old, Objects
  <2> QED BY <2>1, <2>2, AllTellKept DEF IInv
<1> QED BY <1>4, <1>5, <1>6, <1>7

\* A turn as Record adds it.
LEMMA TurnFacts ==
    ASSUME NEW c \in Commands, NEW object \in Object, NEW ok \in BOOLEAN
    PROVE  /\ TurnOf(c, object, ok) \in Turn
           /\ TurnOf(c, object, ok) = [number |-> Len(object.turns) + 1, speech |-> c, ok |-> ok]
<1>1. object.turns \in Seq(Turn)
  BY DEF Object
<1>2. Len(object.turns) \in Nat
  BY <1>1, LenProperties
<1>3. Len(object.turns) + 1 \in Nat
  BY <1>2, SMT
<1> QED BY <1>3 DEF TurnOf, Turn

\* The end of a directed speech, with one turn while storage accepts every write.
LEMMA RecordKeeps ==
    ASSUME NEW c, NEW m, NEW objects, NEW places, Seated(c, m, objects, places), IInv,
           NEW ok \in BOOLEAN, NEW turns \in Seq(Turn), Record(c, m, objects, turns, ok),
           faults' \in Nat, faults' = 0 => faults = 0, stops' = stops,
           faults' = 0 => turns = <<TurnOf(c, objects[m], ok)>>
                          /\ Len(objects[m].turns) < MaxTurns
    PROVE  IInv'
<1> DEFINE object == [objects[m] EXCEPT !.turns = @ \o turns]
<1>1. /\ objects \in Seq(Object) /\ m \in 1..Len(objects) /\ c \in Commands
      /\ Len(objects) = Len(meeting) /\ objects[m].turns = meeting[m].turns
  BY DEF Seated
<1>2. objects[m] \in Object /\ objects[m].turns \in Seq(Turn)
  BY <1>1, LinesFacts DEF Object
<1>3. /\ object \in Object /\ object.queue = objects[m].queue /\ object.session = objects[m].session
      /\ object.turns = objects[m].turns \o turns /\ object.turns \in Seq(Turn)
      /\ object.session \in Sessions /\ object.stop \in BOOLEAN
  <2>1. objects[m].turns \o turns \in Seq(Turn)
    BY <1>2, ConcatProperties
  <2> QED BY <2>1, <1>2 DEF Object
<1>4. /\ output' = [output EXCEPT ![c] = Outcome(ok)]
      /\ meeting' = Leave([objects EXCEPT ![m] = object], m)
      /\ Save(object.session, StateOf(object, SpeakStatus(object)))
      /\ command' = Put(c, "done", m)
      /\ UNCHANGED <<active, minuted>>
  BY DEF Record
<1>5. /\ StateOf(object, SpeakStatus(object)) \in State
      /\ StateOf(object, SpeakStatus(object)).turns = object.turns
  BY <1>3 DEF StateOf, SpeakStatus, State, OpenStatuses
<1> HIDE DEF object
<1>6. /\ meeting' \in Seq(Object) /\ Len(meeting') = Len(meeting)
      /\ \A k \in Objects :
            meeting'[k].turns = IF k = m THEN object.turns ELSE meeting[k].turns
      /\ command' \in [Commands -> Command] /\ Moved(command, command', c, "done", m)
      /\ Orderly(Lines(meeting'), command', tasks')
  <2>1. /\ TypeOK /\ object \in Object /\ object.queue = objects[m].queue
        /\ meeting' = Leave([objects EXCEPT ![m] = object], m) /\ command' = Put(c, "done", m)
    BY <1>3, <1>4 DEF IInv
  <2>2. /\ meeting' \in Seq(Object) /\ Len(meeting') = Len(meeting)
        /\ \A k \in Objects :
              /\ meeting'[k].turns = IF k = m THEN object.turns ELSE meeting[k].turns
              /\ meeting'[k].session = IF k = m THEN object.session ELSE meeting[k].session
              /\ meeting'[k].stop = IF k = m THEN object.stop ELSE objects[k].stop
        /\ Relined(Lines(objects), Lines(meeting'), m, Tail(Lines(objects)[m]))
        /\ Lines(objects)[m] # <<>> /\ Head(Lines(objects)[m]) = c
        /\ command' \in [Commands -> Command] /\ Moved(command, command', c, "done", m)
        /\ Moved(places, command', c, "done", m)
        /\ Orderly(Lines(meeting'), command', tasks')
    BY <2>1, Departs
  <2> QED BY <2>2
<1>7. TypeOK'
  <2>1. saved' \in [Sessions -> State] /\ latest' \in Sessions /\ cached' \in [Sessions -> State]
    BY <1>3, <1>4, <1>5 DEF Save, IInv, TypeOK
  <2>2. output' \in [Commands -> {"absent", "running", "completed", "failed"}]
    BY <1>1, <1>4 DEF IInv, TypeOK, Outcome
  <2>3. active' \in 0..Len(meeting')
    BY <1>4, <1>6 DEF IInv, TypeOK
  <2> QED BY <2>1, <2>2, <2>3, <1>4, <1>6 DEF IInv, TypeOK, Seated
<1>8. output'[c] = Outcome(ok)
      /\ \A d \in Commands : d # c => output'[d] = output[d] /\ command'[d] = command[d]
  BY <1>1, <1>4, <1>6 DEF IInv, TypeOK, Moved
<1>9. ASSUME NEW d \in Commands
      PROVE  Called(d)'
  <2>1. CASE d = c
    BY <2>1, <1>6 DEF Called, Moved
  <2>2. CASE d # c
    BY <2>2, <1>6, <1>8, OthersCalled DEF IInv
  <2> QED BY <2>1, <2>2
<1>10. AllTell'
  <2>1. \A d \in Commands : command[d].at \in Settled =>
            command'[d].at \in Settled /\ output'[d] = output[d]
    BY <1>8 DEF Seated, Settled, Pending
  <2>2. ASSUME faults' = 0
        PROVE  Tells(object.turns, output', command')
    <3>1. Tells(objects[m].turns, output, command)
      BY <2>2, <1>1 DEF IInv, AllTell, Objects
    <3>2. command'[c].at \in Settled /\ command[c].at \notin Settled
      BY <1>6 DEF Moved, Settled, Seated, Pending
    <3> DEFINE turn == TurnOf(c, objects[m], ok)
    <3>3. turn = [number |-> Len(objects[m].turns) + 1, speech |-> c, ok |-> ok]
      BY <1>1, <1>2, TurnFacts
    <3> HIDE DEF turn
    <3>4. /\ c \in Commands /\ objects[m].turns \in Seq(Turn) /\ Len(objects[m].turns) < MaxTurns
          /\ output'[c] = Outcome(ok)
          /\ OnlyAt(c, command, command') /\ OnlyAt(c, output, output')
      BY <2>2, <1>1, <1>2, <1>8 DEF OnlyAt
    <3>5. object.turns = objects[m].turns \o <<turn>>
      BY <2>2, <1>3 DEF turn
    <3> QED BY <3>1, <3>2, <3>3, <3>4, <3>5, TellsMore
  <2>3. \A s \in Sessions : Old(saved'[s].turns) \/ saved'[s].turns = object.turns
    BY <1>3, <1>4, <1>5 DEF Save, Old, IInv, TypeOK
  <2>4. \A k \in 1..Len(meeting') : Old(meeting'[k].turns) \/ meeting'[k].turns = object.turns
    BY <1>6 DEF Old, Objects
  <2>5. faults' = 0 => \A s \in Sessions :
            Old(saved'[s].turns) \/ Tells(saved'[s].turns, output', command')
    BY <2>2, <2>3
  <2>6. faults' = 0 => \A k \in 1..Len(meeting') :
            Old(meeting'[k].turns) \/ Tells(meeting'[k].turns, output', command')
    BY <2>2, <2>4
  <2> QED BY <2>1, <2>5, <2>6, AllTellKept DEF IInv
<1> QED BY <1>6, <1>7, <1>9, <1>10 DEF IInv

\* The end of a directed speech whose last write is refused.
LEMMA UnrecordedKeeps ==
    ASSUME NEW c, NEW m, NEW objects, NEW places, Seated(c, m, objects, places), IInv,
           NEW turns \in Seq(Turn), NEW outcome \in {"running", "completed", "failed"},
           Unrecorded(c, m, objects, turns, outcome),
           faults' \in Nat, faults' # 0, stops' = stops
    PROVE  IInv'
<1> DEFINE object == [objects[m] EXCEPT !.turns = @ \o turns]
<1>1. objects \in Seq(Object) /\ m \in 1..Len(objects) /\ c \in Commands
  BY DEF Seated
<1>2. objects[m] \in Object /\ objects[m].turns \in Seq(Turn)
  BY <1>1, LinesFacts DEF Object
<1>3. object \in Object /\ object.queue = objects[m].queue
  <2>1. objects[m].turns \o turns \in Seq(Turn)
    BY <1>2, ConcatProperties
  <2> QED BY <2>1, <1>2 DEF Object
<1>4. /\ output' = [output EXCEPT ![c] = outcome]
      /\ meeting' = Leave([objects EXCEPT ![m] = object], m) /\ command' = Put(c, "done", m)
      /\ UNCHANGED <<saved, latest, active, cached, minuted>>
  BY DEF Unrecorded
<1> HIDE DEF object
<1>5. /\ meeting' \in Seq(Object) /\ Len(meeting') = Len(meeting)
      /\ \A k \in Objects :
            /\ meeting'[k].turns = IF k = m THEN object.turns ELSE meeting[k].turns
            /\ meeting'[k].session = IF k = m THEN object.session ELSE meeting[k].session
            /\ meeting'[k].stop = IF k = m THEN object.stop ELSE objects[k].stop
      /\ Relined(Lines(objects), Lines(meeting'), m, Tail(Lines(objects)[m]))
      /\ Lines(objects)[m] # <<>> /\ Head(Lines(objects)[m]) = c
      /\ command' \in [Commands -> Command] /\ Moved(command, command', c, "done", m)
      /\ Moved(places, command', c, "done", m)
      /\ Orderly(Lines(meeting'), command', tasks')
  BY <1>3, <1>4, Departs DEF IInv
<1>6. TypeOK'
  <2>1. output' \in [Commands -> {"absent", "running", "completed", "failed"}]
    BY <1>1, <1>4 DEF IInv, TypeOK
  <2>2. active' \in 0..Len(meeting')
    BY <1>4, <1>5 DEF IInv, TypeOK
  <2> QED BY <2>1, <2>2, <1>4, <1>5 DEF IInv, TypeOK, Seated
<1>7. ASSUME NEW d \in Commands
      PROVE  Called(d)'
  <2>1. CASE d = c
    BY <2>1, <1>5 DEF Called, Moved
  <2>2. CASE d # c
    <3>1. output'[d] = output[d] /\ command'[d] = command[d]
      BY <2>2, <1>1, <1>4, <1>5 DEF IInv, TypeOK, Moved
    <3> QED BY <2>2, <3>1, <1>5, OthersCalled DEF IInv
  <2> QED BY <2>1, <2>2
<1> QED BY <1>5, <1>6, <1>7 DEF IInv, AllTell

\* The ways in which a directed speech ends after the provider's answer, one by one.
LEMMA AnswerCases ==
    ASSUME NEW c \in Commands, NEW m, NEW objects, objects[m] \in Object, Answer(c, m, objects)
    PROVE  \/ \E ok \in BOOLEAN : \E turns \in Seq(Turn) :
                 /\ turns # <<>> /\ Record(c, m, objects, turns, ok)
                 /\ turns[Len(turns)].speech = c
                 /\ \/ turns = <<TurnOf(c, objects[m], ok)>> /\ UNCHANGED budget
                    \/ Outage
           \/ \E outcome \in {"running", "completed", "failed"} : \E turns \in Seq(Turn) :
                 Unrecorded(c, m, objects, turns, outcome) /\ Outage
<1> DEFINE turn(ok) == TurnOf(c, objects[m], ok)
<1>1. /\ \A ok \in BOOLEAN : turn(ok) \in Turn /\ turn(ok).speech = c
      /\ TRUE \in BOOLEAN /\ FALSE \in BOOLEAN
  <2>1. ASSUME NEW ok \in BOOLEAN
        PROVE  turn(ok) \in Turn /\ turn(ok).speech = c
    BY TurnFacts
  <2> QED BY <2>1
<1>2. /\ \A ok \in BOOLEAN : Outcome(ok) \in {"running", "completed", "failed"}
      /\ <<>> \in Seq(Turn)
  BY EmptySeq DEF Outcome
<1>3. \/ \E ok \in BOOLEAN : Record(c, m, objects, <<turn(ok)>>, ok) /\ UNCHANGED budget
      \/ Outage /\ Record(c, m, objects, <<turn(TRUE), turn(FALSE)>>, FALSE)
      \/ Outage /\ Unrecorded(c, m, objects, <<>>, "running")
      \/ Outage /\ \E ok \in BOOLEAN : Unrecorded(c, m, objects, <<turn(ok)>>, Outcome(ok))
      \/ Outage /\ Unrecorded(c, m, objects, <<turn(TRUE), turn(FALSE)>>, "failed")
  BY DEF Answer
<1> HIDE DEF turn
<1>4. /\ \A ok \in BOOLEAN : /\ <<turn(ok)>> \in Seq(Turn) /\ <<turn(ok)>> # <<>>
                              /\ <<turn(ok)>>[Len(<<turn(ok)>>)].speech = c
      /\ LET two == <<turn(TRUE), turn(FALSE)>> IN
            two \in Seq(Turn) /\ two # <<>> /\ two[Len(two)].speech = c
  <2>1. \A e, f : /\ <<e>> # <<>> /\ <<e>>[Len(<<e>>)] = e
                  /\ <<e, f>> # <<>> /\ <<e, f>>[Len(<<e, f>>)] = f
    BY SMT
  <2> QED BY <2>1, <1>1, ShortSequences
<1> QED BY <1>2, <1>3, <1>4 DEF turn

\* However the speech of a caller ends, the invariant is kept.
LEMMA AnswerKeeps ==
    ASSUME NEW c, NEW m, NEW objects, NEW places, Seated(c, m, objects, places), IInv,
           Len(objects[m].turns) < MaxTurns, Answer(c, m, objects)
    PROVE  IInv'
<1>1. c \in Commands /\ objects[m] \in Object
  BY LinesFacts DEF Seated
<1>2. faults \in Nat /\ (Outage => faults' \in Nat /\ faults' # 0 /\ stops' = stops)
  <2>1. faults \in Nat
    BY DEF IInv, TypeOK
  <2> QED BY <2>1, SMT DEF Outage
<1>3. ASSUME NEW ok \in BOOLEAN, NEW turns \in Seq(Turn), Record(c, m, objects, turns, ok),
             (turns = <<TurnOf(c, objects[m], ok)>> /\ UNCHANGED budget) \/ Outage
      PROVE  IInv'
  <2>1. /\ faults' \in Nat /\ stops' = stops /\ (faults' = 0 => faults = 0)
        /\ faults' = 0 => turns = <<TurnOf(c, objects[m], ok)>>
    BY <1>2, <1>3 DEF budget
  <2> QED BY <2>1, <1>3, RecordKeeps
<1>4. ASSUME NEW outcome \in {"running", "completed", "failed"}, NEW turns \in Seq(Turn),
             Unrecorded(c, m, objects, turns, outcome), Outage
      PROVE  IInv'
  BY <1>2, <1>4, UnrecordedKeeps
<1> QED BY <1>1, <1>3, <1>4, AnswerCases
----------------------------------------------------------------------------
(* The invariant through a command's turn at the lock *)

\* Refused speeches, refused writes and finished meetings: c leaves and no turn is
\* added.
LEMMA DepartKeeps ==
    ASSUME NEW c, NEW m, NEW objects, NEW places, Seated(c, m, objects, places), IInv,
           meeting' = Leave(objects, m), command' = Put(c, "done", m), output' = output,
           faults' \in Nat, faults' = 0 => faults = 0, stops' = stops,
           saved' \in [Sessions -> State], latest' \in Sessions \cup {NoOne},
           cached' \in [Sessions -> State], minuted' \in SUBSET Sessions,
           active' \in {active, 0}, \A s \in Sessions : Old(saved'[s].turns)
    PROVE  IInv'
<1>1. /\ meeting' \in Seq(Object) /\ Len(meeting') = Len(meeting)
      /\ \A k \in Objects :
            /\ meeting'[k].turns = meeting[k].turns /\ meeting'[k].session = meeting[k].session
            /\ meeting'[k].stop = objects[k].stop
      /\ Relined(Lines(objects), Lines(meeting'), m, Tail(Lines(objects)[m]))
      /\ Lines(objects)[m] # <<>> /\ Head(Lines(objects)[m]) = c
      /\ command' \in [Commands -> Command]
      /\ Moved(command, command', c, "done", m) /\ Moved(places, command', c, "done", m)
      /\ Orderly(Lines(meeting'), command', tasks')
      /\ \A d \in Commands : Called(d)'
      /\ AllTell'
  BY DepartsSilently
<1>2. active' \in 0..Len(meeting')
  <2>1. active \in 0..Len(meeting) /\ Len(meeting) \in Nat
    BY SavedFacts DEF IInv, TypeOK
  <2> QED BY <2>1, <1>1, SMT
<1>3. TypeOK'
  BY <1>1, <1>2 DEF IInv, TypeOK, Seated
<1> QED BY <1>1, <1>3 DEF IInv

LEMMA EnterSpeakKeeps ==
    ASSUME NEW c, NEW m, NEW objects, NEW places, Seated(c, m, objects, places), IInv,
           EnterSpeak(c, m, objects)
    PROVE  IInv'
<1>1. \A s \in Sessions : Old(saved[s].turns)
  BY DEF Old
<1>2. TypeOK
  BY DEF IInv
<1>3. /\ objects \in Seq(Object) /\ m \in 1..Len(objects) /\ m \in Nat /\ c \in Commands
      /\ Len(objects) = Len(meeting) /\ objects[m].turns = meeting[m].turns
  BY SMT DEF Seated
<1>4. CASE Refuse(c, m, objects)
  <2>1. /\ meeting' = Leave(objects, m) /\ command' = Put(c, "done", m)
        /\ UNCHANGED <<saved, latest, output, active, cached, minuted, stops, faults>>
    BY <1>4 DEF Refuse, stored, budget
  <2> QED BY <2>1, <1>1, <1>2, DepartKeeps DEF TypeOK
<1>5. CASE CallRefused(c, m, objects)
  <2>1. /\ meeting' = Leave(objects, m) /\ command' = Put(c, "done", m)
        /\ faults' = faults + 1
        /\ UNCHANGED <<saved, latest, output, active, cached, minuted, stops>>
    BY <1>5 DEF CallRefused, Outage, stored
  <2>2. faults' \in Nat /\ faults' # 0
    BY <2>1, <1>2, SMT DEF TypeOK
  <2> QED BY <2>1, <2>2, <1>1, <1>2, DepartKeeps DEF TypeOK
<1>6. CASE SpeakOfGap(c, m, objects)
  BY <1>6, AnswerKeeps DEF SpeakOfGap, MaySpeak
<1>7. CASE Call(c, m, objects)
  <2>1. /\ Len(objects[m].turns) < MaxTurns
        /\ output' = [output EXCEPT ![c] = "running"] /\ meeting' = objects
        /\ command' = Put(c, "calling", m)
        /\ UNCHANGED <<saved, latest, active, cached, minuted, stops, faults>>
    BY <1>7 DEF Call, MaySpeak, budget
  <2>2. command' \in [Commands -> Command] /\ Moved(command, command', c, "calling", m)
    BY <2>1, <1>2, <1>3, PlaceFacts DEF TypeOK, Put
  <2>3. /\ output' \in [Commands -> {"absent", "running", "completed", "failed"}]
        /\ output'[c] = "running"
        /\ \A d \in Commands : d # c => output'[d] = output[d] /\ command'[d] = command[d]
    BY <2>1, <2>2, <1>2, <1>3 DEF TypeOK, Moved
  <2>4. TypeOK'
    BY <2>1, <2>2, <2>3, <1>2, <1>3 DEF TypeOK, Seated
  <2>5. Orderly(Lines(meeting'), command', tasks')
    <3>1. /\ Lines(objects) \in Seq(Seq(Commands)) /\ m \in 1..Len(Lines(objects))
          /\ Lines(objects)[m] # <<>> /\ Head(Lines(objects)[m]) = c
      BY <1>3, LinesFacts DEF Seated
    <3>2. Moved(places, command', c, "calling", m)
      BY <2>2 DEF Seated, Moved
    <3>3. Orderly(Lines(objects), places, tasks') /\ tasks' \in Seq(Commands)
      BY DEF Seated
    <3> QED BY <2>1, <3>1, <3>2, <3>3, Calls
  <2>6. ASSUME NEW d \in Commands
        PROVE  Called(d)'
    <3>1. CASE d = c
      BY <3>1, <2>1, <2>2, <2>3 DEF Called, Moved
    <3>2. CASE d # c
      <4>1. \A k \in Objects : meeting'[k].turns = meeting[k].turns
        BY <2>1 DEF Seated, Objects
      <4> QED BY <3>2, <4>1, <2>3, OthersCalled DEF IInv
    <3> QED BY <3>1, <3>2
  <2>7. AllTell'
    <3>1. \A d \in Commands : command[d].at \in Settled =>
              command'[d].at \in Settled /\ output'[d] = output[d]
      BY <2>3 DEF Seated, Settled, Pending
    <3>2. \A k \in 1..Len(meeting') : Old(meeting'[k].turns)
      BY <2>1 DEF Seated, Old, Objects
    <3> QED BY <3>1, <3>2, <2>1, <1>1, <1>2, AllTellKept DEF IInv
  <2> QED BY <2>4, <2>5, <2>6, <2>7 DEF IInv
<1> QED BY <1>4, <1>5, <1>6, <1>7 DEF EnterSpeak

LEMMA EnterFinishKeeps ==
    ASSUME NEW c, NEW m, NEW objects, NEW places, Seated(c, m, objects, places), IInv,
           NEW caches \in [Sessions -> State], EnterFinish(c, m, objects, caches)
    PROVE  IInv'
<1> DEFINE object == objects[m]
           s      == object.session
           status == IF object.stop THEN "stopped" ELSE "completed"
<1>1. TypeOK /\ \A t \in Sessions : Old(saved[t].turns)
  BY DEF IInv, Old
<1>2. /\ m \in Objects /\ object \in Object /\ s \in Sessions /\ object.turns = meeting[m].turns
      /\ object.turns \in Seq(Turn) /\ object.stop \in BOOLEAN
  <2>1. m \in Objects /\ object \in Object /\ object.turns = meeting[m].turns
    BY LinesFacts DEF Seated, Objects
  <2> QED BY <2>1 DEF Object
<1>3. /\ meeting' = Leave(objects, m) /\ command' = Put(c, "done", m) /\ output' = output
      /\ \/ /\ cached' = caches
            /\ UNCHANGED <<saved, latest, active, minuted, stops, faults>>
         \/ /\ saved' = [saved EXCEPT ![s] = StateOf(object, status)]
            /\ latest' = s
            /\ cached' = [caches EXCEPT ![s] = StateOf(object, status)]
            /\ minuted' = minuted \cup {s}
            /\ active' = IF active = m THEN 0 ELSE active
            /\ UNCHANGED <<stops, faults>>
         \/ /\ faults' = faults + 1 /\ cached' = caches
            /\ UNCHANGED <<saved, latest, active, minuted, stops>>
  BY DEF EnterFinish, Outage, budget
<1>4. StateOf(object, status) \in State /\ StateOf(object, status).turns = object.turns
  BY <1>2 DEF StateOf, State, ClosedStatuses
<1> HIDE DEF object, s, status
<1>5. /\ saved' \in [Sessions -> State] /\ latest' \in Sessions \cup {NoOne}
      /\ cached' \in [Sessions -> State] /\ minuted' \in SUBSET Sessions
      /\ active' \in {active, 0}
  BY <1>1, <1>2, <1>3, <1>4 DEF TypeOK
<1>6. faults' \in Nat /\ (faults' = 0 => faults = 0) /\ stops' = stops
  <2>1. faults \in Nat
    BY <1>1 DEF TypeOK
  <2> QED BY <2>1, <1>3, SMT
<1>7. \A t \in Sessions : Old(saved'[t].turns)
  <2>1. Old(object.turns)
    BY <1>2 DEF Old
  <2>2. \A t \in Sessions : saved'[t] = saved[t] \/ saved'[t] = StateOf(object, status)
    BY <1>1, <1>2, <1>3 DEF TypeOK
  <2> QED BY <2>1, <2>2, <1>1, <1>4
<1> QED BY <1>3, <1>5, <1>6, <1>7, DepartKeeps
----------------------------------------------------------------------------
(* The invariant through reads, requests and stops *)

\* Objects stay, and a new one has an empty queue and the turns of a snapshot.
Grown ==
    /\ meeting' \in Seq(Object) /\ active' \in 0..Len(meeting')
    /\ \A m \in Objects : m \in 1..Len(meeting') /\ meeting'[m] = meeting[m]
    /\ \A m \in 1..Len(meeting') : m \in Objects \/ Old(meeting'[m].turns)
    /\ Lines(meeting') = Lines(meeting) \/ Lines(meeting') = Append(Lines(meeting), <<>>)

LEMMA AppendGrows ==
    ASSUME TypeOK, NEW object \in Object, object.queue = <<>>, Old(object.turns),
           meeting' = Append(meeting, object), active' = Len(meeting) + 1
    PROVE  Grown /\ Len(meeting') = Len(meeting) + 1 /\ meeting'[Len(meeting) + 1] = object
           /\ \A m \in 1..Len(meeting') : m \in Objects \/ m = Len(meeting) + 1
<1>1. meeting \in Seq(Object) /\ Len(meeting) \in Nat
  BY SavedFacts DEF TypeOK
<1>2. /\ meeting' \in Seq(Object) /\ Len(meeting') = Len(meeting) + 1
      /\ \A m \in 1..Len(meeting) : meeting'[m] = meeting[m]
      /\ meeting'[Len(meeting) + 1] = object
  BY <1>1, AppendProperties
<1>3. /\ active' \in 0..Len(meeting') /\ \A m \in Objects : m \in 1..Len(meeting')
      /\ \A m \in 1..Len(meeting') : m \in Objects \/ m = Len(meeting) + 1
  BY <1>1, <1>2, SMT DEF Objects
<1>4. Lines(meeting') = Append(Lines(meeting), <<>>)
  <2> DEFINE lines == Lines(meeting)
             more == Append(lines, <<>>)
  <2>1. <<>> \in Seq(Commands)
    BY EmptySeq
  <2>2. lines \in Seq(Seq(Commands)) /\ Len(lines) = Len(meeting)
    BY <1>1, LinesFacts
  <2>3. /\ more \in Seq(Seq(Commands)) /\ Len(more) = Len(lines) + 1
        /\ \A m \in 1..Len(lines) : more[m] = lines[m]
        /\ more[Len(lines) + 1] = <<>>
    BY <2>1, <2>2, AppendProperties
  <2>4. ASSUME NEW m \in 1..Len(meeting')
        PROVE  Lines(meeting')[m] = more[m]
    <3>1. CASE m \in 1..Len(meeting)
      BY <3>1, <2>2, <2>3, <1>1, <1>2, LinesFacts
    <3>2. CASE m = Len(meeting) + 1
      BY <3>2, <2>2, <2>3, <1>2, LinesFacts
    <3> QED BY <3>1, <3>2, <1>3 DEF Objects
  <2>5. Lines(meeting') \in Seq(Seq(Commands)) /\ Len(Lines(meeting')) = Len(meeting')
    BY <1>2, LinesFacts
  <2> QED BY <2>2, <2>3, <2>4, <2>5, <1>2, SeqEqual
<1> QED BY <1>2, <1>3, <1>4 DEF Grown, Objects

LEMMA RestoreGrows ==
    ASSUME TypeOK, NEW s \in Sessions, Restore(s)
    PROVE  Grown /\ cached' \in [Sessions -> State] /\ minuted' \in SUBSET Sessions
<1>1. saved[s] \in State /\ saved[s].turns \in Seq(Turn) /\ saved[s].stop \in BOOLEAN
  BY SavedFacts DEF State
<1>2. cached' \in [Sessions -> State] /\ minuted' \in SUBSET Sessions
  BY <1>1 DEF Restore, TypeOK
<1>3. Grown
  <2>1. CASE IsOpen(saved[s]) /\ active = 0
    <3>1. meeting' = Append(meeting, NewObject(s, saved[s])) /\ active' = Len(meeting) + 1
      BY <2>1 DEF Restore
    <3>2. /\ NewObject(s, saved[s]) \in Object /\ NewObject(s, saved[s]).queue = <<>>
          /\ Old(NewObject(s, saved[s]).turns)
      BY <1>1, SavedFacts DEF NewObject, Object, Old
    <3> QED BY <3>1, <3>2, AppendGrows
  <2>2. CASE ~(IsOpen(saved[s]) /\ active = 0)
    BY <2>2 DEF Restore, Grown, TypeOK, Objects
  <2> QED BY <2>1, <2>2
<1> QED BY <1>2, <1>3

LEMMA ReadStateGrows ==
    ASSUME TypeOK, NEW s \in Sessions, ReadState(s)
    PROVE  Grown /\ cached' \in [Sessions -> State] /\ minuted' \in SUBSET Sessions
<1>1. CASE Restore(s)
  BY <1>1, RestoreGrows
<1>2. CASE UNCHANGED memory
  BY <1>2 DEF memory, Grown, TypeOK, Objects
<1> QED BY <1>1, <1>2 DEF ReadState

\* What a step keeps that only adds objects and starts no speech.
LEMMA GrownKeeps ==
    ASSUME IInv, Grown, UNCHANGED <<output, faults>>,
           Orderly(Lines(meeting), command', tasks'),
           \A c \in Commands : command'[c] = command[c]
                               \/ (command[c].at \notin Settled /\ command'[c].at = "created"),
           \A s \in Sessions : Old(saved'[s].turns)
    PROVE  Orderly(Lines(meeting'), command', tasks') /\ (\A c \in Commands : Called(c)') /\ AllTell'
<1>1. Orderly(Lines(meeting'), command', tasks')
  <2>1. Lines(meeting) \in Seq(Seq(Commands))
    BY LinesFacts DEF IInv, TypeOK
  <2>2. Orderly(Append(Lines(meeting), <<>>), command', tasks')
    BY <2>1, Opens
  <2> QED BY <2>2 DEF Grown
<1>2. ASSUME NEW c \in Commands
      PROVE  Called(c)'
  <2>1. SUFFICES ASSUME command'[c].at = "calling"
                 PROVE  output'[c] = "running"
                        /\ Len(meeting'[command'[c].object].turns) < MaxTurns
    BY DEF Called
  <2>2. command'[c] = command[c] /\ Called(c)
    BY <2>1 DEF IInv
  <2>3. command[c].object \in Objects
    <3>1. Placed(Lines(meeting), command, tasks, c)
      BY DEF IInv, Orderly
    <3> QED BY <3>1, <2>1, <2>2, LinesFacts DEF Placed, IInv, TypeOK, Objects
  <2> QED BY <2>1, <2>2, <2>3 DEF Called, Grown
<1>3. AllTell'
  <2>1. \A c \in Commands : command[c].at \in Settled => command'[c].at \in Settled
    OBVIOUS
  <2>2. \A m \in 1..Len(meeting') : Old(meeting'[m].turns)
    <3>1. \A m \in Objects : Old(meeting'[m].turns)
      BY DEF Grown, Old
    <3> QED BY <3>1 DEF Grown
  <2> QED BY <2>1, <2>2, AllTellKept DEF IInv
<1> QED BY <1>1, <1>2, <1>3

\* A read: nothing but the memory changes.
LEMMA ReadKeeps ==
    ASSUME IInv, Grown, cached' \in [Sessions -> State], minuted' \in SUBSET Sessions,
           UNCHANGED <<stored, command, tasks, budget>>
    PROVE  IInv'
<1>1. TypeOK'
  BY DEF IInv, TypeOK, Grown, stored, budget
<1>2. Orderly(Lines(meeting), command', tasks') /\ \A s \in Sessions : Old(saved'[s].turns)
  BY DEF IInv, Old, stored
<1>3. UNCHANGED <<output, faults>> /\ \A c \in Commands : command'[c] = command[c]
  BY DEF stored, budget
<1>4. Orderly(Lines(meeting'), command', tasks') /\ (\A c \in Commands : Called(c)') /\ AllTell'
  BY <1>2, <1>3, GrownKeeps
<1> QED BY <1>1, <1>4 DEF IInv

LEMMA StartKeeps ==
    ASSUME IInv, NEW s \in Sessions, Start(s)
    PROVE  IInv'
<1> DEFINE object == NewObject(s, Unknown)
           state  == StateOf(object, "running")
<1>1. TypeOK
  BY DEF IInv
<1>2. object \in Object /\ object.queue = <<>> /\ object.turns = <<>> /\ Old(object.turns)
  BY <1>1, SavedFacts DEF NewObject, Object, Unknown, Old
<1>3. state \in State /\ state.turns = <<>>
  BY <1>2 DEF StateOf, State, Object, OpenStatuses
<1>4. /\ meeting' = Append(meeting, object) /\ active' = Len(meeting) + 1
      /\ saved' = [saved EXCEPT ![s] = state] /\ latest' = s
      /\ cached' = [cached EXCEPT ![s] = state]
      /\ UNCHANGED <<output, minuted, command, tasks, stops, faults>>
  BY DEF Start, Save, budget
<1> HIDE DEF object, state
<1>5. Grown
  BY <1>1, <1>2, <1>4, AppendGrows
<1>6. TypeOK'
  BY <1>1, <1>3, <1>4, <1>5 DEF TypeOK, Grown
<1>7. \A t \in Sessions : Old(saved'[t].turns)
  BY <1>1, <1>3, <1>4 DEF Old, TypeOK
<1>8. Orderly(Lines(meeting), command', tasks')
  BY <1>4 DEF IInv
<1>9. Orderly(Lines(meeting'), command', tasks') /\ (\A c \in Commands : Called(c)') /\ AllTell'
  BY <1>4, <1>5, <1>7, <1>8, GrownKeeps
<1> QED BY <1>6, <1>9 DEF IInv

\* The new command as Send records it.
LEMMA SendFacts ==
    ASSUME TypeOK, NEW c \in Commands, NEW s \in Sessions, NEW kind \in Kinds, Send(c, s, kind)
    PROVE  /\ command[c].at = "unsent" /\ command' \in [Commands -> Command]
           /\ command'[c].at = "created" /\ command'[c].kind = kind /\ command'[c].session = s
           /\ \A d \in Commands : d # c => command'[d] = command[d]
           /\ tasks' = Append(tasks, c) /\ tasks' \in Seq(Commands)
<1>1. [kind |-> kind, session |-> s, object |-> 0, at |-> "created"] \in Command
  BY SMT DEF Command, Pending
<1>2. tasks' = Append(tasks, c) /\ tasks' \in Seq(Commands)
  BY AppendProperties DEF Send, TypeOK
<1> QED BY <1>1, <1>2 DEF Send, TypeOK

LEMMA SendKeeps ==
    ASSUME IInv, NEW c \in Commands, NEW s \in Sessions, NEW kind \in Kinds, Send(c, s, kind)
    PROVE  IInv'
<1>1. TypeOK
  BY DEF IInv
<1>2. /\ command[c].at = "unsent" /\ command' \in [Commands -> Command]
      /\ command'[c].at = "created" /\ command'[c].kind = kind
      /\ \A d \in Commands : d # c => command'[d] = command[d]
      /\ tasks' = Append(tasks, c) /\ tasks' \in Seq(Commands)
  BY <1>1, SendFacts
<1>3. Grown /\ cached' \in [Sessions -> State] /\ minuted' \in SUBSET Sessions
  BY <1>1, ReadStateGrows DEF Send
<1>4. UNCHANGED <<saved, latest, output, stops, faults>>
  BY DEF Send, stored, budget
<1>5. TypeOK'
  BY <1>1, <1>2, <1>3, <1>4 DEF TypeOK, Grown
<1>6. Orderly(Lines(meeting), command', tasks')
  <2>1. Lines(meeting) \in Seq(Seq(Commands)) /\ tasks \in Seq(Commands)
    BY <1>1, LinesFacts DEF TypeOK
  <2> QED BY <2>1, <1>2, Arrives DEF IInv
<1>7. \A t \in Sessions : Old(saved'[t].turns)
  BY <1>4 DEF Old
<1>8. \A d \in Commands : command'[d] = command[d]
                          \/ (command[d].at \notin Settled /\ command'[d].at = "created")
  BY <1>2 DEF Settled
<1>9. Orderly(Lines(meeting'), command', tasks') /\ (\A d \in Commands : Called(d)') /\ AllTell'
  BY <1>3, <1>4, <1>6, <1>7, <1>8, GrownKeeps
<1> QED BY <1>5, <1>9 DEF IInv
----------------------------------------------------------------------------
(* The invariant through the event loop's steps and the stops *)

LEMMA StartTaskCases ==
    ASSUME StartTask, NEW c, c = Head(tasks)
    PROVE  /\ tasks # <<>> /\ tasks' = Tail(tasks)
           /\ \/ /\ command[c].kind = "blank" \/ active = 0
                 /\ command' = At(c, "done")
                 /\ UNCHANGED <<stored, memory, budget>>
              \/ /\ active # 0 /\ meeting[active].queue = <<>>
                 /\ \/ command[c].kind = "speak" /\ EnterSpeak(c, active, Queued(c))
                    \/ command[c].kind # "speak" /\ EnterFinish(c, active, Queued(c), Caches(c))
              \/ /\ active # 0 /\ meeting[active].queue # <<>>
                 /\ meeting' = Queued(c) /\ cached' = Caches(c)
                 /\ command' = Put(c, "waiting", active)
                 /\ UNCHANGED <<stored, active, minuted, budget>>
BY DEF StartTask

LEMMA QueuedFacts ==
    ASSUME TypeOK, active # 0, NEW c \in Commands
    PROVE  /\ active \in Objects /\ Queued(c) \in Seq(Object) /\ Len(Queued(c)) = Len(meeting)
           /\ \A k \in Objects :
                 /\ Queued(c)[k].turns = meeting[k].turns
                 /\ Queued(c)[k].session = meeting[k].session
                 /\ Queued(c)[k].stop = (meeting[k].stop
                                         \/ (k = active /\ command[c].kind = "stop"))
           /\ Queued(c)[active].queue = Append(meeting[active].queue, c)
           /\ Relined(Lines(meeting), Lines(Queued(c)), active, Append(Lines(meeting)[active], c))
           /\ Caches(c) \in [Sessions -> State]
<1> DEFINE m == active
           marked == IF command[c].kind = "stop" THEN [meeting[m] EXCEPT !.stop = TRUE]
                                                 ELSE meeting[m]
           object == [marked EXCEPT !.queue = Append(@, c)]
<1>1. meeting \in Seq(Object) /\ m \in Objects /\ meeting[m] \in Object
  <2>1. m \in Objects
    BY SavedFacts, SMT DEF TypeOK, Objects
  <2> QED BY <2>1, SavedFacts DEF TypeOK
<1>2. /\ marked \in Object /\ marked.queue = meeting[m].queue /\ marked.turns = meeting[m].turns
      /\ marked.session = meeting[m].session /\ marked.session \in Sessions
      /\ marked.stop = (meeting[m].stop \/ command[c].kind = "stop")
      /\ marked.turns \in Seq(Turn) /\ marked.stop \in BOOLEAN /\ marked.queue \in Seq(Commands)
  <2>1. CASE command[c].kind = "stop"
    BY <2>1, <1>1 DEF Object
  <2>2. CASE command[c].kind # "stop"
    BY <2>2, <1>1 DEF Object
  <2> QED BY <2>1, <2>2
<1>3. Append(marked.queue, c) \in Seq(Commands)
  BY <1>2, AppendProperties
<1>4. /\ object \in Object /\ object.queue = Append(meeting[m].queue, c)
      /\ object.turns = meeting[m].turns /\ object.session = meeting[m].session
      /\ object.stop = (meeting[m].stop \/ command[c].kind = "stop")
  BY <1>2, <1>3 DEF Object
<1>5. Marked(c) \in Seq(Object) /\ Marked(c)[m] = marked /\ Queued(c) = [meeting EXCEPT ![m] = object]
  <2>1. meeting \in [1..Len(meeting) -> Object]
    BY <1>1, LenProperties
  <2>2. Marked(c) = [meeting EXCEPT ![m] = marked]
    BY <2>1, <1>1 DEF Marked, Objects
  <2> HIDE DEF marked
  <2>3. Marked(c) \in Seq(Object) /\ Marked(c)[m] = marked
    BY <2>2, <1>1, <1>2, ReplaceFacts DEF Objects
  <2> USE DEF marked
  <2>4. Queued(c) = [Marked(c) EXCEPT ![m] = object]
    BY <2>3 DEF Queued
  <2> HIDE DEF marked, object
  <2>5. [[meeting EXCEPT ![m] = marked] EXCEPT ![m] = object] = [meeting EXCEPT ![m] = object]
    BY <2>1, <1>1 DEF Objects
  <2> QED BY <2>2, <2>3, <2>4, <2>5
<1>6. Caches(c) \in [Sessions -> State]
  <2>1. StateOf(marked, "stop_requested") \in State
    BY <1>2 DEF StateOf, State, OpenStatuses
  <2> QED BY <2>1, <1>2, <1>5 DEF Caches, TypeOK
<1> HIDE DEF marked, object
<1>7. /\ Queued(c) \in Seq(Object) /\ Len(Queued(c)) = Len(meeting)
      /\ Queued(c)[m] = object
      /\ \A k \in 1..Len(meeting) : k # m => Queued(c)[k] = meeting[k]
      /\ Relined(Lines(meeting), Lines(Queued(c)), m, object.queue)
  BY <1>1, <1>4, <1>5, ReplaceFacts DEF Objects
<1>8. Lines(meeting)[m] = meeting[m].queue
  BY <1>1, LinesFacts DEF Objects
<1>9. \A k \in Objects :
          /\ Queued(c)[k].turns = meeting[k].turns
          /\ Queued(c)[k].session = meeting[k].session
          /\ Queued(c)[k].stop = (meeting[k].stop \/ (k = active /\ command[c].kind = "stop"))
  <2>1. ASSUME NEW k \in Objects
        PROVE  /\ Queued(c)[k].turns = meeting[k].turns
               /\ Queued(c)[k].session = meeting[k].session
               /\ Queued(c)[k].stop = (meeting[k].stop \/ (k = active /\ command[c].kind = "stop"))
    <3>1. CASE k = m
      BY <3>1, <1>4, <1>5, <1>7
    <3>2. CASE k # m
      <4>1. meeting[k].stop \in BOOLEAN
        BY SavedFacts DEF Object
      <4> QED BY <3>2, <4>1, <1>5, <1>7 DEF Objects
    <3> QED BY <3>1, <3>2
  <2> QED BY <2>1
<1> QED BY <1>1, <1>4, <1>5, <1>6, <1>7, <1>8, <1>9

\* The command at the head of the tasks joins the active object's queue.
LEMMA TaskJoins ==
    ASSUME IInv, StartTask, active # 0, NEW c, c = Head(tasks)
    PROVE  /\ c \in Commands /\ command[c].at = "created"
           /\ Put(c, "waiting", active) \in [Commands -> Command]
           /\ Moved(command, Put(c, "waiting", active), c, "waiting", active)
           /\ tasks' \in Seq(Commands)
           /\ Orderly(Lines(Queued(c)), Put(c, "waiting", active), tasks')
<1>1. TypeOK /\ tasks \in Seq(Commands) /\ tasks # <<>> /\ tasks' = Tail(tasks)
  BY StartTaskCases DEF IInv, TypeOK
<1>2. c \in Commands /\ tasks' \in Seq(Commands) /\ command[c].at = "created"
  <2>1. /\ c \in Commands /\ tasks' \in Seq(Commands) /\ c = tasks[1]
        /\ Len(tasks) \in Nat /\ Len(tasks) > 0
    BY <1>1, SequenceFacts, SMT
  <2>2. InTasks(tasks, command, 1)
    <3>1. 1 \in 1..Len(tasks)
      BY <2>1, SMT
    <3> QED BY <3>1 DEF IInv, Orderly
  <2> QED BY <2>1, <2>2 DEF InTasks
<1>3. /\ active \in Objects /\ active \in Nat /\ Queued(c) \in Seq(Object)
      /\ Relined(Lines(meeting), Lines(Queued(c)), active, Append(Lines(meeting)[active], c))
  <2>1. \A n \in Objects : n \in Nat
    BY SMT DEF Objects
  <2> QED BY <2>1, <1>1, <1>2, QueuedFacts
<1>4. /\ Put(c, "waiting", active) \in [Commands -> Command]
      /\ Moved(command, Put(c, "waiting", active), c, "waiting", active)
  BY <1>1, <1>2, <1>3, PlaceFacts DEF TypeOK, Put
<1>5. /\ Lines(meeting) \in Seq(Seq(Commands)) /\ Lines(Queued(c)) \in Seq(Seq(Commands))
      /\ active \in 1..Len(Lines(meeting))
  BY <1>1, <1>3, LinesFacts DEF TypeOK, Objects
<1>6. Orderly(Lines(meeting), command, tasks)
  BY DEF IInv
<1>7. Orderly(Lines(Queued(c)), Put(c, "waiting", active), Tail(tasks))
  BY <1>1, <1>3, <1>4, <1>5, <1>6, Joins
<1> QED BY <1>1, <1>2, <1>4, <1>7

\* If the queue was empty it has the lock.
LEMMA TaskIsSeated ==
    ASSUME IInv, StartTask, active # 0, meeting[active].queue = <<>>, NEW c, c = Head(tasks)
    PROVE  Seated(c, active, Queued(c), Put(c, "waiting", active))
<1>1. /\ c \in Commands /\ command[c].at = "created"
      /\ Put(c, "waiting", active) \in [Commands -> Command]
      /\ Moved(command, Put(c, "waiting", active), c, "waiting", active)
      /\ tasks' \in Seq(Commands)
      /\ Orderly(Lines(Queued(c)), Put(c, "waiting", active), tasks')
  BY TaskJoins
<1>2. /\ active \in Objects /\ Queued(c) \in Seq(Object) /\ Len(Queued(c)) = Len(meeting)
      /\ \A k \in Objects :
            /\ Queued(c)[k].turns = meeting[k].turns
            /\ Queued(c)[k].session = meeting[k].session
      /\ Queued(c)[active].queue = Append(meeting[active].queue, c)
  BY <1>1, QueuedFacts DEF IInv
<1>3. Append(<<>>, c) # <<>> /\ Head(Append(<<>>, c)) = c
  <2>1. <<>> \in Seq(Commands)
    BY EmptySeq
  <2> QED BY <2>1, <1>1, AppendProperties, HeadTailAppend
<1> QED BY <1>1, <1>2, <1>3 DEF Seated, Objects, Pending, Moved

LEMMA StartTaskKeeps ==
    ASSUME IInv, StartTask
    PROVE  IInv'
<1> DEFINE c == Head(tasks)
<1>0. TypeOK /\ tasks \in Seq(Commands) /\ tasks # <<>> /\ tasks' = Tail(tasks)
  BY StartTaskCases DEF IInv, TypeOK
<1>1. c \in Commands /\ command[c].at = "created" /\ tasks' \in Seq(Commands)
  <2>1. /\ c \in Commands /\ tasks' \in Seq(Commands) /\ c = tasks[1]
        /\ Len(tasks) \in Nat /\ Len(tasks) > 0
    BY <1>0, SequenceFacts, SMT
  <2>2. InTasks(tasks, command, 1)
    <3>1. 1 \in 1..Len(tasks)
      BY <2>1, SMT
    <3> QED BY <3>1 DEF IInv, Orderly
  <2> QED BY <2>1, <2>2 DEF InTasks
<1>2. CASE command' = At(c, "done") /\ UNCHANGED <<stored, memory, budget>>
  <2>1. command' = [command EXCEPT ![c].at = "done"] /\ UNCHANGED <<stored, memory, budget>>
    BY <1>2 DEF At
  <2> HIDE DEF c
  <2>2. /\ command' \in [Commands -> Command] /\ command'[c].at = "done"
        /\ \A d \in Commands : d # c => command'[d] = command[d]
    BY <2>1, <1>0, <1>1 DEF TypeOK, Command
  <2>3. TypeOK'
    BY <2>1, <2>2, <1>0, <1>1 DEF TypeOK, stored, memory, budget
  <2>4. Orderly(Lines(meeting'), command', tasks')
    <3>1. Lines(meeting) \in Seq(Seq(Commands)) /\ c = Head(tasks)
      BY <1>0, LinesFacts DEF TypeOK, c
    <3>2. Orderly(Lines(meeting), command', Tail(tasks))
      BY <2>2, <3>1, <1>0, GivesUp DEF IInv
    <3> QED BY <3>2, <2>1, <1>0 DEF memory
  <2>5. \A d \in Commands : Called(d)'
    BY <2>1, <2>2 DEF IInv, Called, stored, memory
  <2>6. AllTell'
    <3>1. \A d \in Commands : command[d].at \in Settled => command'[d].at \in Settled
      BY <2>2, <1>1 DEF Settled
    <3>2. /\ \A s \in Sessions : Old(saved'[s].turns)
          /\ \A m \in 1..Len(meeting') : Old(meeting'[m].turns)
      BY <2>1 DEF Old, stored, memory, Objects
    <3>3. output' = output /\ faults' = faults
      BY <2>1 DEF stored, budget
    <3> QED BY <3>1, <3>2, <3>3, <1>0, AllTellKept DEF IInv
  <2> QED BY <2>3, <2>4, <2>5, <2>6 DEF IInv
<1>3. CASE /\ active # 0 /\ meeting[active].queue = <<>>
           /\ EnterSpeak(c, active, Queued(c)) \/ EnterFinish(c, active, Queued(c), Caches(c))
  <2>1. Seated(c, active, Queued(c), Put(c, "waiting", active))
    BY <1>3, TaskIsSeated
  <2>2. Caches(c) \in [Sessions -> State]
    BY <1>0, <1>1, <1>3, QueuedFacts
  <2> HIDE DEF c
  <2> QED BY <1>3, <2>1, <2>2, EnterSpeakKeeps, EnterFinishKeeps
<1>4. CASE /\ active # 0 /\ meeting' = Queued(c) /\ cached' = Caches(c)
           /\ command' = Put(c, "waiting", active)
           /\ UNCHANGED <<stored, active, minuted, budget>>
  <2>1. /\ meeting' = Queued(c) /\ cached' = Caches(c) /\ command' = Put(c, "waiting", active)
        /\ UNCHANGED <<saved, latest, output, active, minuted, stops, faults>>
    BY <1>4 DEF stored, budget
  <2>2. /\ command' \in [Commands -> Command] /\ Moved(command, command', c, "waiting", active)
        /\ Orderly(Lines(meeting'), command', tasks')
    BY <2>1, <1>4, TaskJoins
  <2>3. /\ Queued(c) \in Seq(Object) /\ Len(Queued(c)) = Len(meeting)
        /\ \A k \in Objects : Queued(c)[k].turns = meeting[k].turns
        /\ Caches(c) \in [Sessions -> State]
    BY <1>0, <1>1, <1>4, QueuedFacts
  <2> HIDE DEF c
  <2>4. TypeOK'
    BY <2>1, <2>2, <2>3, <1>0, <1>1 DEF TypeOK
  <2>5. ASSUME NEW d \in Commands
        PROVE  Called(d)'
    <3>1. CASE d = c
      BY <3>1, <2>2 DEF Called, Moved
    <3>2. CASE d # c
      <4>1. command'[d] = command[d] /\ Called(d)
        BY <3>2, <2>2 DEF Moved, IInv
      <4>2. command[d].at = "calling" => command[d].object \in Objects
        <5>1. Placed(Lines(meeting), command, tasks, d)
          BY DEF IInv, Orderly
        <5> QED BY <5>1, <1>0, LinesFacts DEF Placed, TypeOK, Objects
      <4> QED BY <4>1, <4>2, <2>1, <2>3 DEF Called
    <3> QED BY <3>1, <3>2
  <2>6. AllTell'
    <3>1. \A d \in Commands : command[d].at \in Settled => command'[d].at \in Settled
      BY <2>2, <1>1 DEF Settled, Moved
    <3>2. /\ \A s \in Sessions : Old(saved'[s].turns)
          /\ \A m \in 1..Len(meeting') : Old(meeting'[m].turns)
      BY <2>1, <2>3 DEF Old, Objects
    <3> QED BY <2>1, <3>1, <3>2, <1>0, AllTellKept DEF IInv
  <2> QED BY <2>2, <2>4, <2>5, <2>6 DEF IInv
<1> QED BY <1>2, <1>3, <1>4, StartTaskCases
\* Whoever is at the head of a queue is seated.
LEMMA HeadIsSeated ==
    ASSUME IInv, NEW m \in Objects, meeting[m].queue # <<>>, NEW c, c = Head(meeting[m].queue),
           UNCHANGED tasks
    PROVE  Seated(c, m, meeting, command)
<1>1. /\ meeting \in Seq(Object) /\ meeting[m].queue \in Seq(Commands) /\ tasks' \in Seq(Commands)
      /\ command \in [Commands -> Command]
  BY SavedFacts DEF IInv, TypeOK, Object
<1>2. /\ c \in Commands /\ c = meeting[m].queue[1] /\ 1 \in 1..Len(meeting[m].queue)
  <2>1. Len(meeting[m].queue) \in Nat /\ Len(meeting[m].queue) > 0 /\ c = meeting[m].queue[1]
    BY <1>1, SequenceFacts
  <2>2. 1 \in 1..Len(meeting[m].queue)
    BY <2>1, SMT
  <2> QED BY <2>1, <2>2, <1>1, SequenceFacts
<1>3. InLine(Lines(meeting)[m], command, m, 1) /\ Lines(meeting)[m] = meeting[m].queue
  BY <1>1, <1>2, LinesFacts DEF IInv, Orderly, Objects
<1>4. command[c].object = m /\ command[c].at \in Pending
  BY <1>2, <1>3 DEF InLine, Pending
<1>5. Orderly(Lines(meeting), command, tasks')
  BY DEF IInv
<1> QED BY <1>1, <1>2, <1>4, <1>5 DEF Seated, Moved, Objects

\* A caller is at the head of its object's queue.
LEMMA CallerAtHead ==
    ASSUME IInv, NEW c \in Commands, command[c].at = "calling"
    PROVE  LET m == command[c].object IN
           m \in Objects /\ meeting[m].queue # <<>> /\ c = Head(meeting[m].queue)
<1> DEFINE m == command[c].object
           q == meeting[m].queue
<1>1. Placed(Lines(meeting), command, tasks, c)
  BY DEF IInv, Orderly
<1>2. m \in Objects /\ Lines(meeting)[m] = q /\ q \in Seq(Commands)
  <2>1. m \in Objects
    BY <1>1, LinesFacts DEF Placed, IInv, TypeOK, Objects
  <2> QED BY <2>1, SavedFacts, LinesFacts DEF IInv, TypeOK, Object, Objects
<1>3. PICK i \in 1..Len(q) : q[i] = c
  BY <1>1, <1>2 DEF Placed, Occurs
<1>4. InLine(q, command, m, i)
  <2>1. m \in 1..Len(Lines(meeting))
    BY <1>1 DEF Placed
  <2> QED BY <2>1, <1>2 DEF IInv, Orderly
<1>5. ~(i > 1)
  BY <1>3, <1>4 DEF InLine
<1>6. Len(q) \in Nat /\ i = 1 /\ q # <<>>
  <2>1. Len(q) \in Nat
    BY <1>2, SequenceFacts
  <2>2. Len(q) > 0 /\ i = 1
    BY <2>1, <1>3, <1>5, SMT
  <2>3. q # <<>>
    <3>1. Len(<<>>) = 0
      BY EmptySeq
    <3> QED BY <3>1, <2>2, SMT
  <2> QED BY <2>1, <2>2, <2>3
<1>7. c = Head(q)
  BY <1>2, <1>3, <1>6, SequenceFacts
<1> QED BY <1>2, <1>6, <1>7

LEMMA CallerIsSeated ==
    ASSUME IInv, NEW c \in Commands, command[c].at = "calling", UNCHANGED tasks
    PROVE  Seated(c, command[c].object, meeting, command)
<1> DEFINE m == command[c].object
<1>1. m \in Objects /\ meeting[m].queue # <<>> /\ c = Head(meeting[m].queue)
  BY CallerAtHead
<1> HIDE DEF m
<1>2. Seated(c, m, meeting, command)
  BY <1>1, HeadIsSeated
<1> QED BY <1>2 DEF m

LEMMA WakeKeeps ==
    ASSUME IInv, NEW m \in Objects, Wake(m)
    PROVE  IInv'
<1>1. Seated(Head(meeting[m].queue), m, meeting, command)
  BY HeadIsSeated DEF Wake
<1>2. \/ EnterSpeak(Head(meeting[m].queue), m, meeting)
      \/ EnterFinish(Head(meeting[m].queue), m, meeting, cached)
  BY DEF Wake
<1>3. cached \in [Sessions -> State]
  BY DEF IInv, TypeOK
<1> QED BY <1>1, <1>2, <1>3, EnterSpeakKeeps, EnterFinishKeeps

LEMMA ReturnKeeps ==
    ASSUME IInv, NEW c \in Commands, Return(c)
    PROVE  IInv'
<1> DEFINE m == command[c].object
<1>1. command[c].at = "calling" /\ UNCHANGED tasks /\ Answer(c, m, meeting)
  BY DEF Return
<1>2. Seated(c, m, meeting, command)
  BY <1>1, CallerIsSeated
<1>3. Len(meeting[m].turns) < MaxTurns
  BY <1>1 DEF IInv, Called
<1> HIDE DEF m
<1> QED BY <1>1, <1>2, <1>3, AnswerKeeps

\* The memory and the commands under way are lost; an output may be closed.
LEMMA ForgetKeeps ==
    ASSUME IInv, Forget, UNCHANGED <<saved, latest, faults>>, stops' \in Nat,
           output' \in [Commands -> {"absent", "running", "completed", "failed"}],
           \A c \in Commands : command[c].at \in Settled => output'[c] = output[c]
    PROVE  IInv'
<1>1. TypeOK /\ meeting' = <<>> /\ tasks' = <<>> /\ command' = Lost
  BY DEF IInv, Forget
<1>2. ASSUME NEW c \in Commands
      PROVE  /\ Lost[c] \in Command /\ Lost[c].at \notin Pending
             /\ command[c].at \in Settled => Lost[c].at \in Settled
  <2>1. command[c] \in Command
    BY <1>1 DEF TypeOK
  <2>2. 0 \in Nat
    BY SMT
  <2>3. CASE command[c].at \in Pending
    <3>1. Lost[c] = [command[c] EXCEPT !.at = "lost", !.object = 0]
      BY <2>3 DEF Lost
    <3>2. Lost[c] \in Command /\ Lost[c].at = "lost"
      BY <2>1, <2>2, <3>1 DEF Command
    <3> QED BY <3>2 DEF Settled, Pending
  <2>4. CASE command[c].at \notin Pending
    <3>1. Lost[c] = [command[c] EXCEPT !.object = 0]
      BY <2>4 DEF Lost
    <3>2. Lost[c] \in Command /\ Lost[c].at = command[c].at
      BY <2>1, <2>2, <3>1 DEF Command
    <3> QED BY <3>2, <2>4
  <2> QED BY <2>3, <2>4
<1>3. command' \in [Commands -> Command]
  BY <1>1, <1>2 DEF Lost
<1>4. Len(meeting') = 0 /\ Len(tasks') = 0 /\ \A i \in 1..0 : FALSE
  BY <1>1, EmptySeq, SMT
<1>5. TypeOK'
  <2>1. active' \in 0..Len(meeting')
    BY <1>4, SMT DEF Forget
  <2>2. meeting' \in Seq(Object) /\ tasks' \in Seq(Commands)
    BY <1>1, EmptySeq
  <2>3. cached' \in [Sessions -> State] /\ minuted' \in SUBSET Sessions
    BY <1>1, SavedFacts DEF Forget
  <2> QED BY <2>1, <2>2, <2>3, <1>1, <1>3 DEF TypeOK
<1>6. Orderly(Lines(meeting'), command', tasks')
  <2>1. Len(Lines(meeting')) = 0
    <3>1. meeting' \in Seq(Object)
      BY <1>1, EmptySeq
    <3> QED BY <3>1, <1>4, LinesFacts
  <2>2. \A c \in Commands : Placed(Lines(meeting'), command', tasks', c)
    BY <1>1, <1>2 DEF Placed, Pending
  <2> QED BY <2>1, <2>2, <1>4 DEF Orderly
<1>7. \A c \in Commands : Called(c)'
  BY <1>1, <1>2 DEF Called, Pending
<1>8. AllTell'
  <2>1. \A s \in Sessions : Old(saved'[s].turns)
    BY DEF Old
  <2>2. \A m \in 1..Len(meeting') : Old(meeting'[m].turns)
    BY <1>4
  <2>3. \A c \in Commands : command[c].at \in Settled =>
            command'[c].at \in Settled /\ output'[c] = output[c]
    BY <1>1, <1>2
  <2> QED BY <2>1, <2>2, <2>3, <1>1, AllTellKept DEF IInv
<1> QED BY <1>5, <1>6, <1>7, <1>8 DEF IInv

LEMMA CrashKeeps ==
    ASSUME IInv, \/ Crash
                 \/ \E c \in Commands, ok \in BOOLEAN : CrashInReturn(c, ok)
    PROVE  IInv'
<1>1. stops \in Nat /\ output \in [Commands -> {"absent", "running", "completed", "failed"}]
  BY DEF IInv, TypeOK
<1>2. CASE Crash
  <2>1. Forget /\ stops' = stops + 1 /\ UNCHANGED <<saved, latest, output, faults>>
    BY <1>2 DEF Crash, stored
  <2>2. stops' \in Nat
    BY <2>1, <1>1, SMT
  <2> QED BY <2>1, <2>2, <1>1, ForgetKeeps
<1>3. ASSUME NEW c \in Commands, NEW ok \in BOOLEAN, CrashInReturn(c, ok)
      PROVE  IInv'
  <2>1. /\ Forget /\ stops' = stops + 1 /\ UNCHANGED <<saved, latest, faults>>
        /\ command[c].at = "calling"
        /\ output' = [output EXCEPT ![c] = Outcome(ok)]
    BY <1>3 DEF CrashInReturn
  <2>2. stops' \in Nat
    BY <2>1, <1>1, SMT
  <2>3. output' \in [Commands -> {"absent", "running", "completed", "failed"}]
    BY <2>1, <1>1 DEF Outcome
  <2>4. \A d \in Commands : command[d].at \in Settled => output'[d] = output[d]
    BY <2>1, <1>1 DEF Settled
  <2> QED BY <2>1, <2>2, <2>3, <2>4, ForgetKeeps
<1> QED BY <1>2, <1>3

----------------------------------------------------------------------------
(* Theorems for all clients *)

LEMMA InvariantStarts ==
    ASSUME Init
    PROVE  IInv
<1>1. /\ meeting = <<>> /\ active = 0 /\ tasks = <<>>
      /\ meeting \in Seq(Object) /\ tasks \in Seq(Commands) /\ <<>> \in Seq(Turn)
      /\ Len(meeting) = 0 /\ Len(tasks) = 0 /\ \A i \in 1..0 : FALSE
  BY EmptySeq, SMT DEF Init
<1>2. Unknown \in State /\ Unknown.turns = <<>>
  BY <1>1 DEF Unknown, State
<1>3. \A c \in Commands : command[c].at = "unsent" /\ command[c] \in Command
  <2>1. 0 \in Nat
    BY SMT
  <2> QED BY <2>1 DEF Init, Command, Kinds
<1>4. TypeOK
  <2>1. active \in 0..Len(meeting) /\ stops \in Nat /\ faults \in Nat
    BY <1>1, SMT DEF Init
  <2>2. command \in [Commands -> Command]
    BY <1>3 DEF Init
  <2> QED BY <2>1, <2>2, <1>1, <1>2 DEF Init, TypeOK
<1>5. Orderly(Lines(meeting), command, tasks)
  <2>1. Len(Lines(meeting)) = 0
    BY <1>1, LinesFacts
  <2> QED BY <2>1, <1>1, <1>3 DEF Orderly, Placed
<1>6. AllTell
  <2>1. Tells(<<>>, output, command)
    <3>1. Len(<<>>) = 0 /\ Len(<<>>) <= MaxTurns
      BY CommitteeMeetingAssumption, EmptySeq, SMT
    <3> QED BY <3>1, <1>1 DEF Tells
  <2> QED BY <2>1, <1>1, <1>2 DEF AllTell, Init, Objects
<1> QED BY <1>3, <1>4, <1>5, <1>6 DEF IInv, Called

LEMMA InvariantKept ==
    ASSUME IInv, [Next]_vars
    PROVE  IInv'
<1>1. CASE UNCHANGED vars
  BY <1>1 DEF vars, IInv, TypeOK, Called, AllTell, Objects
<1>2. CASE ReadLatest
  <2>1. latest \in Sessions /\ Restore(latest) /\ UNCHANGED <<stored, command, tasks, budget>>
    BY <1>2 DEF ReadLatest, IInv, TypeOK
  <2> QED BY <2>1, RestoreGrows, ReadKeeps DEF IInv
<1>3. ASSUME NEW s \in Sessions, Start(s) \/ ReadSession(s) \/ ReadMinutes(s)
      PROVE  IInv'
  <2>1. CASE Start(s)
    BY <2>1, StartKeeps
  <2>2. CASE ReadSession(s)
    BY <2>2, ReadStateGrows, ReadKeeps DEF ReadSession, IInv
  <2>3. CASE ReadMinutes(s)
    BY <2>3, RestoreGrows, ReadKeeps DEF ReadMinutes, IInv
  <2> QED BY <2>1, <2>2, <2>3, <1>3
<1>4. ASSUME NEW c \in Commands, NEW s \in Sessions, NEW kind \in Kinds, Send(c, s, kind)
      PROVE  IInv'
  BY <1>4, SendKeeps
<1>5. CASE Progress
  BY <1>5, StartTaskKeeps, WakeKeeps, ReturnKeeps DEF Progress
<1>6. CASE Crash \/ \E c \in Commands, ok \in BOOLEAN : CrashInReturn(c, ok)
  BY <1>6, CrashKeeps
<1> QED BY <1>1, <1>2, <1>3, <1>4, <1>5, <1>6 DEF Next

\* In every reachable state, each command has one place and the turns tell what became
\* of distinct speeches.
THEOREM InvariantHolds == Spec => []IInv
<1>1. Init => IInv
  BY InvariantStarts
<1>2. IInv /\ [Next]_vars => IInv'
  BY InvariantKept
<1> QED BY <1>1, <1>2, PTL DEF Spec

\* The variables of committee_broker.py's model have their types in every state.
THEOREM TypeCorrect == Spec => []TypeOK
BY InvariantHolds, PTL DEF IInv

\* Whatever the clients send and whenever the process stops, the turns of a stored
\* meeting are numbered, within max_turns, and match the outputs of distinct speeches,
\* as long as storage accepts every write.
THEOREM TurnsMatchSpeeches == Spec => []TurnsTellSpeeches
<1>1. IInv => TurnsTellSpeeches
  BY DEF IInv, AllTell, Tells, TurnsTellSpeeches
<1> QED BY <1>1, InvariantHolds, PTL
----------------------------------------------------------------------------
(* Steps of patient clients *)

Records == [s \in Sessions |-> RecordOf(saved[s])]

\* A step of the promised record, or none.
RecordStep == Stored!Next \/ Records' = Records

Follows == PatientInv' /\ RecordStep

LEMMA RecordFacts ==
    \A state : /\ RecordOf(state).turns = state.turns
               /\ IsOpen(state) => RecordOf(state).state = "open"
               /\ IsClosed(state) => RecordOf(state).state = "closed"
               /\ RecordOf(state).state = "open" => IsOpen(state)
               /\ state.status = "none" => RecordOf(state) = [state |-> "none", turns |-> state.turns]
               /\ RecordOf(state) = [state |-> RecordOf(state).state, turns |-> state.turns]
BY DEF RecordOf, IsOpen, IsClosed, OpenStatuses, ClosedStatuses

LEMMA AheadFacts ==
    ASSUME NEW turns \in Seq(Turn)
    PROVE  /\ Ahead(turns, turns)
           /\ \A more, end \in Seq(Turn) : Ahead(turns, more) => Ahead(turns, more \o end)
<1>1. <<>> \in Seq(Turn) /\ turns = turns \o <<>>
  BY SMT
<1>2. ASSUME NEW end \in Seq(Turn), NEW rest \in Seq(Turn)
      PROVE  rest \o end \in Seq(Turn) /\ (turns \o rest) \o end = turns \o (rest \o end)
  BY SMT
<1>3. ASSUME NEW more \in Seq(Turn), NEW end \in Seq(Turn), Ahead(turns, more)
      PROVE  Ahead(turns, more \o end)
  <2>1. PICK rest \in Seq(Turn) : more = turns \o rest
    BY <1>3 DEF Ahead
  <2>2. rest \o end \in Seq(Turn) /\ more \o end = turns \o (rest \o end)
    BY <2>1, <1>2
  <2> QED BY <2>2 DEF Ahead
<1>4. Ahead(turns, turns)
  BY <1>1 DEF Ahead
<1> QED BY <1>3, <1>4

LEMMA PrefixFacts ==
    ASSUME NEW turns \in Seq(Turn), NEW more \in Seq(Turn)
    PROVE  /\ Stored!IsPrefix(turns, turns \o more)
           /\ more # <<>> => Stored!IsStrictPrefix(turns, turns \o more)
<1>1. /\ Len(turns \o more) = Len(turns) + Len(more)
      /\ Len(turns) \in Nat /\ Len(more) \in Nat /\ (more # <<>> => Len(more) > 0)
  BY ConcatProperties, SequenceFacts
<1>2. more # <<>> => turns # turns \o more
  BY <1>1, SMT
<1>3. SubSeq(turns, 1, Len(turns)) = SubSeq(turns \o more, 1, Len(turns))
  BY SMT
<1>4. Len(turns) <= Len(turns \o more)
  BY <1>1, SMT
<1> QED BY <1>2, <1>3, <1>4 DEF Stored!IsStrictPrefix, Stored!IsPrefix

\* A record of which only the state at s changes.
LEMMA StateChanges ==
    ASSUME NEW f, NEW g, NEW s \in Sessions, NEW from, NEW to, NEW turns,
           f = [t \in Sessions |-> f[t]], g = [t \in Sessions |-> g[t]],
           f[s] = [state |-> from, turns |-> turns], g[s] = [state |-> to, turns |-> turns],
           \A t \in Sessions : t # s => g[t] = f[t]
    PROVE  g = [f EXCEPT ![s].state = to]
<1>1. [f[s] EXCEPT !.state = to] = g[s]
  OBVIOUS
<1>2. [f EXCEPT ![s] = [f[s] EXCEPT !.state = to]] = [t \in Sessions |-> IF t = s THEN g[s] ELSE f[t]]
  BY <1>1
<1> QED BY <1>1, <1>2

LEMMA QuietStep ==
    ASSUME UNCHANGED saved
    PROVE  RecordStep
BY DEF RecordStep, Records

\* A command that the step leaves alone stays accounted for when the stored turns are
\* at most added to and the active meeting stays, as far as the command needs one.
LEMMA AccountedStays ==
    ASSUME TypeOK, NEW c \in Commands, Accounted(c),
           command'[c] = command[c], output'[c] = output[c], faults' = 0 => faults = 0,
           \A s \in Sessions : Ahead(saved[s].turns, saved'[s].turns),
           command'[c].at \in Pending => meeting'[active'].session = meeting[active].session
    PROVE  Accounted(c)'
<1>1. command[c].session \in Sessions \cup {NoOne}
  BY DEF TypeOK, Command
<1>2. ASSUME NEW s \in Sessions, Spoken(c, s)
      PROVE  Spoken(c, s)'
  <2>1. PICK i \in 1..Len(saved[s].turns) : saved[s].turns[i].speech = c
    BY <1>2 DEF Spoken
  <2>2. PICK rest \in Seq(Turn) : saved'[s].turns = saved[s].turns \o rest
    BY DEF Ahead
  <2>3. saved[s].turns \in Seq(Turn)
    BY SavedFacts
  <2>4. i \in 1..Len(saved'[s].turns) /\ saved'[s].turns[i] = saved[s].turns[i]
    BY <2>2, <2>3, SMT
  <2> QED BY <2>1, <2>4 DEF Spoken
<1> QED BY <1>1, <1>2 DEF Accounted

\* With no active object nothing is under way.
LEMMA NobodyAround ==
    ASSUME PatientInv, active = 0
    PROVE  \A c \in Commands : command[c].at \notin Pending
BY DEF PatientInv, Courteous

\* A read may revive the open meeting.
LEMMA RestorePatiently ==
    ASSUME IInv, PatientInv, NEW s \in Sessions, Restore(s),
           UNCHANGED <<saved, latest, faults>>
    PROVE  /\ Current'
           /\ active # 0 => meeting' = meeting /\ active' = active
<1>1. TypeOK
  BY DEF IInv
<1>2. cached' = [cached EXCEPT ![s] = saved[s]]
      /\ minuted' = IF IsClosed(saved[s]) THEN minuted \cup {s} ELSE minuted
  BY DEF Restore
<1>3. \A t \in minuted' : IsClosed(saved'[t])
  BY <1>2 DEF PatientInv, Current
<1>4. CASE IsOpen(saved[s]) /\ active = 0
  <2> DEFINE object == NewObject(s, saved[s])
  <2>1. meeting' = Append(meeting, object) /\ active' = Len(meeting) + 1
    BY <1>4 DEF Restore
  <2>2. /\ object \in Object /\ object.queue = <<>> /\ Old(object.turns)
        /\ object.session = s /\ object.turns = saved[s].turns
    BY <1>1, SavedFacts DEF NewObject, Object, Old, State
  <2>3. s = latest
    BY <1>4 DEF PatientInv, Current
  <2> HIDE DEF object
  <2>4. /\ Grown /\ meeting'[Len(meeting) + 1] = object
        /\ \A m \in 1..Len(meeting') : m \in Objects \/ m = Len(meeting) + 1
    BY <1>1, <2>1, <2>2, AppendGrows
  <2>5. active' # 0 /\ \A m \in Objects : m # 0 /\ meeting'[m] = meeting[m]
    <3>1. Len(meeting) \in Nat
      BY <1>1, SavedFacts
    <3>2. active' # 0 /\ \A m \in Objects : m # 0
      BY <2>1, <3>1, SMT DEF Objects
    <3> QED BY <3>2, <2>4 DEF Grown
  <2>6. Current'
    <3>1. /\ meeting'[active'].session = latest' /\ IsOpen(saved'[latest'])
          /\ meeting'[active'].turns = saved'[latest'].turns
          /\ Ahead(saved'[latest'].turns, meeting'[active'].turns)
      <4>1. Ahead(saved[s].turns, saved[s].turns)
        BY <1>1, SavedFacts, AheadFacts
      <4> QED BY <4>1, <1>4, <2>1, <2>2, <2>3, <2>4
    <3>2. \A m \in 1..Len(meeting') : m # active' => IsClosed(saved'[meeting'[m].session])
      BY <1>4, <2>1, <2>4, <2>5 DEF PatientInv, Current
    <3> QED BY <3>1, <3>2, <1>3 DEF PatientInv, Current, Objects
  <2> QED BY <1>4, <2>6
<1>5. CASE ~(IsOpen(saved[s]) /\ active = 0)
  <2>1. meeting' = meeting /\ active' = active
    BY <1>5 DEF Restore
  <2>2. Current'
    BY <2>1, <1>3 DEF PatientInv, Current, Objects
  <2> QED BY <2>1, <2>2
<1> QED BY <1>4, <1>5

LEMMA ReadPatiently ==
    ASSUME IInv, PatientInv, NEW s \in Sessions, Restore(s) \/ UNCHANGED memory,
           UNCHANGED <<stored, command, tasks, budget>>
    PROVE  Follows
<1>1. TypeOK /\ UNCHANGED <<saved, latest, output, command, tasks, faults>>
  BY DEF IInv, stored, budget
<1>2. Current' /\ (active # 0 => meeting' = meeting /\ active' = active)
  <2>1. CASE Restore(s)
    BY <2>1, <1>1, RestorePatiently
  <2>2. CASE UNCHANGED memory
    BY <2>2, <1>1 DEF memory, PatientInv, Current, Objects
  <2> QED BY <2>1, <2>2
<1>3. Courteous(Lines(meeting'), command', tasks', active')
  BY <1>1, <1>2, NobodyAround DEF PatientInv, Courteous
<1>4. ASSUME NEW c \in Commands
      PROVE  Accounted(c)'
  <2>1. command'[c].at \in Pending => meeting'[active'].session = meeting[active].session
    BY <1>1, <1>2, NobodyAround
  <2>2. \A t \in Sessions : Ahead(saved[t].turns, saved'[t].turns)
    BY <1>1, SavedFacts, AheadFacts
  <2> QED BY <2>1, <2>2, <1>1, AccountedStays DEF PatientInv
<1> QED BY <1>1, <1>2, <1>3, <1>4, QuietStep DEF Follows, PatientInv

LEMMA StartPatiently ==
    ASSUME Patient, IInv, PatientInv, NEW s \in Sessions, Start(s)
    PROVE  Follows
<1> DEFINE object == NewObject(s, Unknown)
           state  == StateOf(object, "running")
<1>1. TypeOK /\ active = 0 /\ saved[s].status = "none" /\ SeenToEnd
  BY DEF IInv, Start
<1>2. /\ object \in Object /\ object.queue = <<>> /\ object.turns = <<>> /\ Old(object.turns)
      /\ object.session = s
  BY <1>1, SavedFacts DEF NewObject, Object, Unknown, Old
<1>3. state.turns = <<>> /\ state.status = "running" /\ IsOpen(state)
  BY <1>2 DEF StateOf, IsOpen, OpenStatuses
<1>4. /\ meeting' = Append(meeting, object) /\ active' = Len(meeting) + 1
      /\ saved' = [saved EXCEPT ![s] = state] /\ latest' = s
      /\ UNCHANGED <<output, minuted, command, tasks, faults>>
  BY DEF Start, Save, budget
<1> HIDE DEF object, state
<1>5. /\ Grown /\ meeting'[Len(meeting) + 1] = object
      /\ \A m \in 1..Len(meeting') : m \in Objects \/ m = Len(meeting) + 1
  BY <1>1, <1>2, <1>4, AppendGrows
<1>6. active' # 0 /\ \A m \in Objects : m # 0 /\ meeting'[m] = meeting[m]
  <2>1. Len(meeting) \in Nat
    BY <1>1, SavedFacts
  <2>2. active' # 0 /\ \A m \in Objects : m # 0
    BY <1>4, <2>1, SMT DEF Objects
  <2> QED BY <2>2, <1>5 DEF Grown
<1>7. saved'[s] = state /\ \A t \in Sessions : t # s => saved'[t] = saved[t]
  BY <1>1, <1>4 DEF TypeOK
<1>8. \A t \in Sessions : ~IsOpen(saved[t])
  BY <1>1 DEF SeenToEnd, PatientInv, Current
<1>9. ~IsClosed(saved[s])
  BY <1>1 DEF IsClosed, ClosedStatuses
<1>10. Current'
  <2>1. /\ meeting'[active'].session = latest' /\ IsOpen(saved'[latest'])
        /\ meeting'[active'].turns = saved'[latest'].turns
        /\ Ahead(saved'[latest'].turns, meeting'[active'].turns)
    <3>1. Ahead(<<>>, <<>>)
      BY <1>1, SavedFacts, AheadFacts
    <3> QED BY <3>1, <1>2, <1>3, <1>4, <1>5, <1>7
  <2>2. \A t \in Sessions : IsOpen(saved'[t]) => t = latest'
    BY <1>4, <1>7, <1>8
  <2>3. \A m \in 1..Len(meeting') : m # active' => IsClosed(saved'[meeting'[m].session])
    <3>1. ASSUME NEW m \in Objects
          PROVE  IsClosed(saved'[meeting'[m].session])
      <4>1. IsClosed(saved[meeting[m].session]) /\ meeting[m].session \in Sessions
        BY <1>1, <1>6, SavedFacts DEF PatientInv, Current, Object
      <4> QED BY <4>1, <1>6, <1>7, <1>9
    <3> QED BY <3>1, <1>4, <1>5
  <2>4. \A t \in Sessions : saved'[t].status = "none" => saved'[t].turns = <<>>
    BY <1>3, <1>7 DEF PatientInv, Current
  <2>5. \A t \in minuted' : IsClosed(saved'[t])
    <3>1. \A t \in minuted : t \in Sessions /\ IsClosed(saved[t])
      BY <1>1 DEF TypeOK, PatientInv, Current
    <3> QED BY <3>1, <1>4, <1>7, <1>9
  <2> QED BY <2>1, <2>2, <2>3, <2>4, <2>5 DEF Current, Objects
<1>11. PatientInv'
  <2>1. Courteous(Lines(meeting'), command', tasks', active')
    BY <1>1, <1>4, NobodyAround DEF Courteous
  <2>2. \A t \in Sessions : Ahead(saved[t].turns, saved'[t].turns)
    <3>1. saved[s].turns = <<>>
      BY <1>1 DEF PatientInv, Current
    <3>2. \A t \in Sessions : saved'[t].turns = saved[t].turns
      BY <3>1, <1>3, <1>7
    <3> QED BY <3>2, <1>1, SavedFacts, AheadFacts
  <2>3. ASSUME NEW c \in Commands
        PROVE  Accounted(c)'
    BY <2>2, <1>1, <1>4, NobodyAround, AccountedStays DEF PatientInv
  <2> QED BY <2>1, <2>3, <1>10 DEF PatientInv
<1>13. RecordStep
  <2>1. Records[s] = [state |-> "none", turns |-> <<>>]
    BY <1>1, RecordFacts DEF Records, PatientInv, Current
  <2>2. Records'[s] = [state |-> "open", turns |-> <<>>]
    <3>1. RecordOf(saved'[s]) = [state |-> "open", turns |-> <<>>]
      BY <1>3, <1>7, RecordFacts
    <3> QED BY <3>1 DEF Records
  <2>3. \A t \in Sessions : t # s => Records'[t] = Records[t]
    BY <1>7 DEF Records
  <2>4. \A t \in Sessions : Records[t].state # "open"
    BY <1>8, RecordFacts DEF Records
  <2>5. Records' = [Records EXCEPT ![s].state = "open"]
    <3>1. /\ Records = [t \in Sessions |-> Records[t]]
          /\ Records' = [t \in Sessions |-> Records'[t]]
      BY DEF Records
    <3> QED BY <3>1, <2>1, <2>2, <2>3, StateChanges
  <2>6. Stored!Open(s)
    BY <2>1, <2>4, <2>5 DEF Stored!Open, Records
  <2> QED BY <2>6 DEF RecordStep, Stored!Next
<1> QED BY <1>11, <1>13 DEF Follows

LEMMA SendPatiently ==
    ASSUME Patient, IInv, PatientInv, NEW c \in Commands, NEW s \in Sessions, NEW kind \in Kinds,
           Send(c, s, kind)
    PROVE  Follows
<1>1. /\ TypeOK /\ active # 0 /\ ~Ending /\ meeting[active].session = s
      /\ UNCHANGED <<saved, latest, output, faults>>
  BY DEF IInv, Send, Considerate, stored, budget
<1>2. /\ command[c].at = "unsent" /\ command'[c].at = "created" /\ command'[c].session = s
      /\ \A d \in Commands : d # c => command'[d] = command[d]
      /\ tasks' = Append(tasks, c)
  BY <1>1, SendFacts
<1>3. Current' /\ meeting' = meeting /\ active' = active
  <2>1. CASE Restore(s)
    BY <2>1, <1>1, RestorePatiently
  <2>2. CASE UNCHANGED memory
    BY <2>2, <1>1 DEF memory, PatientInv, Current, Objects
  <2> QED BY <2>1, <2>2 DEF Send, ReadState
<1>4. \A d \in Commands : command[d].at \in Pending => command[d].kind = "speak"
  <2>1. \A d \in Commands : command[d].kind \in Kinds
    BY <1>1 DEF TypeOK, Command
  <2> QED BY <2>1, <1>1 DEF Ending, Kinds
<1>5. Courteous(Lines(meeting), command', Append(tasks, c), active)
  <2>1. tasks \in Seq(Commands) /\ Courteous(Lines(meeting), command, tasks, active)
    BY <1>1 DEF TypeOK, PatientInv
  <2> QED BY <2>1, <1>1, <1>2, <1>4, ArrivesCourteously
<1>6. ASSUME NEW d \in Commands
      PROVE  Accounted(d)'
  <2>1. CASE d = c
    <3>1. output[c] = "absent"
      BY <1>2 DEF PatientInv, Accounted
    <3> QED BY <2>1, <3>1, <1>1, <1>2, <1>3 DEF Accounted
  <2>2. CASE d # c
    <3>1. \A t \in Sessions : Ahead(saved[t].turns, saved'[t].turns)
      BY <1>1, SavedFacts, AheadFacts
    <3> QED BY <2>2, <3>1, <1>1, <1>2, <1>3, AccountedStays DEF PatientInv
  <2> QED BY <2>1, <2>2
<1>7. PatientInv'
  BY <1>2, <1>3, <1>5, <1>6 DEF PatientInv
<1> QED BY <1>1, <1>7, QuietStep DEF Follows
----------------------------------------------------------------------------
(* Patient clients at the lock *)

\* As Seated, for the active object, with the commands courteous.
SeatedPatiently(c, objects, places) ==
    /\ Seated(c, active, objects, places) /\ active # 0
    /\ places[c].at \in {"waiting", "calling"}
    /\ Courteous(Lines(objects), places, tasks', active)

\* Where c ends, the others stay accounted for.
LEMMA OthersAccounted ==
    ASSUME TypeOK, PatientInv, NEW c, NEW d \in Commands, d # c,
           command'[d] = command[d], output'[d] = output[d], faults' = 0 => faults = 0,
           active' = active, meeting'[active].session = meeting[active].session,
           \A s \in Sessions : Ahead(saved[s].turns, saved'[s].turns)
    PROVE  Accounted(d)'
BY AccountedStays DEF PatientInv

\* When c leaves, the others stay courteous; when it asked for the end, none is left.
LEMMA DepartsCourteously ==
    ASSUME NEW c, NEW objects, NEW places, SeatedPatiently(c, objects, places),
           meeting' \in Seq(Object),
           Relined(Lines(objects), Lines(meeting'), active, Tail(Lines(objects)[active])),
           Lines(objects)[active] # <<>>, Head(Lines(objects)[active]) = c,
           Moved(places, command', c, "done", active)
    PROVE  /\ Courteous(Lines(meeting'), command', tasks', active)
           /\ command[c].kind # "speak" => Courteous(Lines(meeting'), command', tasks', 0)
<1>1. /\ objects \in Seq(Object) /\ active \in 1..Len(objects) /\ tasks' \in Seq(Commands)
      /\ Orderly(Lines(objects), places, tasks') /\ places[c].kind = command[c].kind
  BY DEF SeatedPatiently, Seated, Moved
<1>2. /\ Lines(objects) \in Seq(Seq(Commands)) /\ Lines(meeting') \in Seq(Seq(Commands))
      /\ active \in 1..Len(Lines(objects))
  BY <1>1, LinesFacts
<1>3. Courteous(Lines(objects), places, tasks', active)
  BY DEF SeatedPatiently
<1>4. /\ Courteous(Lines(meeting'), command', tasks', active)
      /\ places[c].kind # "speak" => Courteous(Lines(meeting'), command', tasks', 0)
  BY <1>1, <1>2, <1>3, LeavesCourteously
<1> QED BY <1>1, <1>4

\* c leaves without a turn, and nothing is stored.
LEMMA DepartsPatiently ==
    ASSUME NEW c, NEW objects, NEW places, SeatedPatiently(c, objects, places), IInv, PatientInv,
           meeting' = Leave(objects, active), command' = Put(c, "done", active),
           faults' = 0 => faults = 0, UNCHANGED <<saved, latest, output, active, minuted>>,
           command[c].kind # "speak" \/ output[c] = "absent" \/ faults' # 0
    PROVE  Follows
<1>1. Seated(c, active, objects, places) /\ \A s \in Sessions : Old(saved'[s].turns)
  BY DEF SeatedPatiently, Old
<1>2. /\ meeting' \in Seq(Object) /\ Len(meeting') = Len(meeting)
      /\ \A k \in Objects :
            meeting'[k].turns = meeting[k].turns /\ meeting'[k].session = meeting[k].session
      /\ Relined(Lines(objects), Lines(meeting'), active, Tail(Lines(objects)[active]))
      /\ Lines(objects)[active] # <<>> /\ Head(Lines(objects)[active]) = c
      /\ Moved(command, command', c, "done", active) /\ Moved(places, command', c, "done", active)
  BY <1>1, DepartsSilently
<1>3. Courteous(Lines(meeting'), command', tasks', active)
  BY <1>2, DepartsCourteously
<1>4. Current'
  <2>1. active \in Objects
    BY <1>1 DEF Seated, Objects
  <2> QED BY <2>1, <1>2 DEF PatientInv, Current, Objects
<1>5. ASSUME NEW d \in Commands
      PROVE  Accounted(d)'
  <2>1. CASE d = c
    BY <2>1, <1>2 DEF Accounted, Moved, Pending
  <2>2. CASE d # c
    <3>1. /\ TypeOK /\ active \in Objects
          /\ \A s \in Sessions : Ahead(saved[s].turns, saved'[s].turns)
      BY <1>1, SavedFacts, AheadFacts DEF IInv, Seated, Objects
    <3> QED BY <2>2, <3>1, <1>2, OthersAccounted DEF Moved
  <2> QED BY <2>1, <2>2
<1> QED BY <1>3, <1>4, <1>5, QuietStep DEF Follows, PatientInv

\* The end of a directed speech extends the record of the active meeting.
LEMMA RecordsPatiently ==
    ASSUME NEW c, NEW objects, NEW places, SeatedPatiently(c, objects, places), IInv, PatientInv,
           NEW ok \in BOOLEAN, NEW turns \in Seq(Turn), turns # <<>>, turns[Len(turns)].speech = c,
           Record(c, active, objects, turns, ok), faults' = 0 => faults = 0
    PROVE  Follows
<1> DEFINE m      == active
           object == [objects[m] EXCEPT !.turns = @ \o turns]
           state  == StateOf(object, SpeakStatus(object))
<1>1. /\ Seated(c, m, objects, places) /\ TypeOK /\ active # 0 /\ m \in Objects
      /\ objects \in Seq(Object) /\ m \in 1..Len(objects) /\ c \in Commands
      /\ Len(objects) = Len(meeting) /\ objects[m].turns = meeting[m].turns
      /\ objects[m].session = meeting[m].session
  BY DEF SeatedPatiently, Seated, Objects, IInv
<1>2. objects[m] \in Object /\ objects[m].turns \in Seq(Turn)
  BY <1>1, LinesFacts DEF Object
<1>3. /\ object \in Object /\ object.queue = objects[m].queue
      /\ object.session = meeting[m].session /\ object.turns = meeting[m].turns \o turns
  <2>1. objects[m].turns \o turns \in Seq(Turn)
    BY <1>2, ConcatProperties
  <2> QED BY <2>1, <1>1, <1>2 DEF Object
<1>4. /\ output' = [output EXCEPT ![c] = Outcome(ok)]
      /\ meeting' = Leave([objects EXCEPT ![m] = object], m)
      /\ saved' = [saved EXCEPT ![object.session] = state] /\ latest' = object.session
      /\ command' = Put(c, "done", m) /\ UNCHANGED <<active, minuted>>
  BY DEF Record, Save
<1>5. state.turns = object.turns /\ IsOpen(state)
  BY DEF StateOf, SpeakStatus, IsOpen, OpenStatuses
<1> HIDE DEF object, state
<1>6. /\ meeting' \in Seq(Object) /\ Len(meeting') = Len(meeting)
      /\ \A k \in Objects :
            /\ meeting'[k].turns = IF k = m THEN object.turns ELSE meeting[k].turns
            /\ meeting'[k].session = IF k = m THEN object.session ELSE meeting[k].session
            /\ meeting'[k].stop = IF k = m THEN object.stop ELSE objects[k].stop
      /\ Relined(Lines(objects), Lines(meeting'), m, Tail(Lines(objects)[m]))
      /\ Lines(objects)[m] # <<>> /\ Head(Lines(objects)[m]) = c
      /\ command' \in [Commands -> Command] /\ Moved(command, command', c, "done", m)
      /\ Moved(places, command', c, "done", m)
      /\ Orderly(Lines(meeting'), command', tasks')
  <2>1. /\ Seated(c, m, objects, places) /\ TypeOK
        /\ object \in Object /\ object.queue = objects[m].queue
        /\ meeting' = Leave([objects EXCEPT ![m] = object], m) /\ command' = Put(c, "done", m)
    BY <1>1, <1>3, <1>4
  <2> QED BY ONLY <2>1, Departs
<1>7. Courteous(Lines(meeting'), command', tasks', active')
  <2>1. Courteous(Lines(meeting'), command', tasks', active)
    BY <1>6, DepartsCourteously
  <2> QED BY <2>1, <1>4
<1>8. /\ object.session = latest /\ latest \in Sessions /\ IsOpen(saved[latest])
      /\ saved[latest].turns \in Seq(Turn) /\ meeting[m].turns \in Seq(Turn)
      /\ Ahead(saved[latest].turns, meeting[m].turns)
  <2>1. /\ object.session = latest /\ IsOpen(saved[latest])
        /\ Ahead(saved[latest].turns, meeting[m].turns)
    BY <1>1, <1>3 DEF PatientInv, Current
  <2>2. meeting[m].session \in Sessions /\ meeting[m].turns \in Seq(Turn)
    BY <1>1, SavedFacts DEF Object
  <2>3. latest \in Sessions
    BY <2>1, <2>2, <1>3
  <2> QED BY <2>1, <2>2, <2>3, <1>1, SavedFacts
<1>9. saved'[latest] = state /\ latest' = latest /\ \A s \in Sessions : s # latest => saved'[s] = saved[s]
  BY <1>1, <1>4, <1>8 DEF TypeOK
<1>10. ~IsClosed(saved[latest]) /\ state.status # "none"
  BY <1>5, <1>8 DEF IsOpen, IsClosed, OpenStatuses, ClosedStatuses
<1>11. Current'
  <2>1. \A s \in Sessions : IsOpen(saved'[s]) => s = latest'
    BY <1>9 DEF PatientInv, Current
  <2>2. /\ meeting'[active'].session = latest' /\ IsOpen(saved'[latest'])
        /\ meeting'[active'].turns = saved'[latest'].turns
        /\ Ahead(saved'[latest'].turns, meeting'[active'].turns)
    <3>1. Ahead(object.turns, object.turns)
      BY <1>3, AheadFacts DEF Object
    <3> QED BY <3>1, <1>1, <1>4, <1>5, <1>6, <1>8, <1>9
  <2>3. ASSUME NEW k \in 1..Len(meeting'), k # active'
        PROVE  IsClosed(saved'[meeting'[k].session])
    <3>1. k \in Objects /\ k # active /\ meeting'[k].session = meeting[k].session
      BY <2>3, <1>4, <1>6 DEF Objects
    <3>2. IsClosed(saved[meeting[k].session]) /\ meeting[k].session \in Sessions
      BY <3>1, <1>1, SavedFacts DEF PatientInv, Current, Object
    <3> QED BY <3>1, <3>2, <1>9, <1>10
  <2>4. \A s \in Sessions : saved'[s].status = "none" => saved'[s].turns = <<>>
    BY <1>9, <1>10 DEF PatientInv, Current
  <2>5. \A s \in minuted' : IsClosed(saved'[s])
    <3>1. \A s \in minuted : s \in Sessions /\ IsClosed(saved[s])
      BY <1>1 DEF TypeOK, PatientInv, Current
    <3> QED BY <3>1, <1>4, <1>9, <1>10
  <2> QED BY <2>1, <2>2, <2>3, <2>4, <2>5 DEF Current, Objects
<1>12. PICK rest \in Seq(Turn) : /\ saved'[latest].turns = saved[latest].turns \o rest
                                 /\ rest # <<>> /\ rest[Len(rest)].speech = c
  <2>1. PICK unstored \in Seq(Turn) : meeting[m].turns = saved[latest].turns \o unstored
    BY <1>8 DEF Ahead
  <2> DEFINE rest == unstored \o turns
  <2> DEFINE before == saved[latest].turns
  <2>2. rest \in Seq(Turn) /\ (before \o unstored) \o turns = before \o rest
    <3>1. before \in Seq(Turn)
      BY <1>8
    <3> HIDE DEF before
    <3> QED BY <3>1, SMT
  <2>3. rest # <<>> /\ rest[Len(rest)] = turns[Len(turns)]
    BY SMT
  <2> HIDE DEF rest
  <2>4. saved'[latest].turns = before \o rest
    BY <2>1, <2>2, <1>3, <1>5, <1>9
  <2> QED BY <2>2, <2>3, <2>4
<1>13. RecordStep
  <2>1. Records[latest].state = "open" /\ Records[latest].turns = saved[latest].turns
    BY <1>8, RecordFacts DEF Records
  <2>2. Records'[latest].state = "open" /\ Records'[latest].turns = saved[latest].turns \o rest
    <3>1. RecordOf(saved'[latest]).state = "open"
          /\ RecordOf(saved'[latest]).turns = saved[latest].turns \o rest
      BY <1>5, <1>8, <1>9, <1>12, RecordFacts
    <3> QED BY <3>1, <1>8 DEF Records
  <2>3. Stored!IsStrictPrefix(saved[latest].turns, saved[latest].turns \o rest)
    BY <1>8, <1>12, PrefixFacts
  <2>4. \A s \in Sessions \ {latest} : Records'[s] = Records[s]
    BY <1>9 DEF Records
  <2>5. Stored!Extend(latest)
    BY <2>1, <2>2, <2>3, <2>4 DEF Stored!Extend, Records
  <2> QED BY <2>5, <1>8 DEF RecordStep, Stored!Next
<1>14. ASSUME NEW d \in Commands
       PROVE  Accounted(d)'
  <2>1. CASE d = c
    <3>1. command'[c].at = "done" /\ command'[c].session = latest'
      <4>1. command[c].session = meeting[active].session
        BY <1>1 DEF PatientInv, Accounted, Seated
      <4> QED BY <4>1, <1>1, <1>3, <1>6, <1>8, <1>9 DEF Moved
    <3>2. Spoken(c, latest)'
      <4> DEFINE before == saved[latest].turns
                 after  == saved'[latest].turns
      <4>1. /\ Len(after) = Len(before) + Len(rest) /\ Len(before) \in Nat /\ Len(rest) \in Nat
            /\ \A i \in 1 .. Len(before) + Len(rest) :
                  after[i] = IF i <= Len(before) THEN before[i] ELSE rest[i - Len(before)]
        BY <1>8, <1>12, ConcatProperties, SequenceFacts
      <4>2. Len(rest) > 0
        BY <1>12, SequenceFacts
      <4> HIDE DEF before, after
      <4>3. Len(after) \in 1..Len(after) /\ after[Len(after)] = rest[Len(rest)]
        <5>1. /\ Len(after) \in 1..(Len(before) + Len(rest)) /\ ~(Len(after) <= Len(before))
              /\ Len(after) - Len(before) = Len(rest) /\ Len(after) \in 1..Len(after)
          BY <4>1, <4>2, SMT
        <5> QED BY <5>1, <4>1
      <4>4. \E i \in 1..Len(after) : after[i].speech = c
        BY <4>3, <1>12
      <4> QED BY <4>4, <1>9 DEF Spoken, after
    <3> QED BY <2>1, <3>1, <3>2 DEF Accounted, Pending, Spoken
  <2>2. CASE d # c
    <3>1. \A s \in Sessions : Ahead(saved[s].turns, saved'[s].turns)
      <4>1. ASSUME NEW s \in Sessions, s # latest
            PROVE  Ahead(saved[s].turns, saved'[s].turns)
        BY <4>1, <1>1, <1>9, SavedFacts, AheadFacts
      <4>2. Ahead(saved[latest].turns, saved'[latest].turns)
        BY <1>12 DEF Ahead
      <4> QED BY <4>1, <4>2
    <3>2. command'[d] = command[d] /\ output'[d] = output[d]
      BY <2>2, <1>1, <1>4, <1>6 DEF TypeOK, Moved
    <3> QED BY <2>2, <3>1, <3>2, <1>1, <1>3, <1>4, <1>6, OthersAccounted
  <2> QED BY <2>1, <2>2
<1> QED BY <1>7, <1>11, <1>13, <1>14 DEF Follows, PatientInv

\* A speech whose last write is refused leaves the snapshots as they were.
LEMMA UnrecordedPatiently ==
    ASSUME NEW c, NEW objects, NEW places, SeatedPatiently(c, objects, places), IInv, PatientInv,
           NEW turns \in Seq(Turn), NEW outcome, Unrecorded(c, active, objects, turns, outcome),
           faults' # 0
    PROVE  Follows
<1> DEFINE m      == active
           object == [objects[m] EXCEPT !.turns = @ \o turns]
<1>1. /\ Seated(c, m, objects, places) /\ TypeOK /\ active # 0 /\ m \in Objects
      /\ objects \in Seq(Object) /\ m \in 1..Len(objects) /\ c \in Commands
      /\ objects[m].turns = meeting[m].turns /\ objects[m].session = meeting[m].session
  BY DEF SeatedPatiently, Seated, Objects, IInv
<1>2. objects[m] \in Object /\ objects[m].turns \in Seq(Turn)
  BY <1>1, LinesFacts DEF Object
<1>3. /\ object \in Object /\ object.queue = objects[m].queue
      /\ object.session = meeting[m].session /\ object.turns = meeting[m].turns \o turns
  <2>1. objects[m].turns \o turns \in Seq(Turn)
    BY <1>2, ConcatProperties
  <2> QED BY <2>1, <1>1, <1>2 DEF Object
<1>4. /\ output' = [output EXCEPT ![c] = outcome]
      /\ meeting' = Leave([objects EXCEPT ![m] = object], m) /\ command' = Put(c, "done", m)
      /\ UNCHANGED <<saved, latest, active, minuted>>
  BY DEF Unrecorded
<1> HIDE DEF object
<1>5. /\ meeting' \in Seq(Object) /\ Len(meeting') = Len(meeting)
      /\ \A k \in Objects :
            /\ meeting'[k].turns = IF k = m THEN object.turns ELSE meeting[k].turns
            /\ meeting'[k].session = IF k = m THEN object.session ELSE meeting[k].session
            /\ meeting'[k].stop = IF k = m THEN object.stop ELSE objects[k].stop
      /\ Relined(Lines(objects), Lines(meeting'), m, Tail(Lines(objects)[m]))
      /\ Lines(objects)[m] # <<>> /\ Head(Lines(objects)[m]) = c
      /\ command' \in [Commands -> Command] /\ Moved(command, command', c, "done", m)
      /\ Moved(places, command', c, "done", m)
      /\ Orderly(Lines(meeting'), command', tasks')
  BY <1>1, <1>3, <1>4, Departs
<1>6. Courteous(Lines(meeting'), command', tasks', active)
  BY <1>5, DepartsCourteously
<1>7. \A k \in Objects : meeting'[k].session = meeting[k].session
  BY <1>3, <1>5
<1>8. Current'
  <2>1. Ahead(saved[latest].turns, meeting'[m].turns)
    <3>1. meeting[m].session = latest /\ Ahead(saved[latest].turns, meeting[m].turns)
      BY <1>1 DEF PatientInv, Current
    <3>2. saved[latest].turns \in Seq(Turn) /\ meeting[m].turns \in Seq(Turn)
      BY <3>1, <1>1, SavedFacts DEF Object
    <3> QED BY <3>1, <3>2, <1>1, <1>3, <1>5, AheadFacts
  <2> QED BY <2>1, <1>1, <1>4, <1>5, <1>7 DEF PatientInv, Current, Objects
<1>9. ASSUME NEW d \in Commands
      PROVE  Accounted(d)'
  <2>1. CASE d = c
    BY <2>1, <1>5 DEF Accounted, Moved, Pending
  <2>2. CASE d # c
    <3>1. \A s \in Sessions : Ahead(saved[s].turns, saved'[s].turns)
      BY <1>1, <1>4, SavedFacts, AheadFacts
    <3>2. command'[d] = command[d] /\ output'[d] = output[d]
      BY <2>2, <1>1, <1>4, <1>5 DEF TypeOK, Moved
    <3> QED BY <2>2, <3>1, <3>2, <1>1, <1>4, <1>7, OthersAccounted
  <2> QED BY <2>1, <2>2
<1> QED BY <1>4, <1>6, <1>8, <1>9, QuietStep DEF Follows, PatientInv

\* However the speech of a caller ends, the record is followed.
LEMMA AnswersPatiently ==
    ASSUME NEW c, NEW objects, NEW places, SeatedPatiently(c, objects, places), IInv, PatientInv,
           Answer(c, active, objects)
    PROVE  Follows
<1>1. c \in Commands /\ objects[active] \in Object
  BY LinesFacts DEF SeatedPatiently, Seated
<1>2. (Outage => faults' # 0) /\ (UNCHANGED budget => faults' = faults)
  <2>1. faults \in Nat
    BY DEF IInv, TypeOK
  <2> QED BY <2>1, SMT DEF Outage, budget
<1>3. ASSUME NEW ok \in BOOLEAN, NEW turns \in Seq(Turn), turns # <<>>,
             turns[Len(turns)].speech = c, Record(c, active, objects, turns, ok),
             UNCHANGED budget \/ Outage
      PROVE  Follows
  BY <1>2, <1>3, RecordsPatiently
<1>4. ASSUME NEW outcome, NEW turns \in Seq(Turn),
             Unrecorded(c, active, objects, turns, outcome), Outage
      PROVE  Follows
  BY <1>2, <1>4, UnrecordedPatiently
<1> QED BY <1>1, <1>3, <1>4, AnswerCases

LEMMA EntersSpeakPatiently ==
    ASSUME NEW c, NEW objects, NEW places, SeatedPatiently(c, objects, places), IInv, PatientInv,
           command[c].at \in {"created", "waiting"}, EnterSpeak(c, active, objects)
    PROVE  Follows
<1>1. /\ TypeOK /\ Seated(c, active, objects, places) /\ c \in Commands /\ active \in Objects
      /\ objects \in Seq(Object) /\ active \in 1..Len(objects) /\ Len(objects) = Len(meeting)
  BY DEF SeatedPatiently, Seated, Objects, IInv
<1>2. CASE Refuse(c, active, objects)
  <2>1. /\ meeting' = Leave(objects, active) /\ command' = Put(c, "done", active)
        /\ UNCHANGED <<saved, latest, output, active, minuted, faults>>
    BY <1>2 DEF Refuse, stored, budget
  <2>2. output[c] = "absent"
    BY <1>1 DEF PatientInv, Accounted
  <2> QED BY <2>1, <2>2, DepartsPatiently
<1>3. CASE CallRefused(c, active, objects)
  <2>1. /\ meeting' = Leave(objects, active) /\ command' = Put(c, "done", active)
        /\ faults' = faults + 1 /\ UNCHANGED <<saved, latest, output, active, minuted>>
    BY <1>3 DEF CallRefused, Outage, stored
  <2>2. faults' # 0
    BY <2>1, <1>1, SMT DEF TypeOK
  <2> QED BY <2>1, <2>2, DepartsPatiently
<1>4. CASE SpeakOfGap(c, active, objects)
  BY <1>4, AnswersPatiently DEF SpeakOfGap
<1>5. CASE Call(c, active, objects)
  <2>1. /\ output' = [output EXCEPT ![c] = "running"]
        /\ meeting' = objects /\ command' = Put(c, "calling", active)
        /\ UNCHANGED <<saved, latest, active, minuted, faults>>
    BY <1>5 DEF Call, budget
  <2>2. Moved(command, command', c, "calling", active)
    <3>1. active \in Nat
      BY <1>1, SMT DEF Objects
    <3> QED BY <3>1, <2>1, <1>1, PlaceFacts DEF TypeOK, Put
  <2>3. Courteous(Lines(meeting'), command', tasks', active')
    <3>1. /\ Moved(places, command', c, "calling", active)
          /\ places[c].at \in {"waiting", "calling"} /\ places[c].object = active
          /\ Courteous(Lines(objects), places, tasks', active)
      BY <2>2 DEF SeatedPatiently, Seated, Moved
    <3>2. Courteous(Lines(objects), command', tasks', active)
      BY <3>1, <1>1 DEF Courteous, Moved, Pending
    <3> QED BY <3>2, <2>1
  <2>4. /\ Len(meeting') = Len(meeting)
        /\ \A k \in Objects :
              meeting'[k].turns = meeting[k].turns /\ meeting'[k].session = meeting[k].session
    BY <2>1, <1>1 DEF Seated, Objects
  <2>5. Current'
    BY <2>1, <2>4, <1>1 DEF PatientInv, Current, Objects
  <2>6. ASSUME NEW d \in Commands
        PROVE  Accounted(d)'
    <3>1. CASE d = c
      <4>1. command[c].session = meeting[active].session
        BY <1>1 DEF Seated, PatientInv, Accounted
      <4> QED BY <3>1, <4>1, <2>1, <2>2, <2>4, <1>1 DEF Accounted, Moved
    <3>2. CASE d # c
      <4>1. /\ command'[d] = command[d] /\ output'[d] = output[d]
            /\ \A s \in Sessions : Ahead(saved[s].turns, saved'[s].turns)
        BY <3>2, <2>1, <2>2, <1>1, SavedFacts, AheadFacts DEF TypeOK, Moved
      <4> QED BY <3>2, <4>1, <2>1, <2>4, <1>1, OthersAccounted
    <3> QED BY <3>1, <3>2
  <2> QED BY <2>1, <2>3, <2>5, <2>6, QuietStep DEF Follows, PatientInv
<1> QED BY <1>2, <1>3, <1>4, <1>5 DEF EnterSpeak

\* The minutes close the record of the active meeting.
LEMMA EntersFinishPatiently ==
    ASSUME NEW c, NEW objects, NEW places, SeatedPatiently(c, objects, places), IInv, PatientInv,
           NEW caches, command[c].kind # "speak", EnterFinish(c, active, objects, caches)
    PROVE  Follows
<1> DEFINE m      == active
           object == objects[m]
           s      == object.session
           state  == StateOf(object, IF object.stop THEN "stopped" ELSE "completed")
<1>1. /\ TypeOK /\ Seated(c, m, objects, places) /\ active # 0 /\ m \in Objects
      /\ s = meeting[m].session /\ object.turns = meeting[m].turns
  BY DEF SeatedPatiently, Seated, Objects, IInv
<1>2. /\ meeting' = Leave(objects, m) /\ command' = Put(c, "done", m) /\ output' = output
      /\ \/ UNCHANGED <<saved, latest, active, minuted, faults>>
         \/ /\ saved' = [saved EXCEPT ![s] = state] /\ latest' = s
            /\ minuted' = minuted \cup {s} /\ active' = 0 /\ faults' = faults
         \/ faults' = faults + 1 /\ UNCHANGED <<saved, latest, active, minuted>>
  BY DEF EnterFinish, Outage, budget
<1>3. state.turns = object.turns /\ IsClosed(state)
  BY DEF StateOf, IsClosed, ClosedStatuses
<1>4. /\ s = latest /\ s \in Sessions /\ IsOpen(saved[s]) /\ Ahead(saved[s].turns, object.turns)
      /\ faults = 0 => object.turns = saved[s].turns
  <2>1. /\ s = latest /\ IsOpen(saved[s]) /\ Ahead(saved[s].turns, object.turns)
        /\ faults = 0 => object.turns = saved[s].turns
    BY <1>1 DEF PatientInv, Current
  <2>2. meeting[m].session \in Sessions
    BY <1>1, SavedFacts DEF Object
  <2> QED BY <2>1, <2>2, <1>1
<1> HIDE DEF state, s, object
<1>5. CASE UNCHANGED <<saved, latest, active, minuted>> /\ (faults' = faults \/ faults' = faults + 1)
  <2>1. faults' = 0 => faults = 0
    BY <1>1, <1>5, SMT DEF TypeOK
  <2> QED BY <2>1, <1>2, <1>5, DepartsPatiently
<1>6. CASE /\ saved' = [saved EXCEPT ![s] = state] /\ latest' = s
           /\ minuted' = minuted \cup {s} /\ active' = 0 /\ faults' = faults
  <2>1. saved'[s] = state /\ \A t \in Sessions : t # s => saved'[t] = saved[t]
    BY <1>1, <1>4, <1>6 DEF TypeOK
  <2>2. \A t \in Sessions : Old(saved'[t].turns)
    BY <2>1, <1>1, <1>3, <1>4 DEF Old
  <2>3. /\ meeting' \in Seq(Object) /\ Len(meeting') = Len(meeting)
        /\ \A k \in Objects :
              /\ meeting'[k].turns = meeting[k].turns /\ meeting'[k].session = meeting[k].session
              /\ meeting'[k].stop = objects[k].stop
        /\ Relined(Lines(objects), Lines(meeting'), m, Tail(Lines(objects)[m]))
        /\ Lines(objects)[m] # <<>> /\ Head(Lines(objects)[m]) = c
        /\ command' \in [Commands -> Command]
        /\ Moved(command, command', c, "done", m) /\ Moved(places, command', c, "done", m)
        /\ Orderly(Lines(meeting'), command', tasks')
        /\ \A d \in Commands : Called(d)'
        /\ AllTell'
    BY <2>2, <1>1, <1>2, <1>6, DepartsSilently
  <2>4. Courteous(Lines(meeting'), command', tasks', active')
    <3>1. Courteous(Lines(meeting'), command', tasks', 0)
      BY <2>3, DepartsCourteously
    <3> QED BY <3>1, <1>6
  <2>5. ~IsOpen(saved'[s]) /\ IsClosed(saved'[s]) /\ saved'[s].status # "none"
    BY <2>1, <1>3 DEF IsOpen, IsClosed, OpenStatuses, ClosedStatuses
  <2>6. Current'
    <3>1. \A t \in Sessions : ~IsOpen(saved'[t])
      BY <2>1, <2>5, <1>4 DEF PatientInv, Current
    <3>2. ASSUME NEW k \in 1..Len(meeting')
          PROVE  IsClosed(saved'[meeting'[k].session])
      <4>1. k \in Objects /\ meeting'[k].session = meeting[k].session
        BY <3>2, <2>3 DEF Objects
      <4>2. CASE k = m
        BY <4>1, <4>2, <2>5, <1>1
      <4>3. CASE k # m
        <5>1. IsClosed(saved[meeting[k].session]) /\ meeting[k].session \in Sessions
          BY <4>1, <4>3, <1>1, SavedFacts DEF PatientInv, Current, Object
        <5> QED BY <4>1, <5>1, <2>1, <2>5
      <4> QED BY <4>2, <4>3
    <3>3. \A t \in Sessions : saved'[t].status = "none" => saved'[t].turns = <<>>
      BY <2>1, <2>5 DEF PatientInv, Current
    <3>4. \A t \in minuted' : IsClosed(saved'[t])
      <4>1. \A t \in minuted : t \in Sessions /\ IsClosed(saved[t])
        BY <1>1 DEF TypeOK, PatientInv, Current
      <4> QED BY <4>1, <1>6, <2>1, <2>5
    <3> QED BY <3>1, <3>2, <3>3, <3>4, <1>6 DEF Current, Objects
  <2>7. ASSUME NEW d \in Commands
        PROVE  Accounted(d)'
    <3>1. command'[d].at \notin Pending
      BY <2>4, <1>6 DEF Courteous
    <3>2. CASE d = c
      BY <3>1, <3>2, <2>3 DEF Accounted, Moved, Pending
    <3>3. CASE d # c
      <4>1. \A t \in Sessions : Ahead(saved[t].turns, saved'[t].turns)
        <5>1. ASSUME NEW t \in Sessions, t # s
              PROVE  Ahead(saved[t].turns, saved'[t].turns)
          BY <5>1, <2>1, <1>1, SavedFacts, AheadFacts
        <5> QED BY <5>1, <2>1, <1>3, <1>4
      <4> QED BY <3>1, <3>3, <4>1, <2>3, <1>1, <1>2, <1>6, AccountedStays DEF PatientInv, Moved
    <3> QED BY <3>2, <3>3
  <2>8. RecordStep
    <3>1. Records[s].state = "open" /\ Records[s].turns = saved[s].turns
      BY <1>4, RecordFacts DEF Records
    <3>2. Records'[s].state = "closed" /\ Records'[s].turns = object.turns
      <4>1. RecordOf(saved'[s]).state = "closed" /\ RecordOf(saved'[s]).turns = object.turns
        BY <2>1, <1>3, RecordFacts
      <4> QED BY <4>1, <1>4 DEF Records
    <3>3. \A t \in Sessions \ {s} : Records'[t] = Records[t]
      BY <2>1 DEF Records
    <3>4. Stored!IsPrefix(saved[s].turns, object.turns)
      BY <1>1, <1>4, SavedFacts, PrefixFacts DEF Ahead
    <3>5. Stored!Close(s)
      BY <3>1, <3>2, <3>3, <3>4 DEF Stored!Close, Records
    <3> QED BY <3>5, <1>4 DEF RecordStep, Stored!Next
  <2> QED BY <2>4, <2>6, <2>7, <2>8 DEF Follows, PatientInv
<1> QED BY <1>2, <1>5, <1>6
----------------------------------------------------------------------------
(* The steps of the event loop and the stops, for patient clients *)

LEMMA StartsTaskPatiently ==
    ASSUME IInv, PatientInv, StartTask
    PROVE  Follows
<1> DEFINE c == Head(tasks)
<1>1. TypeOK /\ tasks \in Seq(Commands) /\ tasks # <<>> /\ tasks' = Tail(tasks)
  BY StartTaskCases DEF IInv, TypeOK
<1>2. c \in Commands /\ c = tasks[1] /\ 1 \in 1..Len(tasks)
  <2>1. c \in Commands /\ c = tasks[1] /\ Len(tasks) \in Nat /\ Len(tasks) > 0
    BY <1>1, SequenceFacts, SMT
  <2> QED BY <2>1, SMT
<1>3. command[c].at = "created" /\ active # 0
  <2>1. InTasks(tasks, command, 1)
    BY <1>2 DEF IInv, Orderly
  <2> QED BY <2>1, <1>2, NobodyAround DEF InTasks, Pending
<1> HIDE DEF c
<1>4. c = Head(tasks)
  BY DEF c
<1>5. /\ Moved(command, Put(c, "waiting", active), c, "waiting", active)
      /\ Put(c, "waiting", active) \in [Commands -> Command]
  BY <1>3, <1>4, TaskJoins
<1>6. /\ active \in Objects /\ Queued(c) \in Seq(Object) /\ Len(Queued(c)) = Len(meeting)
      /\ \A k \in Objects :
            /\ Queued(c)[k].turns = meeting[k].turns
            /\ Queued(c)[k].session = meeting[k].session
      /\ Relined(Lines(meeting), Lines(Queued(c)), active, Append(Lines(meeting)[active], c))
  BY <1>1, <1>2, <1>3, QueuedFacts
<1>7. Courteous(Lines(Queued(c)), Put(c, "waiting", active), tasks', active)
  <2>1. /\ Lines(meeting) \in Seq(Seq(Commands)) /\ Lines(Queued(c)) \in Seq(Seq(Commands))
        /\ active \in 1..Len(Lines(meeting))
    BY <1>1, <1>6, LinesFacts DEF TypeOK, Objects
  <2>2. Orderly(Lines(meeting), command, tasks) /\ Courteous(Lines(meeting), command, tasks, active)
    BY DEF IInv, PatientInv
  <2>3. Courteous(Lines(Queued(c)), Put(c, "waiting", active), Tail(tasks), active)
    BY <2>1, <2>2, <1>1, <1>4, <1>5, <1>6, JoinsCourteously
  <2> QED BY <2>3, <1>1
<1>8. CASE /\ command[c].kind = "blank" /\ command' = At(c, "done")
           /\ UNCHANGED <<stored, memory, budget>>
  <2>1. /\ UNCHANGED <<saved, latest, output, meeting, active, minuted, faults>>
        /\ command' = [command EXCEPT ![c].at = "done"]
    BY <1>8 DEF stored, memory, budget, At
  <2>2. /\ command'[c].at = "done" /\ command'[c].kind = "blank"
        /\ \A d \in Commands : d # c => command'[d] = command[d]
    BY <2>1, <1>1, <1>2, <1>8 DEF TypeOK, Command
  <2>3. Courteous(Lines(meeting'), command', tasks', active')
    <3>1. Courteous(Lines(meeting), command', Tail(tasks), active)
      BY <2>2, <1>1, <1>4, GivesUpCourteously DEF PatientInv, Pending
    <3> QED BY <3>1, <2>1, <1>1
  <2>4. Current'
    BY <2>1 DEF PatientInv, Current, Objects
  <2>5. ASSUME NEW d \in Commands
        PROVE  Accounted(d)'
    <3>1. CASE d = c
      BY <3>1, <2>2 DEF Accounted, Pending
    <3>2. CASE d # c
      <4>1. \A s \in Sessions : Ahead(saved[s].turns, saved'[s].turns)
        BY <2>1, <1>1, SavedFacts, AheadFacts
      <4> QED BY <3>2, <4>1, <2>1, <2>2, <1>1, OthersAccounted
    <3> QED BY <3>1, <3>2
  <2> QED BY <2>1, <2>3, <2>4, <2>5, QuietStep DEF Follows, PatientInv
<1>9. CASE /\ meeting[active].queue = <<>>
           /\ \/ command[c].kind = "speak" /\ EnterSpeak(c, active, Queued(c))
              \/ command[c].kind # "speak" /\ EnterFinish(c, active, Queued(c), Caches(c))
  <2>1. SeatedPatiently(c, Queued(c), Put(c, "waiting", active))
    <3>1. Seated(c, active, Queued(c), Put(c, "waiting", active))
      BY <1>3, <1>4, <1>9, TaskIsSeated
    <3> QED BY <3>1, <1>3, <1>5, <1>7 DEF SeatedPatiently, Moved
  <2> QED BY <2>1, <1>3, <1>9, EntersSpeakPatiently, EntersFinishPatiently
<1>10. CASE /\ meeting' = Queued(c) /\ command' = Put(c, "waiting", active)
            /\ UNCHANGED <<stored, active, minuted, budget>>
  <2>1. UNCHANGED <<saved, latest, output, active, minuted, faults>>
    BY <1>10 DEF stored, budget
  <2>2. Current'
    BY <2>1, <1>6, <1>10 DEF PatientInv, Current, Objects
  <2>3. ASSUME NEW d \in Commands
        PROVE  Accounted(d)'
    <3>1. CASE d = c
      <4>1. output[c] = "absent" /\ command[c].session = meeting[active].session
        BY <1>2, <1>3 DEF PatientInv, Accounted, Pending
      <4> QED BY <3>1, <4>1, <2>1, <1>5, <1>6, <1>10 DEF Accounted, Moved
    <3>2. CASE d # c
      <4>1. /\ \A s \in Sessions : Ahead(saved[s].turns, saved'[s].turns)
            /\ command'[d] = command[d]
        BY <3>2, <2>1, <1>1, <1>5, <1>10, SavedFacts, AheadFacts DEF Moved
      <4> QED BY <3>2, <4>1, <2>1, <1>1, <1>6, <1>10, OthersAccounted
    <3> QED BY <3>1, <3>2
  <2>4. Courteous(Lines(meeting'), command', tasks', active')
    BY <2>1, <1>7, <1>10
  <2> QED BY <2>1, <2>2, <2>3, <2>4, QuietStep DEF Follows, PatientInv
<1> QED BY <1>3, <1>4, <1>8, <1>9, <1>10, StartTaskCases

\* A command in a queue is in the active object's.
LEMMA WaiterIsSeatedPatiently ==
    ASSUME IInv, PatientInv, NEW c \in Commands, command[c].at \in {"waiting", "calling"},
           Seated(c, command[c].object, meeting, command), UNCHANGED tasks
    PROVE  command[c].object = active /\ SeatedPatiently(c, meeting, command)
<1>1. command[c].object = active /\ active # 0
  BY DEF PatientInv, Courteous, Pending
<1>2. Courteous(Lines(meeting), command, tasks', active)
  BY DEF PatientInv
<1> QED BY <1>1, <1>2 DEF SeatedPatiently

LEMMA WakesPatiently ==
    ASSUME IInv, PatientInv, NEW m \in Objects, Wake(m)
    PROVE  Follows
<1> DEFINE c == Head(meeting[m].queue)
<1>1. Seated(c, m, meeting, command) /\ command[c].at = "waiting" /\ UNCHANGED tasks
  BY HeadIsSeated DEF Wake
<1>2. \/ command[c].kind = "speak" /\ EnterSpeak(c, m, meeting)
      \/ command[c].kind # "speak" /\ EnterFinish(c, m, meeting, cached)
  BY DEF Wake
<1> HIDE DEF c
<1>3. c \in Commands /\ command[c].object = m
  BY <1>1 DEF Seated, Moved
<1>4. m = active /\ SeatedPatiently(c, meeting, command)
  BY <1>1, <1>3, WaiterIsSeatedPatiently
<1> QED BY <1>1, <1>2, <1>4, EntersSpeakPatiently, EntersFinishPatiently

LEMMA ReturnsPatiently ==
    ASSUME IInv, PatientInv, NEW c \in Commands, Return(c)
    PROVE  Follows
<1>1. /\ command[c].at = "calling" /\ UNCHANGED tasks
      /\ Answer(c, command[c].object, meeting)
  BY DEF Return
<1>2. command[c].object = active /\ SeatedPatiently(c, meeting, command)
  BY <1>1, CallerIsSeated, WaiterIsSeatedPatiently
<1>3. Answer(c, active, meeting)
  BY <1>1, <1>2
<1> QED BY <1>2, <1>3, AnswersPatiently

\* Nothing is under way afterwards, and what was over stays as it was.
LEMMA CrashesPatiently ==
    ASSUME IInv, PatientInv, \/ Crash
                             \/ \E c \in Commands, ok \in BOOLEAN : CrashInReturn(c, ok)
    PROVE  Follows
<1>1. Forget /\ UNCHANGED <<saved, latest, faults>>
  BY DEF Crash, CrashInReturn, stored
<1>2. \A c \in Commands : output'[c] = output[c] \/ command[c].at \in Pending
  <2>1. CASE Crash
    BY <2>1 DEF Crash, stored
  <2>2. ASSUME NEW c \in Commands, NEW ok \in BOOLEAN, CrashInReturn(c, ok)
        PROVE  \A d \in Commands : output'[d] = output[d] \/ command[d].at \in Pending
    <3>1. command[c].at = "calling" /\ output' = [output EXCEPT ![c] = Outcome(ok)]
      BY <2>2 DEF CrashInReturn
    <3> QED BY <3>1 DEF IInv, TypeOK, Pending
  <2> QED BY <2>1, <2>2
<1>3. ASSUME NEW c \in Commands
      PROVE  /\ command'[c].at \notin Pending
             /\ command'[c].at \in {"unsent", "done"} =>
                   /\ command[c].at = command'[c].at
                   /\ command'[c].kind = command[c].kind /\ command'[c].session = command[c].session
  <2>1. command[c] \in Command /\ command'[c] = Lost[c]
    BY <1>1 DEF IInv, TypeOK, Forget
  <2>2. CASE command[c].at \in Pending
    <3>1. Lost[c] = [command[c] EXCEPT !.at = "lost", !.object = 0]
      BY <2>2 DEF Lost
    <3>2. Lost[c].at = "lost"
      BY <3>1, <2>1 DEF Command
    <3> QED BY <3>2, <2>1 DEF Pending
  <2>3. CASE command[c].at \notin Pending
    <3>1. Lost[c] = [command[c] EXCEPT !.object = 0]
      BY <2>3 DEF Lost
    <3>2. /\ Lost[c].at = command[c].at /\ Lost[c].kind = command[c].kind
          /\ Lost[c].session = command[c].session
      BY <3>1, <2>1 DEF Command
    <3> QED BY <3>2, <2>1, <2>3
  <2> QED BY <2>2, <2>3
<1>4. Current'
  <2>1. \A m \in 1..Len(meeting') : FALSE
    BY <1>1, EmptySeq, SMT DEF Forget
  <2> QED BY <2>1, <1>1 DEF Forget, PatientInv, Current, Objects
<1>5. Courteous(Lines(meeting'), command', tasks', active')
  BY <1>3 DEF Courteous
<1>6. ASSUME NEW c \in Commands
      PROVE  Accounted(c)'
  <2>1. \A s : Spoken(c, s)' <=> Spoken(c, s)
    BY <1>1 DEF Spoken
  <2>2. command[c].at \in {"unsent", "done"} => output'[c] = output[c]
    BY <1>2 DEF Pending
  <2> QED BY <2>1, <2>2, <1>1, <1>3 DEF Accounted, PatientInv, Pending
<1> QED BY <1>1, <1>4, <1>5, <1>6, QuietStep DEF Follows, PatientInv
----------------------------------------------------------------------------
(* Theorems for patient clients *)

LEMMA PatientlyStarts ==
    ASSUME Init
    PROVE  PatientInv /\ Stored!Init
<1>1. meeting = <<>> /\ active = 0 /\ minuted = {} /\ \A m \in Objects : FALSE
  <2>1. \A m \in 1..Len(<<>>) : FALSE
    BY EmptySeq, SMT
  <2> QED BY <2>1 DEF Init, Objects
<1>2. \A s \in Sessions : saved[s].status = "none" /\ saved[s].turns = <<>>
                          /\ RecordOf(saved[s]) = [state |-> "none", turns |-> <<>>]
  BY RecordFacts DEF Init, Unknown
<1>3. Current
  BY <1>1, <1>2 DEF Current, IsOpen, OpenStatuses
<1>4. Courteous(Lines(meeting), command, tasks, active)
  BY DEF Courteous, Pending, Init
<1>5. Stored!Init
  BY <1>2 DEF Stored!Init
<1>6. \A c \in Commands : Accounted(c)
  BY DEF Accounted, Pending, Init
<1> QED BY <1>3, <1>4, <1>5, <1>6 DEF PatientInv

LEMMA PatientlyKept ==
    ASSUME Patient, IInv, PatientInv, [Next]_vars
    PROVE  Follows
<1>1. CASE UNCHANGED vars
  <2>1. PatientInv'
    BY <1>1 DEF vars, PatientInv, Current, Accounted, Spoken, Objects
  <2> QED BY <1>1, <2>1, QuietStep DEF vars, Follows
<1>2. CASE ReadLatest
  <2>1. latest \in Sessions /\ Restore(latest) /\ UNCHANGED <<stored, command, tasks, budget>>
    BY <1>2 DEF ReadLatest, IInv, TypeOK
  <2> QED BY <2>1, ReadPatiently
<1>3. ASSUME NEW s \in Sessions, Start(s) \/ ReadSession(s) \/ ReadMinutes(s)
      PROVE  Follows
  <2>1. CASE Start(s)
    BY <2>1, StartPatiently
  <2>2. CASE ReadSession(s) \/ ReadMinutes(s)
    <3>1. /\ Restore(s) \/ UNCHANGED memory
          /\ UNCHANGED <<stored, command, tasks, budget>>
      BY <2>2 DEF ReadSession, ReadMinutes, ReadState
    <3> QED BY <3>1, ReadPatiently
  <2> QED BY <2>1, <2>2, <1>3
<1>4. ASSUME NEW c \in Commands, NEW s \in Sessions, NEW kind \in Kinds, Send(c, s, kind)
      PROVE  Follows
  BY <1>4, SendPatiently
<1>5. CASE Progress
  <2>1. CASE StartTask
    BY <2>1, StartsTaskPatiently
  <2>2. CASE \E m \in Objects : Wake(m)
    BY <2>2, WakesPatiently
  <2>3. CASE \E c \in Commands : Return(c)
    BY <2>3, ReturnsPatiently
  <2> QED BY <2>1, <2>2, <2>3, <1>5 DEF Progress
<1>6. CASE Crash \/ \E c \in Commands, ok \in BOOLEAN : CrashInReturn(c, ok)
  BY <1>6, CrashesPatiently
<1> QED BY <1>1, <1>2, <1>3, <1>4, <1>5, <1>6 DEF Next

\* For clients that read a meeting before they send to it and wait for its end: in every
\* reachable state the commands of the broker belong to the one open meeting, and its
\* object begins with the turns stored last and has others only after a refused write.
THEOREM PatienceHolds == ASSUME Patient PROVE Spec => [](IInv /\ PatientInv)
<1>1. Init => IInv /\ PatientInv
  BY InvariantStarts, PatientlyStarts
<1>2. (IInv /\ PatientInv) /\ [Next]_vars => (IInv /\ PatientInv)'
  BY InvariantKept, PatientlyKept DEF Follows
<1> QED BY <1>1, <1>2, PTL DEF Spec

\* At most one call to the provider is under way at any time over all objects of all
\* meetings: the callers hold the lock of the one active object.
THEOREM SpeaksOneAtATime == ASSUME Patient PROVE Spec => []OneSpeaker
<1>1. IInv /\ PatientInv => OneSpeaker
  <2> DEFINE callers == {c \in Commands : command[c].at = "calling"}
  <2> SUFFICES ASSUME IInv, PatientInv
               PROVE  Cardinality(callers) <= 1
    BY DEF OneSpeaker
  <2>1. ASSUME NEW c \in callers
        PROVE  c = Head(meeting[active].queue)
    <3>1. command[c].object = active
      BY <2>1 DEF PatientInv, Courteous, Pending
    <3> QED BY <3>1, <2>1, CallerAtHead
  <2>2. CASE callers = {}
    <3>1. Cardinality(callers) = 0
      BY <2>2, FS_EmptySet
    <3> QED BY <3>1, SMT
  <2>3. CASE callers # {}
    <3>1. PICK c : callers = {c}
      BY <2>1, <2>3
    <3>2. Cardinality(callers) = 1
      BY <3>1, FS_Singleton
    <3> QED BY <3>2, SMT
  <2> QED BY <2>2, <2>3
<1> QED BY <1>1, PatienceHolds, PTL

\* Whenever the process stops and storage refuses a write, no speech of a closed meeting
\* is under way; as long as storage accepts every write, the minutes tell each speech
\* that was begun and not lost with the process.
THEOREM MinutesAreWhole == ASSUME Patient PROVE Spec => []MinutesTellAll
<1>1. ASSUME IInv, PatientInv, NEW c \in Commands, command[c].session # NoOne,
             command[c].kind = "speak", IsClosed(saved[command[c].session])
      PROVE  /\ command[c].at \notin Pending
             /\ faults = 0 /\ command[c].at = "done" /\ output[c] # "absent"
                   => Spoken(c, command[c].session)
  <2>1. ASSUME command[c].at \in Pending
        PROVE  FALSE
    <3>1. active # 0 /\ command[c].session = meeting[active].session
      BY <1>1, <2>1 DEF PatientInv, Courteous, Accounted
    <3>2. IsOpen(saved[command[c].session])
      BY <1>1, <3>1 DEF PatientInv, Current
    <3> QED BY <1>1, <3>2 DEF IsOpen, IsClosed, OpenStatuses, ClosedStatuses
  <2>2. Accounted(c)
    BY <1>1 DEF PatientInv
  <2> QED BY <2>1, <2>2, <1>1 DEF Accounted
<1>2. IInv /\ PatientInv => MinutesTellAll
  BY <1>1 DEF MinutesTellAll
<1> QED BY <1>2, PatienceHolds, PTL

\* The snapshots implement MeetingRecord, through crashes and refused writes: every step
\* of the broker opens, extends or closes one record, or leaves all as they are.
THEOREM SnapshotsKeepTheRecord == ASSUME Patient PROVE Spec => KeepsRecord
<1>1. Init => Stored!Init
  BY PatientlyStarts
<1>2. IInv /\ PatientInv /\ [Next]_vars
          => [Stored!Next]_[s \in Sessions |-> RecordOf(saved[s])]
  BY PatientlyKept DEF Follows, RecordStep, Records
<1> QED BY <1>1, <1>2, PatienceHolds, PTL DEF Spec, KeepsRecord, Stored!Spec

=============================================================================
