-------------------------- MODULE WorkQueue_proofs --------------------------
(***************************************************************************)
(* Theorems about WorkQueue, for every set of items, lanes and drains and  *)
(* every bound: type correctness, exclusive execution, one provider call   *)
(* per attempt and queue order.                                            *)
(***************************************************************************)
EXTENDS WorkQueue, TLAPS

\* Parts of the inductive invariant.  What a drain holds:
DrainInv ==
    /\ \A d \in Drains : drain[d].phase # "idle" => drain[d].role \in Roles
    /\ \A d \in Drains : drain[d].phase # "calling" => drain[d].item = None
    /\ \A d \in Drains : drain[d].phase = "calling" =>
          /\ drain[d].item \in Items
          /\ item[drain[d].item].status = "running"
          /\ item[drain[d].item].role = drain[d].role
    /\ \A d, e \in Drains :
          drain[d].phase = "calling" /\ drain[e].phase = "calling"
            /\ drain[d].role = drain[e].role => d = e
    /\ ~up => \A d \in Drains : drain[d].phase = "idle"

\* An item in some lane runs alone there.
LaneInv ==
    /\ \A i \in Items : item[i].status # "absent" => item[i].role \in Roles
    /\ \A i, j \in Items :
          item[i].status = "running" /\ item[j].status = "running"
            /\ item[i].role = item[j].role => i = j

\* An attempt that waits in the queue, or is still to come, has not reached the
\* provider.
Untried(i, a) ==
    \/ a > item[i].attempt
    \/ a = item[i].attempt /\ item[i].status = "queued"

CallInv ==
    \A i \in Items :
        /\ item[i].status = "absent" => item[i].attempt = 0
        /\ \A a \in Attempts :
              /\ calls[i][a] <= 1
              /\ Untried(i, a) => calls[i][a] = 0

\* The clock of a lane is its greatest sequence number, and an item's
\* sequence number counts the entries into its queue.
OrderInv ==
    \A r \in Roles :
        /\ \A i \in Lane(r) : item[i].seq = item[i].ticket /\ item[i].seq <= clock[r]
        /\ clock[r] # 0 => \E i \in Lane(r) : item[i].seq = clock[r]

IInv == TypeOK /\ DrainInv /\ LaneInv /\ CallInv /\ OrderInv

----------------------------------------------------------------------------
\* The next sequence number of a lane follows its clock.
LEMMA NextQueueSequenceValue ==
    ASSUME TypeOK, OrderInv, NEW r \in Roles
    PROVE  NextQueueSequence(r) = clock[r] + 1
<1> DEFINE S == {0} \cup {item[i].seq : i \in Lane(r)}
<1>1. clock[r] \in Nat /\ \A i \in Lane(r) : item[i].seq \in Nat
  BY DEF TypeOK, Item, Lane
<1>2. clock[r] \in S /\ \A y \in S : y \in Nat /\ clock[r] >= y
  BY <1>1 DEF OrderInv
<1>3. NextQueueSequence(r) = Max(S) + 1
  BY DEF NextQueueSequence
<1> HIDE DEF S
<1>4. Max(S) \in S /\ \A y \in S : Max(S) >= y
  BY <1>2 DEF Max
<1>5. Max(S) = clock[r]
  BY <1>1, <1>2, <1>4
<1> QED BY <1>3, <1>5

\* The record of an item that enters a queue.
LEMMA EnqueuedRecord ==
    ASSUME TypeOK, OrderInv, NEW i \in Items, NEW r \in Roles, NEW n \in Nat
    PROVE  /\ Enqueued(i, r, n) \in Item
           /\ Enqueued(i, r, n) =
                 [status |-> "queued", role |-> r, seq |-> clock[r] + 1, attempt |-> n,
                  progress |-> FALSE, ticket |-> clock[r] + 1]
<1>1. Enqueued(i, r, n) =
        [status |-> "queued", role |-> r, seq |-> clock[r] + 1, attempt |-> n,
         progress |-> FALSE, ticket |-> clock[r] + 1]
  BY NextQueueSequenceValue DEF Enqueued
<1>2. clock[r] + 1 \in Nat
  BY DEF TypeOK
<1> QED BY <1>1, <1>2 DEF Item, Statuses

----------------------------------------------------------------------------
LEMMA InitInv == Init => IInv
<1> SUFFICES ASSUME Init PROVE IInv
  OBVIOUS
<1> USE DEF Init, NoItem, NoDrains, Idle
<1>1. TypeOK
  BY DEF TypeOK, Item, Drain, Statuses, RunStatuses, Phases
<1>2. DrainInv /\ LaneInv /\ CallInv /\ OrderInv
  BY DEF DrainInv, LaneInv, CallInv, OrderInv, Lane
<1> QED BY <1>1, <1>2 DEF IInv

\* An item enters its lane's queue and a drain is started for the lane.
LEMMA EnqueueStep ==
    ASSUME IInv, up, NEW i \in Items, NEW r \in Roles, NEW n \in Nat,
           \/ item[i].status = "absent" /\ n = 1
           \/ item[i].status \in {"failed", "cancelled"} /\ item[i].role = r
                /\ n = item[i].attempt + 1,
           item[i].attempt < n,
           item' = [item EXCEPT ![i] = Enqueued(i, r, n)],
           clock' = [clock EXCEPT ![r] = @ + 1],
           Spawn(r),
           UNCHANGED <<run, market, analysis, up, calls, budget>>
    PROVE  IInv'
<1> DEFINE rec == [status |-> "queued", role |-> r, seq |-> clock[r] + 1, attempt |-> n,
                   progress |-> FALSE, ticket |-> clock[r] + 1]
<1>1. rec \in Item /\ item' = [item EXCEPT ![i] = rec]
  BY EnqueuedRecord DEF IInv
<1>2. PICK d \in Drains : drain[d].phase = "idle" /\ drain' = [drain EXCEPT ![d] = Ready(r)]
  BY DEF Spawn, IdleDrains
<1>3. TypeOK'
  <2>1. item' \in [Items -> Item]
    BY <1>1 DEF IInv, TypeOK
  <2>2. Ready(r) \in Drain
    BY DEF Ready, Drain, Phases
  <2>3. drain' \in [Drains -> Drain]
    BY <1>2, <2>2 DEF IInv, TypeOK
  <2>4. clock' \in [Roles -> Nat]
    BY DEF IInv, TypeOK
  <2> QED BY <2>1, <2>3, <2>4 DEF IInv, TypeOK, budget
<1>4. DrainInv'
  BY <1>1, <1>2 DEF IInv, TypeOK, DrainInv, Ready
<1>5. LaneInv'
  BY <1>1 DEF IInv, TypeOK, LaneInv
<1>6. CallInv'
  <2>1. \A j \in Items : item'[j] = IF j = i THEN rec ELSE item[j]
    BY <1>1 DEF IInv, TypeOK
  <2>2. \A a \in Attempts : a \in Nat
    BY DEF Attempts
  <2>3. item[i].attempt \in Nat
    BY DEF IInv, TypeOK, Item
  <2>4. \A a \in Attempts : a >= n => Untried(i, a)
    <3>1. \A a \in Attempts : a >= n => a > item[i].attempt
      BY <2>2, <2>3, SMT
    <3> QED BY <3>1 DEF Untried
  <2>5. \A j \in Items, a \in Attempts : Untried(j, a)' => Untried(j, a)
    BY <2>1, <2>2, <2>4 DEF Untried
  <2> QED BY <2>1, <2>5 DEF IInv, CallInv
<1>7. OrderInv'
  BY <1>1 DEF IInv, TypeOK, OrderInv, Item, Lane
<1> QED BY <1>3, <1>4, <1>5, <1>6, <1>7 DEF IInv

\* The item of an idle or waiting drain's turn leaves the queue with a
\* stored outcome, without or with the drain changing its own state.
LEMMA OutcomeStep ==
    ASSUME IInv, NEW i \in Items, NEW d \in Drains, NEW s \in {"completed", "failed", "cancelled"},
           item[i].status = "queued" \/ (drain[d].phase = "calling" /\ drain[d].item = i),
           item' = [item EXCEPT ![i].status = s],
           \/ UNCHANGED drain /\ item[i].status = "queued"
           \/ drain' = [drain EXCEPT ![d].phase = "ready"] /\ drain[d].phase \in {"ready", "sleeping"}
           \/ drain' = [drain EXCEPT ![d] = Ready(@.role)] /\ drain[d].phase = "calling",
           up,
           UNCHANGED <<run, market, analysis, up, history, budget>>
    PROVE  IInv'
<1> USE DEF IInv
<1>1. TypeOK'
  <2>1. item' \in [Items -> Item]
    BY DEF TypeOK, Item, Statuses
  <2>2. drain' \in [Drains -> Drain]
    BY DEF TypeOK, Drain, Phases, Ready
  <2> QED BY <2>1, <2>2 DEF TypeOK, history, budget
<1>2. \A j \in Items :
         /\ item'[j].status = IF j = i THEN s ELSE item[j].status
         /\ item'[j].role = item[j].role /\ item'[j].seq = item[j].seq
         /\ item'[j].attempt = item[j].attempt /\ item'[j].ticket = item[j].ticket
  BY DEF TypeOK, Item
<1>3. \A e \in Drains :
         /\ drain'[e].role = drain[e].role
         /\ drain'[e].phase = "idle" <=> drain[e].phase = "idle"
         /\ drain'[e].phase = "calling" =>
               drain[e].phase = "calling" /\ drain'[e].item = drain[e].item /\ drain[e].item # i
         /\ drain'[e].phase # "calling" => drain'[e].item = None
  <2>1. \A e \in Drains : drain[e].phase = "calling" /\ drain[e].item = i =>
           e = d /\ drain[d].phase = "calling"
    BY DEF DrainInv
  <2>2. CASE UNCHANGED drain /\ item[i].status = "queued"
    BY <2>2 DEF DrainInv
  <2>3. CASE /\ drain' = [drain EXCEPT ![d].phase = "ready"]
             /\ drain[d].phase \in {"ready", "sleeping"}
    BY <2>1, <2>3 DEF DrainInv, TypeOK, Drain
  <2>4. CASE drain' = [drain EXCEPT ![d] = Ready(@.role)] /\ drain[d].phase = "calling"
    BY <2>1, <2>4 DEF DrainInv, TypeOK, Drain, Ready
  <2> QED BY <2>2, <2>3, <2>4
<1>4. DrainInv'
  BY <1>2, <1>3 DEF DrainInv
<1>5. LaneInv'
  BY <1>2 DEF LaneInv, DrainInv
<1>6. CallInv'
  BY <1>2 DEF CallInv, Untried, history, DrainInv
<1>7. OrderInv'
  BY <1>2 DEF OrderInv, Lane, history, DrainInv
<1> QED BY <1>1, <1>4, <1>5, <1>6, <1>7

\* The lane's next item starts to run in drain d.
LEMMA BeginStep ==
    ASSUME IInv, NEW d \in Drains, NEW i \in Items, Begin(d, i)
    PROVE  IInv'
<1> USE DEF IInv
<1>1. /\ item[i].status = "queued" /\ item[i].role = drain[d].role /\ up
      /\ drain[d].phase \in {"ready", "sleeping"} /\ drain[d].role \in Roles
      /\ \A j \in Items : item[j].role = drain[d].role => item[j].status # "running"
  <2>1. /\ AtTurn(d) /\ ~Busy(drain[d].role)
        /\ item[i].status = "queued" /\ item[i].role = drain[d].role
    BY DEF Begin, Takes, IsNext, Queued, Lane
  <2> QED BY <2>1 DEF AtTurn, Busy, Lane, DrainInv
<1>2. /\ item' = [item EXCEPT ![i].status = "running"]
      /\ drain' = [drain EXCEPT ![d].phase = "calling", ![d].item = i]
      /\ calls' = [calls EXCEPT ![i][item[i].attempt] = @ + 1]
      /\ UNCHANGED <<run, market, analysis, up, clock, budget>>
  BY DEF Begin
<1>3. TypeOK'
  <2>1. item' \in [Items -> Item] /\ calls' \in [Items -> [Attempts -> Nat]]
    <3>1. item' \in [Items -> Item]
      BY <1>2 DEF TypeOK, Item, Statuses
    <3>2. [calls[i] EXCEPT ![item[i].attempt] = @ + 1] \in [Attempts -> Nat]
      <4>1. calls[i] \in [Attempts -> Nat]
        BY DEF TypeOK
      <4>2. CASE item[i].attempt \in Attempts
        BY <4>1, <4>2
      <4>3. CASE item[i].attempt \notin Attempts
        BY <4>1, <4>3
      <4> QED BY <4>2, <4>3
    <3>3. calls' = [calls EXCEPT ![i] = [calls[i] EXCEPT ![item[i].attempt] = @ + 1]]
      BY <1>2
    <3>4. calls' \in [Items -> [Attempts -> Nat]]
      BY <3>2, <3>3 DEF TypeOK
    <3> QED BY <3>1, <3>4
  <2>2. drain' \in [Drains -> Drain]
    BY <1>2 DEF TypeOK, Drain, Phases
  <2> QED BY <1>2, <2>1, <2>2 DEF TypeOK, budget
<1>4. \A j \in Items :
         /\ item'[j].status = IF j = i THEN "running" ELSE item[j].status
         /\ item'[j].role = item[j].role /\ item'[j].seq = item[j].seq
         /\ item'[j].attempt = item[j].attempt /\ item'[j].ticket = item[j].ticket
  BY <1>2 DEF TypeOK, Item
<1>5. \A e \in Drains :
         /\ drain'[e].role = drain[e].role
         /\ drain'[e].phase = IF e = d THEN "calling" ELSE drain[e].phase
         /\ drain'[e].item = IF e = d THEN i ELSE drain[e].item
  BY <1>2 DEF TypeOK, Drain
<1>6. \A e \in Drains : drain[e].phase = "calling" => drain[e].item # i /\ drain[e].role # drain[d].role
  BY <1>1 DEF DrainInv
<1>7. DrainInv'
  <2>1. \A e \in Drains : drain'[e].phase = "calling" =>
           /\ drain'[e].item \in Items
           /\ item'[drain'[e].item].status = "running"
           /\ item'[drain'[e].item].role = drain'[e].role
    BY <1>1, <1>4, <1>5 DEF DrainInv
  <2>2. \A e, f \in Drains :
           drain'[e].phase = "calling" /\ drain'[f].phase = "calling"
             /\ drain'[e].role = drain'[f].role => e = f
    BY <1>5, <1>6 DEF DrainInv
  <2>3. up' /\ \A e \in Drains : /\ drain'[e].phase # "idle" => drain'[e].role \in Roles
                                 /\ drain'[e].phase # "calling" => drain'[e].item = None
    BY <1>1, <1>2, <1>5 DEF DrainInv
  <2> QED BY <2>1, <2>2, <2>3 DEF DrainInv
<1>8. LaneInv'
  BY <1>1, <1>4 DEF LaneInv
<1>9. CallInv'
  <2> DEFINE n == item[i].attempt
  <2>1. /\ n \in Nat /\ \A a \in Attempts : a \in Nat
        /\ \A j \in Items, a \in Attempts : calls[j][a] \in Nat
    <3>1. n \in Nat
      BY DEF TypeOK, Item
    <3>2. \A a \in Attempts : a \in Nat
      BY DEF Attempts
    <3>3. \A j \in Items, a \in Attempts : calls[j][a] \in Nat
      BY DEF TypeOK
    <3> QED BY <3>1, <3>2, <3>3
  <2>2. \A j \in Items, a \in Attempts :
           calls'[j][a] = IF j = i /\ a = n THEN calls[j][a] + 1 ELSE calls[j][a]
    BY <1>2 DEF TypeOK
  <2>3. n \in Attempts => calls[i][n] = 0
    BY <1>1 DEF CallInv, Untried
  <2>4. \A j \in Items, a \in Attempts :
           Untried(j, a)' => Untried(j, a) /\ ~(j = i /\ a = n)
    BY <1>1, <1>4, <2>1 DEF Untried
  <2>5. \A j \in Items : item'[j].status = "absent" => item'[j].attempt = 0
    BY <1>4 DEF CallInv
  <2> QED BY <2>1, <2>2, <2>3, <2>4, <2>5 DEF CallInv
<1>10. OrderInv'
  <2>1. \A r \in Roles : Lane(r)' = Lane(r)
    BY <1>1, <1>4 DEF Lane
  <2> QED BY <1>2, <1>4, <2>1 DEF OrderInv, Lane
<1> QED BY <1>3, <1>7, <1>8, <1>9, <1>10

\* A drain that ends or goes to sleep disturbs nothing but itself.
LEMMA DrainStep ==
    ASSUME IInv, NEW d \in Drains, up, UNCHANGED <<stored, up, history>>,
           analysis' = analysis, stops' = stops, faults' \in Nat,
           \/ drain' = [drain EXCEPT ![d] = Idle]
           \/ drain' = [drain EXCEPT ![d].phase = "sleeping"] /\ drain[d].phase \in {"ready", "sleeping"}
    PROVE  IInv'
<1> USE DEF IInv, stored, history
<1>1. drain' \in [Drains -> Drain]
  BY DEF TypeOK, Drain, Phases, Idle
<1>2. TypeOK'
  BY <1>1 DEF TypeOK
<1>3. \A e \in Drains :
         \/ drain'[e] = drain[e]
         \/ drain'[e].phase = "idle" /\ drain'[e].item = None
         \/ drain'[e].phase = "sleeping" /\ drain'[e].item = None /\ drain'[e].role \in Roles
  BY DEF TypeOK, Drain, Idle, DrainInv
<1>4. DrainInv'
  BY <1>3 DEF DrainInv
<1>5. LaneInv' /\ CallInv' /\ OrderInv'
  BY DEF LaneInv, CallInv, Untried, OrderInv, Lane
<1> QED BY <1>2, <1>4, <1>5

\* A stop or a recovery: every drain is idle or starts afresh, and an item
\* keeps everything but its status, which changes to an outcome.
LEMMA StopStep ==
    ASSUME IInv, item' \in [Items -> Item], run' \in RunStatuses, up' \in BOOLEAN,
           drain' \in [Drains -> Drain], analysis' \in BOOLEAN, stops' \in Nat,
           UNCHANGED <<market, history, faults>>,
           \A i \in Items : item'[i] = item[i] \/
              \E s \in {"failed", "cancelled"} :
                 item'[i] = [item[i] EXCEPT !.status = s] /\ item[i].status # "absent",
           \A d \in Drains :
              \/ drain'[d].phase = "idle" /\ drain'[d].item = None
              \/ up' /\ \E r \in Roles : drain'[d] = Ready(r)
    PROVE  IInv'
<1> USE DEF IInv, history
<1>1. TypeOK'
  BY DEF TypeOK
<1>2. \A j \in Items :
         /\ \/ item'[j].status = item[j].status
            \/ item'[j].status \in {"failed", "cancelled"} /\ item[j].status # "absent"
         /\ item'[j].role = item[j].role /\ item'[j].seq = item[j].seq
         /\ item'[j].attempt = item[j].attempt /\ item'[j].ticket = item[j].ticket
  BY DEF TypeOK, Item
<1>3. \A d \in Drains :
         /\ drain'[d].item = None /\ drain'[d].phase # "calling"
         /\ drain'[d].phase # "idle" => up' /\ drain'[d].role \in Roles
  BY DEF Idle, Ready
<1>4. DrainInv'
  BY <1>3 DEF DrainInv
<1>5. LaneInv'
  BY <1>2 DEF LaneInv
<1>6. CallInv'
  BY <1>2 DEF CallInv, Untried
<1>7. OrderInv'
  BY <1>2 DEF OrderInv, Lane
<1> QED BY <1>1, <1>4, <1>5, <1>6, <1>7

----------------------------------------------------------------------------
LEMMA NextInv == IInv /\ [Next]_vars => IInv'
<1> SUFFICES ASSUME IInv, [Next]_vars PROVE IInv'
  OBVIOUS
<1> USE DEF IInv
<1>1. ASSUME NEW i \in Items, NEW r \in Roles, Create(i, r) PROVE IInv'
  <2>1. item[i].attempt < 1
    BY <1>1 DEF Create, CallInv, TypeOK
  <2> QED BY <1>1, <2>1, EnqueueStep DEF Create
<1>2. ASSUME NEW i \in Items, Cancel(i) PROVE IInv'
  <2>1. CASE Drains = {}
    <3>1. item' \in [Items -> Item]
      BY <1>2 DEF Cancel, TypeOK, Item, Statuses
    <3>2. \A s \in {"cancelled"} : TRUE
      OBVIOUS
    <3> QED
      BY <1>2, <2>1, <3>1, StopStep DEF Cancel, TypeOK, history, budget
  <2>2. CASE Drains # {}
    <3>1. PICK d \in Drains : TRUE
      BY <2>2
    <3> QED BY <1>2, <3>1, OutcomeStep DEF Cancel
  <2> QED BY <2>1, <2>2
<1>3. ASSUME NEW i \in Items, Resume(i) PROVE IInv'
  <2>1. item[i].role \in Roles /\ item[i].attempt + 1 \in Nat /\ item[i].attempt < item[i].attempt + 1
    BY <1>3 DEF Resume, LaneInv, TypeOK, Item
  <2>2. item' = [item EXCEPT ![i] = Enqueued(i, item[i].role, item[i].attempt + 1)]
    BY <1>3 DEF Resume
  <2> QED BY <1>3, <2>1, <2>2, EnqueueStep DEF Resume
<1>4. ASSUME NEW i \in Items, RecordProgress(i) PROVE IInv'
  <2>1. item' \in [Items -> Item]
    BY <1>4 DEF RecordProgress, TypeOK, Item
  <2>2. \A j \in Items :
           /\ item'[j].status = item[j].status
           /\ item'[j].role = item[j].role /\ item'[j].seq = item[j].seq
           /\ item'[j].attempt = item[j].attempt /\ item'[j].ticket = item[j].ticket
    BY <1>4 DEF RecordProgress, TypeOK, Item
  <2>3. TypeOK' /\ UNCHANGED <<drain, up, calls, clock>>
    BY <1>4, <2>1 DEF RecordProgress, TypeOK, history, budget
  <2> QED BY <2>2, <2>3 DEF DrainInv, LaneInv, CallInv, Untried, OrderInv, Lane
<1>5. ASSUME NEW d \in Drains, Leave(d) \/ Sleep(d) \/ DrainDies(d) PROVE IInv'
  BY <1>5, DrainStep DEF Leave, Sleep, DrainDies, AtTurn, Takes, TypeOK, budget
<1>6. ASSUME NEW d \in Drains, NEW i \in Items, Discard(d, i) \/ BeginWithGap(d, i) PROVE IInv'
  BY <1>6, OutcomeStep DEF Discard, BeginWithGap, AtTurn, Takes, IsNext, Queued
<1>7. ASSUME NEW d \in Drains, NEW i \in Items, Begin(d, i) PROVE IInv'
  BY <1>7, BeginStep
<1>8. ASSUME NEW d \in Drains, NEW o \in {"completed", "failed"}, Return(d, o) PROVE IInv'
  <2>1. drain[d].item \in Items
    BY <1>8 DEF Return, DrainInv
  <2> QED BY <1>8, <2>1, OutcomeStep DEF Return
<1>9. CASE Analysis
  <2>1. UNCHANGED <<item, drain, up, clock, calls, stops, faults>>
    BY <1>9 DEF Analysis, StartAnalysis, StoreMarketData, EndAnalysis, history, budget
  <2>2. TypeOK'
    BY <1>9, <2>1 DEF Analysis, StartAnalysis, StoreMarketData, EndAnalysis, TypeOK, RunStatuses
  <2> QED BY <2>1, <2>2 DEF DrainInv, LaneInv, CallInv, Untried, OrderInv, Lane
<1>10. CASE Crash
  <2>1. drain' \in [Drains -> Drain] /\ \A d \in Drains : drain'[d] = Idle
    BY <1>10 DEF Crash, NoDrains, Idle, Drain, Phases
  <2>2. UNCHANGED <<item, run, market, history, faults>> /\ up' \in BOOLEAN /\ analysis' \in BOOLEAN
    BY <1>10 DEF Crash, stored
  <2>3. stops' \in Nat /\ run' \in RunStatuses /\ item' \in [Items -> Item]
    BY <1>10, <2>2 DEF Crash, TypeOK
  <2> QED BY <2>1, <2>2, <2>3, StopStep DEF Idle
<1>11. CASE Shutdown
  <2>1. item' \in [Items -> Item]
    <3>1. \A i \in Items : item[i] \in Item /\ [item[i] EXCEPT !.status = "cancelled"] \in Item
      BY DEF TypeOK, Item, Statuses
    <3> QED BY <1>11, <3>1 DEF Shutdown
  <2>2. /\ drain' \in [Drains -> Drain]
        /\ \A d \in Drains : drain'[d].phase = "idle" /\ drain'[d].item = None
    BY <1>11 DEF Shutdown, NoDrains, Idle, Drain, Phases
  <2>3. \A i \in Items : item'[i] = item[i] \/
           \E s \in {"failed", "cancelled"} :
              item'[i] = [item[i] EXCEPT !.status = s] /\ item[i].status # "absent"
    <3> SUFFICES ASSUME NEW i \in Items
                 PROVE  \/ item'[i] = item[i]
                        \/ item'[i] = [item[i] EXCEPT !.status = "cancelled"]
                             /\ item[i].status = "running"
      OBVIOUS
    <3> QED BY <1>11 DEF Shutdown
  <2>4. /\ UNCHANGED <<market, history, faults>> /\ run' \in RunStatuses
        /\ up' \in BOOLEAN /\ analysis' \in BOOLEAN /\ stops' \in Nat
    <3>1. stops' \in Nat
      BY <1>11 DEF Shutdown, TypeOK
    <3>2. /\ UNCHANGED <<market, history, faults>> /\ UNCHANGED run
          /\ up' \in BOOLEAN /\ analysis' \in BOOLEAN
      BY <1>11 DEF Shutdown
    <3> QED BY <3>1, <3>2 DEF TypeOK
  <2> QED BY <2>1, <2>2, <2>3, <2>4, StopStep
<1>12. RecoveredRun \in RunStatuses
  BY DEF RecoveredRun, TypeOK, RunStatuses
<1>13. \A i \in Items :
          /\ Recovered(i) \in Item
          /\ \/ Recovered(i) = item[i]
             \/ Recovered(i) = [item[i] EXCEPT !.status = "failed"] /\ item[i].status # "absent"
  BY DEF Recovered, TypeOK, Item, Statuses
<1>14. ASSUME Restart PROVE IInv'
  <2>1. PICK f \in [Requeued -> Drains] :
           drain' = [d \in Drains |->
                IF \E i \in Requeued : f[i] = d
                THEN Ready(item[CHOOSE i \in Requeued : f[i] = d].role) ELSE Idle]
    BY <1>14 DEF Restart
  <2>2. \A i \in Requeued : item[i].role \in Roles
    BY <1>13 DEF Requeued, Recovered, LaneInv
  <2>3. \A d \in Drains : drain'[d] = Idle \/ \E r \in Roles : drain'[d] = Ready(r)
    BY <2>1, <2>2
  <2>4. drain' \in [Drains -> Drain]
    BY <2>1, <2>3 DEF Idle, Ready, Drain, Phases
  <2>5. item' \in [Items -> Item] /\ \A i \in Items : item'[i] = Recovered(i)
    BY <1>13, <1>14 DEF Restart
  <2>6. \A d \in Drains :
           \/ drain'[d].phase = "idle" /\ drain'[d].item = None
           \/ up' /\ \E r \in Roles : drain'[d] = Ready(r)
    BY <1>14, <2>3 DEF Idle, Restart
  <2>7. /\ UNCHANGED <<market, history, faults>> /\ run' \in RunStatuses
        /\ up' \in BOOLEAN /\ analysis' \in BOOLEAN /\ stops' \in Nat
    BY <1>12, <1>14 DEF Restart, TypeOK, budget
  <2>8. \A i \in Items : item'[i] = item[i] \/
           \E s \in {"failed", "cancelled"} :
              item'[i] = [item[i] EXCEPT !.status = s] /\ item[i].status # "absent"
    BY <1>13, <2>5
  <2> QED BY <2>4, <2>5, <2>6, <2>7, <2>8, StopStep
<1>15. ASSUME NEW S \in SUBSET Items, RestartCutShort(S) PROVE IInv'
  <2>1. /\ item' \in [Items -> Item]
        /\ \A i \in Items : item'[i] = Recovered(i) \/ item'[i] = item[i]
    BY <1>13, <1>15 DEF RestartCutShort, TypeOK
  <2>2. \A d \in Drains : drain'[d].phase = "idle" /\ drain'[d].item = None
    BY <1>15 DEF RestartCutShort, DrainInv
  <2>3. /\ UNCHANGED <<market, history, faults>> /\ run' \in RunStatuses
        /\ up' \in BOOLEAN /\ analysis' \in BOOLEAN /\ stops' \in Nat
        /\ drain' \in [Drains -> Drain]
    BY <1>12, <1>15 DEF RestartCutShort, TypeOK
  <2>4. \A i \in Items : item'[i] = item[i] \/
           \E s \in {"failed", "cancelled"} :
              item'[i] = [item[i] EXCEPT !.status = s] /\ item[i].status # "absent"
    BY <1>13, <2>1
  <2> QED BY <2>1, <2>2, <2>3, <2>4, StopStep
<1>16. CASE UNCHANGED vars
  BY <1>16 DEF vars, TypeOK, DrainInv, LaneInv, CallInv, Untried, OrderInv, Lane
<1> QED
  BY <1>1, <1>2, <1>3, <1>4, <1>5, <1>6, <1>7, <1>8, <1>9, <1>10, <1>11, <1>14, <1>15, <1>16
  DEF Next, Request, Turn, Answer, Stop

----------------------------------------------------------------------------
\* The inductive invariant holds throughout.
THEOREM InvariantHolds == Spec => []IInv
  BY InitInv, NextInv, PTL DEF Spec

\* Every variable keeps its type: storage never holds a malformed work item
\* (_persist, _transition), whatever stops and failures occur.
THEOREM TypeCorrect == Spec => []TypeOK
  BY InvariantHolds, PTL DEF IInv

\* run_next lets at most one item of a lane run, for any number of drains,
\* crashes, interrupted recoveries and storage failures.
THEOREM LaneExclusion == Spec => []OneRunningPerLane
<1>1. IInv => OneRunningPerLane
  BY DEF IInv, LaneInv, OneRunningPerLane, Lane
<1> QED BY <1>1, InvariantHolds, PTL

\* A drain that comes back from the provider finds its item still running
\* and is alone in its lane, so run_next's stale-state errors cannot occur.
THEOREM CallOwnership == Spec => []CallOwnsItem
<1>1. IInv => CallOwnsItem
  BY DEF IInv, DrainInv, CallOwnsItem
<1> QED BY <1>1, InvariantHolds, PTL

\* The provider calls of each single attempt are at most one, whatever was cancelled
\* unsent, interrupted or recovered before.
THEOREM SingleCallPerAttempt == Spec => []OneCallPerAttempt
<1>1. IInv => OneCallPerAttempt
  BY DEF IInv, CallInv, OneCallPerAttempt
<1> QED BY <1>1, InvariantHolds, PTL

\* queue_sequence is first in, first out in every lane.
THEOREM QueueIsFifo == Spec => []QueueOrder
<1>1. IInv => QueueOrder
  BY DEF IInv, OrderInv, QueueOrder, Queued, Lane
<1> QED BY <1>1, InvariantHolds, PTL
=============================================================================
