--------------------------- MODULE MeetingRecord ---------------------------
(***************************************************************************)
(* What the stored record of an analysis run's committee meetings should   *)
(* be: a meeting opens when no other is open, its turns are only ever      *)
(* added to while it is open or by closing it, and once closed it stays    *)
(* as it is.                                                               *)
(***************************************************************************)
EXTENDS Sequences, SequencesExt

CONSTANTS Sessions, Turns
VARIABLE record

Meeting == [state : {"none", "open", "closed"}, turns : Seq(Turns)]

Init == record = [s \in Sessions |-> [state |-> "none", turns |-> <<>>]]

Open(s) ==
    /\ record[s].state = "none"
    /\ \A t \in Sessions : record[t].state # "open"
    /\ record' = [record EXCEPT ![s].state = "open"]

Extend(s) ==
    /\ record[s].state = "open"
    /\ record'[s].state = "open" /\ IsStrictPrefix(record[s].turns, record'[s].turns)
    /\ \A t \in Sessions \ {s} : record'[t] = record[t]

Close(s) ==
    /\ record[s].state = "open"
    /\ record'[s].state = "closed" /\ IsPrefix(record[s].turns, record'[s].turns)
    /\ \A t \in Sessions \ {s} : record'[t] = record[t]

Next == \E s \in Sessions : Open(s) \/ Extend(s) \/ Close(s)

Spec == Init /\ [][Next]_record
=============================================================================
