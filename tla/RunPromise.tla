---------------------------- MODULE RunPromise -----------------------------
(***************************************************************************)
(* What the office promises of an analysis run, seen through the status    *)
(* that its page shows (build_run_payload): a run is submitted once,       *)
(* either withdrawn or worked on once, ends in a draft or in a failure,    *)
(* and only a draft goes to a human, whose verdict is final.               *)
(***************************************************************************)
CONSTANT Runs
VARIABLE view

Views == {"none", "queued", "running", "review", "failed", "cancelled",
          "approved", "rejected", "hold"}

\* The changes of view that one run may make.
Leads == { <<"none", "queued">>, <<"queued", "running">>, <<"queued", "cancelled">>,
           <<"running", "review">>, <<"running", "failed">>,
           <<"review", "approved">>, <<"review", "rejected">>, <<"review", "hold">> }

Init == view = [r \in Runs |-> "none"]

\* Recovery moves several runs at once.
Move ==
    /\ view' \in [Runs -> Views]
    /\ \A r \in Runs : view'[r] # view[r] => <<view[r], view'[r]>> \in Leads

Spec == Init /\ [][Move]_view
=============================================================================
