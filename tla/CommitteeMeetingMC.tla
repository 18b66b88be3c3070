------------------------- MODULE CommitteeMeetingMC -------------------------
(* CommitteeMeeting on small sets; commands and sessions are interchangeable. *)
EXTENDS CommitteeMeeting, TLC

Symmetry == Permutations(Sessions) \cup Permutations(Commands)
=============================================================================
