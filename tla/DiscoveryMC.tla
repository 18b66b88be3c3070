---- MODULE DiscoveryMC ----
(* Instances of Discovery for TLC. *)
EXTENDS Discovery

CONSTANTS alpha, beta, gamma, delta, s1, s2

\* A listing that stays, and one that exchanges a member.
Staying    == {{alpha, beta, gamma}}
Exchanging == {{alpha, beta}, {beta, gamma}}

\* The listings that earlier caches may be of: the present ones, one that lacked a member
\* and one that had another instead.
Listings == Universes \cup {{alpha, gamma}, {beta, delta}}

\* Alpha and beta are two classes of one company's shares, or of companies of their own.
Shared   == [t \in Tickers |-> IF t \in {alpha, beta} THEN 1 ELSE 2]
Distinct == [t \in Tickers |-> CASE t = alpha -> 1 [] t = beta -> 2 [] OTHER -> 3]

\* The last ticker in the order alpha, beta, gamma, delta.
LastTicker ==
    [T \in SUBSET Tickers |-> CASE delta \in T -> delta
                               [] delta \notin T /\ gamma \in T -> gamma
                               [] {gamma, delta} \cap T = {} /\ beta \in T -> beta
                               [] OTHER -> alpha]

\* The report of the first company lies in the first chunk, the others' with the
\* directory.
Place == [n \in Filers |-> IF n = 1 THEN 1 ELSE 2]

\* Fundamentals of an earlier listing: the SEC's hold every filer.
Nothing    == [m \in Markets |-> None]
Earlier(m) == {[Nothing EXCEPT ![m] = [items |-> i, requested |-> u]] :
                  <<u, i>> \in {<<u, i>> \in Listings \X SUBSET Tickers :
                                  IF m = "US" THEN Whole([items |-> i, requested |-> u]) ELSE i \subseteq u}}

\* Two scans of the US without a cache, of which one forces a refresh, or one
\* scan of a market with what an earlier one left.
Busy  == {[requests |-> {<<s1, "US", TRUE>>, <<s2, "US", FALSE>>}, batch |-> Nothing]}
Quiet == UNION {{[requests |-> {<<s1, m, FALSE>>}, batch |-> e] : e \in {Nothing} \cup Earlier(m)} :
                   m \in Markets}
BusyOrQuiet == Busy \cup Quiet
====
