----------------------------- MODULE ResearchMC -----------------------------
(* Two requests, and answers of the sources that are whole, partial, late, *)
(* stale or unreadable.                                                    *)
EXTENDS Research, TLC

CONSTANTS r1, r2

Row(date, columns) == [date |-> date, columns |-> columns]
All == {"2y", "3y", "10y"}
Rates == {Row(1, All), Row(3, All)}
Prices == {Row(2, BlsSeries), Row(3, BlsSeries)}
Feed(treasury, bls) == [treasury |-> treasury, bls |-> bls]
TwoYears == {Answer("answered", {Row(1, All)}), Answer("answered", {Row(3, All), Row(4, {"2y"})})}
Macro == {Feed(TwoYears, Answer("answered", Prices)),
          Feed({Answer("failed", {}), Answer("answered", Rates)}, Answer("garbled", {}))}
Korean == {[s \in EcosSeries |-> {3, 4}]}
Reported(id, section, observed, published) ==
    [id |-> id, section |-> section, observed |-> observed, published |-> published]
Company == [r \in Requests |->
    {{Reported("income", "company.fundamentals", 1, 3),
      Reported("equity", "company.fundamentals", 2, 4),
      Reported("10-K", "company.news", 3, 3)}}]
Price == [observed |-> 3, fetched |-> 4, complete |-> TRUE, mismatch |-> FALSE]
Fresh == [observed |-> 4, fetched |-> 5, complete |-> TRUE, mismatch |-> FALSE]
Foreign == [observed |-> 2, fetched |-> 3, complete |-> FALSE, mismatch |-> TRUE]
Wish(market, cutoff, snapshot) ==
    [market |-> market, cutoff |-> cutoff, snapshot |-> snapshot]
Asked == [r \in Requests |->
    IF r = r1 THEN {Wish("kr", None, Price), Wish("us", 3, Foreign), Wish("us", 2, Price), Wish("us", None, Fresh)}
    ELSE {Wish("us", None, None)}]
Back == [s \in TreasurySeries |-> 2] @@ [s \in BlsSeries |-> 1]
Slack == [s \in TreasurySeries |-> 1] @@ [s \in BlsSeries |-> 0]
Ages == [s \in TreasurySeries |-> 1] @@ [s \in BlsSeries |-> 2] @@ [s \in EcosSeries |-> 2]
=============================================================================
