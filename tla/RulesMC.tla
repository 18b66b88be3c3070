------------------------------ MODULE RulesMC ------------------------------
(* Small inputs for the rules. *)
EXTENDS Rules, TLC

----------------------------------------------------------------------------
(* A small market: three companies of one sector and one of another. *)

Sound == [sector |-> "tech", special |-> FALSE, age |-> 100,
          revenue |-> <<100, 110, 121>>, operating |-> <<10, 11, 12>>,
          net |-> <<8, 9, 10>>, cash |-> <<9, -1, 12>>,
          equity |-> 50, assets |-> 200, liabilities |-> 70, pe |-> 20, pb |-> None]

Risky == [Sound EXCEPT !.sector = "energy", !.net = <<-2, 3, 4>>, !.liabilities = 120, !.pe = None]

Steady == [close |-> 10, sma20 |-> 10, sma50 |-> 9, sma200 |-> 8, high |-> 12, low |-> 6,
           return5 |-> 1, return20 |-> 4, return60 |-> 10, rsi |-> 55, volatility |-> 30,
           volume |-> 7, observations |-> 250]

Companies ==
    {[filings |-> <<Sound, [Sound EXCEPT !.net = <<8, 9, 7>>], [Sound EXCEPT !.liabilities = 90], Risky>>,
      quotes |-> [c \in 1 .. 4 |-> [Steady EXCEPT !.return60 = 10 * (c - 2)]]]}

Corrections ==
    [revenue |-> {0, 90, 150}, operating |-> {-1, 20}, net |-> {-5, 15}, cash |-> {-3},
     equity |-> {0, 60}, assets |-> {None}, liabilities |-> {30, 150}, pe |-> {None, 8, 45},
     age |-> {551}, sector |-> {None, "energy"}, special |-> {TRUE}]

Trades == [return60 |-> {-25, 40}, volume |-> {5}, volatility |-> {None, 60},
           observations |-> {199}, close |-> {7}, low |-> {12}]

----------------------------------------------------------------------------
(* Small documents: "b2" is another spelling of "b1". *)

Spelling == [a |-> "a", b1 |-> "b1", b2 |-> "b1"]
Reporting == [revenue |-> <<"Contract", "Revenues">>, net |-> <<"NetIncomeLoss">>]
Currencies == <<"USD", "EUR">>
RowLimits == [listing |-> 2, facts |-> 3, accounts |-> 3]

----------------------------------------------------------------------------
(* Macro readings on both sides of the policy's thresholds, around a calm  *)
(* market.                                                                 *)

CalmMarket ==
    "treasury_2y" :> 350 @@ "treasury_3y" :> 360 @@ "treasury_10y" :> 420
    @@ "treasury_10y_change" :> 10 @@ "curve_10y2y" :> 70
    @@ "kr_base_rate" :> 250 @@ "kr_treasury_3y" :> 260 @@ "kr_treasury_10y" :> 320
    @@ "broad_dollar_level" :> 12000 @@ "broad_dollar_change" :> -100
    @@ "usdk_rw_level" :> 135000 @@ "usdk_rw_change" :> -100
    @@ "vix_level" :> 1600 @@ "vix_change" :> 0
    @@ "wti_level" :> 7000 @@ "wti_change" :> 0
    @@ "brent_level" :> 7500 @@ "brent_change" :> 0
    @@ "bitcoin_level" :> 6000000 @@ "bitcoin_change" :> 1000

Moves ==
    "treasury_2y" :> {440} @@ "treasury_10y" :> {500}
    @@ "treasury_10y_change" :> {21, 35} @@ "curve_10y2y" :> {0, 49}
    @@ "kr_base_rate" :> {399, 400} @@ "kr_treasury_10y" :> {260, 450}
    @@ "broad_dollar_change" :> {0, 199, 200} @@ "usdk_rw_change" :> {0, 200}
    @@ "vix_level" :> {1801, 2500, 4000} @@ "vix_change" :> {1, 3000}
    @@ "brent_change" :> {-2000, 501, 1500} @@ "bitcoin_change" :> {-1500, 999}

Moving == DOMAIN Moves
=============================================================================
