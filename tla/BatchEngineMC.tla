--------------------------- MODULE BatchEngineMC ---------------------------
(***************************************************************************)
(* Instances of BatchEngine for TLC.                                       *)
(***************************************************************************)
EXTENDS BatchEngine, TLC

CONSTANTS s1, s2, stockA, stockB, k1, k2, p1, p2, p3, custom, before

Both == {s1, s2}
C(stock, key, param, sheets) ==
  [stock |-> stock, key |-> key, param |-> param, sheets |-> sheets]

\* Two stocks with the same window, then a parameter that is the same rounded.
TwoStocks == <<C(stockA, k1, p1, {s1}), C(stockB, k1, p1, {s1}),
               C(stockB, k1, p2, {s1})>>
\* Two stocks, on two copies of the spreadsheet.
TwoCopies == <<C(stockA, k1, p1, Both), C(stockB, k1, p1, Both)>>
\* One stock: two parameters that look alike, then another window.
TwoWindows == <<C(stockA, k1, p2, {s1}), C(stockA, k1, p3, {s1}),
                C(stockA, k2, p1, {s1})>>
\* One stock: a parameter that loses everything, then two that do not.
Losing == <<C(stockA, k1, p1, {s1}), C(stockA, k1, p2, {s1}),
            C(stockA, k2, p3, {s1})>>
OneWindow == <<C(stockA, k1, p1, {s1}), C(stockA, k1, p2, {s1}),
               C(stockA, k1, p3, {s1})>>
\* A fixed product and another one, each with its own spreadsheet.
TwoProducts == <<C(stockA, k1, p1, {s1}), C(stockA, k1, p3, {s1}),
                 C(stockB, k1, p1, {s2})>>

Plans == "c3" :> OneWindow @@ "c4" :> TwoWindows @@ "c5" :> TwoStocks
         @@ "c7" :> TwoCopies @@ "c1_1" :> Losing
         @@ "training" :> TwoWindows @@ "multi" :> TwoProducts
AllEngines == DOMAIN Plans

PreviousUser == [kline |-> <<before, k1>>, param |-> p1]
TheirKline   == <<custom, k1>>
\* The first two parameters are the same after rounding.
Rounded == {<<p, p>> : p \in {p1, p2, p3}} \cup {<<p1, p2>>, <<p2, p1>>}
=============================================================================
