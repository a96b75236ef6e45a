--------------------------- MODULE StockPosition ---------------------------
(***************************************************************************)
(* The arithmetic of get_stock_position (src/src/server.py): the sales of  *)
(* the last week, averaged and rounded to a tenth of a unit, the cover     *)
(* they leave, rounded to a tenth of a day, and the stockout risk that is  *)
(* read off the rounded cover.  Average and cover are counted in tenths.   *)
(*                                                                         *)
(* An operator that no step of Next uses, placed before the one it         *)
(* resembles, is a plausible slip.                                         *)
(***************************************************************************)
EXTENDS Integers

CONSTANTS
    NoCover,    \* Python's None for days_of_cover
    MaxOnHand,  \* bound: units on hand
    MaxSold,    \* bound: units sold in the week
    MaxLead     \* bound: days of lead time

ASSUME StockAssumption ==
    /\ NoCover \notin Int
    /\ MaxOnHand \in Nat /\ MaxSold \in Nat /\ MaxLead \in Nat

VARIABLES
    on_hand,  \* of get_inventory
    lead,     \* of get_supplier
    sold,     \* the sum of the week's rows of _daily_sales
    avg,      \* avg_daily_units_7d, in tenths
    cover,    \* days_of_cover, in tenths
    risk,     \* stockout_risk
    pc        \* what has been computed

vars == <<on_hand, lead, sold, avg, cover, risk, pc>>

\* The upstream calls have answered.
Init ==
    /\ on_hand \in 0..MaxOnHand /\ lead \in 0..MaxLead /\ sold \in 0..MaxSold
    /\ avg = 0 /\ cover = NoCover /\ risk = FALSE
    /\ pc = "average"

----------------------------------------------------------------------------
\* r is n / d rounded to an integer.  Of a tie, either side: what round()
\* does depends on the binary fraction nearest to n / d.
IsRounded(r, n, d) == (2 * r - 1) * d <= 2 * n /\ 2 * n <= (2 * r + 1) * d

Round(n, d) == {r \in (n \div d) .. (n \div d) + 1 : IsRounded(r, n, d)}

AverageInUnits ==
    /\ pc = "average"
    /\ \E units \in Round(sold, 7) : avg' = 10 * units
    /\ pc' = "cover"
    /\ UNCHANGED <<on_hand, lead, sold, cover, risk>>

\* round(sum / 7, 1)
Average ==
    /\ pc = "average"
    /\ avg' \in Round(10 * sold, 7)
    /\ pc' = "cover"
    /\ UNCHANGED <<on_hand, lead, sold, cover, risk>>

\* round(on_hand / avg_daily, 1), or None when nothing is sold.
Cover ==
    /\ pc = "cover"
    /\ IF avg > 0 THEN cover' \in Round(100 * on_hand, avg) ELSE cover' = NoCover
    /\ pc' = "risk"
    /\ UNCHANGED <<on_hand, lead, sold, avg, risk>>

CoversLead == cover # NoCover /\ cover <= 10 * lead
IsBelowLead == cover # NoCover /\ cover < 10 * lead

Risk ==
    /\ pc = "risk"
    /\ risk' = IsBelowLead
    /\ pc' = "answer"
    /\ UNCHANGED <<on_hand, lead, sold, avg, cover>>

Next == Average \/ Cover \/ Risk

Spec == Init /\ [][Next]_vars

----------------------------------------------------------------------------
(* Properties. *)

\* "days_of_cover is null when there were no sales in the last 7 days"
\* (server.py:82), and only then: one unit sold in a week does not round to
\* none.
NullMeansNoSales == pc = "answer" => (cover = NoCover <=> sold = 0)

\* "true when cover is shorter than lead time" (server.py:77).  The cover is
\* shorter than the lead time when there is less on hand than the lead time
\* sells, 7 * on_hand < lead * sold.  After two roundings the flag may be
\* wrong, but only for a stock that is too large (a false alarm) or too small
\* (a risk not shown) by a twentieth of a unit for each day of lead time, less
\* or plus a twentieth of a day's sales.
Short == 7 * on_hand < lead * sold

RiskIsClose ==
    pc = "answer" =>
        IF risk THEN Short \/ 200 * (7 * on_hand - lead * sold) <= 70 * lead - 7 * avg
                ELSE Short => 200 * (lead * sold - 7 * on_hand) <= 70 * lead + 7 * avg
=============================================================================
