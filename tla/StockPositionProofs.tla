------------------------ MODULE StockPositionProofs ------------------------
(***************************************************************************)
(* The flag of a stock position is right up to the two roundings, for      *)
(* every stock, every week of sales and every lead time.                   *)
(***************************************************************************)
EXTENDS StockPosition, TLAPS

Stock == on_hand \in Nat /\ lead \in Nat /\ sold \in Nat

\* What has been computed is a rounding of what it is computed from.
Averaged == avg \in Nat /\ IsRounded(avg, 10 * sold, 7)

Covered ==
    IF avg > 0 THEN cover \in Nat /\ IsRounded(cover, 100 * on_hand, avg) ELSE cover = NoCover

StockInv ==
    /\ Stock
    /\ pc \in {"average", "cover", "risk", "answer"}
    /\ pc # "average" => Averaged
    /\ pc \in {"risk", "answer"} => Covered
    /\ pc = "answer" => risk = IsBelowLead

\* Rounding a natural number gives a natural number near it.
LEMMA RoundIsRounded ==
    ASSUME NEW n \in Nat, NEW d \in Nat \ {0}, NEW r \in Round(n, d)
    PROVE  r \in Nat /\ IsRounded(r, n, d)
  <1>1. n \div d \in Nat
    BY SMT
  <1>2. r \in (n \div d) .. (n \div d) + 1 /\ IsRounded(r, n, d)
    BY DEF Round
  <1> QED BY <1>1, <1>2, SMT

\* The invariant holds at the start and after each of the three steps.
LEMMA StockInit == Init => StockInv
  BY StockAssumption DEF Init, StockInv, Stock

LEMMA StockStep == StockInv /\ [Next]_vars => StockInv'
  <1> SUFFICES ASSUME StockInv, [Next]_vars PROVE StockInv'
    OBVIOUS
  <1>1. CASE Average
    <2>1. avg' \in Round(10 * sold, 7) /\ sold \in Nat /\ 10 * sold \in Nat /\ 7 \in Nat \ {0}
      BY <1>1, SMT DEF Average, StockInv, Stock
    <2>2. avg' \in Nat /\ IsRounded(avg', 10 * sold, 7)
      BY <2>1, RoundIsRounded
    <2> QED BY <1>1, <2>2 DEF Average, StockInv, Stock, Averaged, IsRounded
  <1>2. CASE Cover
    <2>1. avg \in Nat /\ on_hand \in Nat /\ 100 * on_hand \in Nat
      BY <1>2, SMT DEF Cover, StockInv, Stock, Averaged
    <2>2. CASE avg > 0
      <3>1. cover' \in Round(100 * on_hand, avg) /\ avg \in Nat \ {0}
        BY <1>2, <2>1, <2>2, SMT DEF Cover
      <3>2. cover' \in Nat /\ IsRounded(cover', 100 * on_hand, avg)
        BY <2>1, <3>1, RoundIsRounded
      <3> QED BY <1>2, <2>2, <3>2 DEF Cover, StockInv, Stock, Averaged, Covered, IsRounded
    <2>3. CASE ~(avg > 0)
      BY <1>2, <2>3 DEF Cover, StockInv, Stock, Averaged, Covered, IsRounded
    <2> QED BY <2>2, <2>3
  <1>3. CASE Risk
    BY <1>3 DEF Risk, StockInv, Stock, Averaged, Covered, IsRounded, IsBelowLead
  <1>4. CASE UNCHANGED vars
    BY <1>4 DEF vars, StockInv, Stock, Averaged, Covered, IsRounded, IsBelowLead
  <1> QED BY <1>1, <1>2, <1>3, <1>4 DEF Next

----------------------------------------------------------------------------
(* Null means no sales. *)

\* One unit in a week is more than half a tenth a day.
LEMMA NoCoverLemma ==
    ASSUME StockInv, pc = "answer"
    PROVE  cover = NoCover <=> sold = 0
  <1>1. sold \in Nat /\ avg \in Nat
        /\ (2 * avg - 1) * 7 <= 2 * (10 * sold) /\ 2 * (10 * sold) <= (2 * avg + 1) * 7
    BY DEF StockInv, Stock, Averaged, IsRounded
  <1>2. avg > 0 <=> sold # 0
    BY <1>1, SMT
  <1>3. cover = NoCover <=> ~(avg > 0)
    BY StockAssumption DEF StockInv, Covered
  <1> QED BY <1>2, <1>3

\* days_of_cover is null exactly when nothing was sold in the week
\* (server.py:81), for every week of sales.
THEOREM NullExactly == Spec => []NullMeansNoSales
  <1>1. StockInv => NullMeansNoSales
    BY NoCoverLemma DEF NullMeansNoSales
  <1> QED BY StockInit, StockStep, <1>1, PTL DEF Spec

----------------------------------------------------------------------------
(* The flag is right up to rounding. *)

\* Multiplying an inequality by a natural number.
LEMMA TimesNat ==
    ASSUME NEW a \in Int, NEW b \in Int, NEW k \in Nat, a <= b
    PROVE  a * k <= b * k
  OBVIOUS

\* A cover below the lead time is below it by the half tenth that rounding may
\* take, of a day's sales.
LEMMA BelowLead ==
    ASSUME NEW h \in Nat, NEW s \in Nat, NEW l \in Nat, NEW a \in Nat, NEW c \in Nat,
           IsRounded(a, 10 * s, 7), IsRounded(c, 100 * h, a), c < 10 * l
    PROVE  200 * (7 * h - l * s) <= 70 * l - 7 * a
  <1>1. 200 * h <= (2 * c + 1) * a
    BY SMT DEF IsRounded
  <1>2. (2 * c + 1) * a <= (20 * l - 1) * a
    <2>1. 2 * c + 1 \in Int /\ 20 * l - 1 \in Int /\ 2 * c + 1 <= 20 * l - 1
      BY SMT
    <2> QED BY <2>1, TimesNat
  <1>3. (14 * a) * l <= (20 * s + 7) * l
    <2>1. 14 * a \in Int /\ 20 * s + 7 \in Int /\ 14 * a <= 20 * s + 7
      BY SMT DEF IsRounded
    <2> QED BY <2>1, TimesNat
  <1>4. (20 * l - 1) * a = 20 * (l * a) - a /\ (14 * a) * l = 14 * (l * a)
        /\ (20 * s + 7) * l = 20 * (l * s) + 7 * l
    BY SMT
  <1>5. l * a \in Int /\ l * s \in Int /\ (2 * c + 1) * a \in Int
    BY SMT
  <1>6. 200 * h <= 20 * (l * a) - a
    BY <1>1, <1>2, <1>4, <1>5, SMT
  <1>7. 14 * (l * a) <= 20 * (l * s) + 7 * l
    BY <1>3, <1>4
  <1> QED BY <1>5, <1>6, <1>7, SMT

\* Likewise a cover that is not below it.
LEMMA NotBelowLead ==
    ASSUME NEW h \in Nat, NEW s \in Nat, NEW l \in Nat, NEW a \in Nat, NEW c \in Nat,
           IsRounded(a, 10 * s, 7), IsRounded(c, 100 * h, a), ~(c < 10 * l)
    PROVE  200 * (l * s - 7 * h) <= 70 * l + 7 * a
  <1>1. (2 * c - 1) * a <= 200 * h
    BY SMT DEF IsRounded
  <1>2. (20 * l - 1) * a <= (2 * c - 1) * a
    <2>1. 2 * c - 1 \in Int /\ 20 * l - 1 \in Int /\ 20 * l - 1 <= 2 * c - 1
      BY SMT
    <2> QED BY <2>1, TimesNat
  <1>3. (20 * s - 7) * l <= (14 * a) * l
    <2>1. 14 * a \in Int /\ 20 * s - 7 \in Int /\ 20 * s - 7 <= 14 * a
      BY SMT DEF IsRounded
    <2> QED BY <2>1, TimesNat
  <1>4. (20 * l - 1) * a = 20 * (l * a) - a /\ (14 * a) * l = 14 * (l * a)
        /\ (20 * s - 7) * l = 20 * (l * s) - 7 * l
    BY SMT
  <1>5. l * a \in Int /\ l * s \in Int /\ (2 * c - 1) * a \in Int
    BY SMT
  <1>6. 20 * (l * a) - a <= 200 * h
    BY <1>1, <1>2, <1>4, <1>5, SMT
  <1>7. 20 * (l * s) - 7 * l <= 14 * (l * a)
    BY <1>3, <1>4
  <1> QED BY <1>5, <1>6, <1>7, SMT

\* The flag misjudges only a stock within a twentieth of a unit per day of lead
\* time of what the lead time sells, give or take a twentieth of a day's sales
\* (server.py:89-92), for every stock, week of sales and lead time.
THEOREM RiskErrsLittle == Spec => []RiskIsClose
  <1>1. ASSUME StockInv PROVE RiskIsClose
    <2> SUFFICES ASSUME pc = "answer"
                 PROVE  IF risk THEN Short \/ 200 * (7 * on_hand - lead * sold) <= 70 * lead - 7 * avg
                                ELSE Short => 200 * (lead * sold - 7 * on_hand) <= 70 * lead + 7 * avg
      BY DEF RiskIsClose
    <2>1. on_hand \in Nat /\ lead \in Nat /\ sold \in Nat /\ avg \in Nat /\ IsRounded(avg, 10 * sold, 7)
      BY <1>1 DEF StockInv, Stock, Averaged
    <2>2. CASE avg > 0
      <3>1. cover \in Nat /\ IsRounded(cover, 100 * on_hand, avg) /\ cover # NoCover
        BY <1>1, <2>2, StockAssumption, SMT DEF StockInv, Covered
      <3>2. risk <=> cover < 10 * lead
        BY <1>1, <3>1 DEF StockInv, IsBelowLead
      <3>3. CASE cover < 10 * lead
        BY <2>1, <3>1, <3>2, <3>3, BelowLead
      <3>4. CASE ~(cover < 10 * lead)
        BY <2>1, <3>1, <3>2, <3>4, NotBelowLead
      <3> QED BY <3>3, <3>4
    <2>3. CASE ~(avg > 0)
      <3>1. ~risk
        BY <1>1, <2>3 DEF StockInv, Covered, IsBelowLead
      <3>2. sold = 0
        BY <2>1, <2>3, SMT DEF IsRounded
      <3>3. ~Short
        BY <2>1, <3>2, SMT DEF Short
      <3> QED BY <3>1, <3>3
    <2> QED BY <2>2, <2>3
  <1> QED BY StockInit, StockStep, <1>1, PTL DEF Spec
=============================================================================
