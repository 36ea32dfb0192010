---------------------------- MODULE MoneyProofs ----------------------------
(***************************************************************************)
(* The properties of Money for every quantum, amount, rate and table.      *)
(***************************************************************************)
EXTENDS Money, TLAPS

\* Products are integers, whatever the provers make of the multiplication.
LEMMA ProductType ==
  ASSUME NEW a \in Amounts, NEW r \in Rates
  PROVE  a \in Int /\ r \in Int /\ a * r \in Int
BY MoneyAssumption

\* Integer division, bounded from both sides.
LEMMA DivBounds ==
  ASSUME NEW n \in Nat, NEW d \in Nat \ {0}
  PROVE  /\ n \div d \in Nat
         /\ (n \div d) * d <= n
         /\ n < (n \div d) * d + d
BY SMT

\* Rounding a magnitude: the nearest quantum, and the upper of two.
LEMMA HalfUpNearest ==
  ASSUME NEW n \in Nat
  PROVE  /\ HalfUp(n) \in Nat
         /\ 2 * (HalfUp(n) * Unit - n) <= Unit
         /\ 2 * (n - HalfUp(n) * Unit) < Unit
<1> DEFINE q == (2 * n + Unit) \div (2 * Unit)
<1>1. 2 * n + Unit \in Nat /\ 2 * Unit \in Nat \ {0} /\ Unit \in Nat \ {0}
  BY MoneyAssumption
<1>2. /\ q \in Nat
      /\ q * (2 * Unit) <= 2 * n + Unit
      /\ 2 * n + Unit < q * (2 * Unit) + 2 * Unit
  BY <1>1, DivBounds
<1> HIDE DEF q
<1>3. 2 * (q * Unit - n) <= Unit /\ 2 * (n - q * Unit) < Unit
  BY <1>1, <1>2
<1> QED
  BY <1>2, <1>3 DEF HalfUp, q

\* Rounding a value of either sign.
LEMMA QuantizeNearest ==
  ASSUME NEW v \in Int
  PROVE  /\ quantize_usd(v) \in Int
         /\ 2 * Abs(quantize_usd(v) * Unit - v) <= Unit
         /\ 2 * Abs(quantize_usd(v) * Unit - v) = Unit
              => Abs(quantize_usd(v)) * Unit > Abs(v)
<1>0. Unit \in Nat \ {0}
  BY MoneyAssumption
<1>1. CASE v < 0
  <2> DEFINE h == HalfUp(-v)
  <2>1. -v \in Nat
    BY <1>1
  <2>2. h \in Nat /\ 2 * (h * Unit + v) <= Unit /\ 2 * (-v - h * Unit) < Unit
    BY <1>0, <2>1, HalfUpNearest
  <2>3. quantize_usd(v) = -h
    BY <1>1 DEF quantize_usd
  <2> HIDE DEF h
  <2>4. (-h) * Unit = -(h * Unit) /\ h * Unit \in Nat
    BY <1>0, <2>2
  <2> DEFINE p == h * Unit
  <2>5. Abs(-h) = h
    BY <2>2 DEF Abs
  <2>6. /\ p \in Nat
        /\ 2 * (p + v) <= Unit /\ 2 * (-v - p) < Unit
        /\ quantize_usd(v) * Unit = -p
        /\ Abs(quantize_usd(v)) * Unit = p
    BY <2>2, <2>3, <2>4, <2>5
  <2> HIDE DEF p
  <2> QED
    BY <1>0, <1>1, <2>2, <2>3, <2>6 DEF Abs
<1>2. CASE v >= 0
  <2> DEFINE h == HalfUp(v)
  <2>1. v \in Nat
    BY <1>2
  <2>2. h \in Nat /\ 2 * (h * Unit - v) <= Unit /\ 2 * (v - h * Unit) < Unit
    BY <2>1, HalfUpNearest
  <2>3. quantize_usd(v) = h
    BY <1>2 DEF quantize_usd
  <2> HIDE DEF h
  <2> DEFINE p == h * Unit
  <2>4. Abs(h) = h
    BY <2>2 DEF Abs
  <2>5. /\ p \in Nat
        /\ 2 * (p - v) <= Unit /\ 2 * (v - p) < Unit
        /\ quantize_usd(v) * Unit = p
        /\ Abs(quantize_usd(v)) * Unit = p
    BY <1>0, <2>2, <2>3, <2>4
  <2> HIDE DEF p
  <2> QED
    BY <1>0, <1>2, <2>2, <2>3, <2>5 DEF Abs
<1> QED
  BY <1>1, <1>2

\* Rounding treats both signs alike.
LEMMA QuantizeOdd ==
  ASSUME NEW v \in Int
  PROVE  quantize_usd(-v) = -quantize_usd(v)
<1>1. CASE v = 0
  <2>1. 2 * (HalfUp(0) * Unit - 0) <= Unit /\ HalfUp(0) \in Nat /\ Unit \in Nat \ {0}
    BY HalfUpNearest, MoneyAssumption
  <2>2. HalfUp(0) = 0
    BY <2>1
  <2> QED
    BY <1>1, <2>2 DEF quantize_usd
<1>2. CASE v < 0
  BY <1>2, HalfUpNearest DEF quantize_usd
<1>3. CASE v > 0
  BY <1>3, HalfUpNearest DEF quantize_usd
<1> QED
  BY <1>1, <1>2, <1>3

\* Rounding keeps the order: two results out of order would be further apart
\* than both roundings allow.
LEMMA QuantizeMonotone ==
  ASSUME NEW v \in Int, NEW w \in Int, v <= w
  PROVE  quantize_usd(v) <= quantize_usd(w)
<1> DEFINE a == quantize_usd(v)
           b == quantize_usd(w)
<1>0. Unit \in Nat \ {0} /\ a \in Int /\ b \in Int
  BY MoneyAssumption, QuantizeNearest
<1>1. 2 * (a * Unit - v) <= Unit /\ 2 * (w - b * Unit) <= Unit
  BY <1>0, QuantizeNearest DEF Abs
<1>2. CASE v = w
  BY <1>0, <1>2
<1>3. CASE v < w
  <2> SUFFICES ASSUME a > b PROVE FALSE
    BY <1>0
  <2> HIDE DEF a, b
  <2>1. a * Unit >= b * Unit + Unit
    BY <1>0
  <2>2. a * Unit \in Int /\ b * Unit \in Int
    BY <1>0
  <2> QED
    BY <1>0, <1>1, <1>3, <2>1, <2>2
<1> QED
  BY <1>2, <1>3

\* A whole number of quanta is not rounded.
LEMMA QuantizeWhole ==
  ASSUME NEW n \in Int
  PROVE  quantize_usd(n * Unit) = n
<1> DEFINE q == quantize_usd(n * Unit)
<1>1. n * Unit \in Int /\ Unit \in Nat \ {0}
  BY MoneyAssumption
<1>2. q \in Int /\ 2 * Abs(q * Unit - n * Unit) <= Unit
  BY <1>1, QuantizeNearest
<1> HIDE DEF q
<1>3. q * Unit - n * Unit = (q - n) * Unit
  BY <1>1, <1>2
<1>4. q - n \in Int /\ 2 * Abs((q - n) * Unit) <= Unit
  BY <1>2, <1>3
<1>5. q - n = 0
  <2>1. CASE q - n >= 1
    <3>1. (q - n) * Unit >= Unit
      BY <1>1, <1>4, <2>1
    <3> QED
      BY <1>1, <1>4, <3>1 DEF Abs
  <2>2. CASE q - n <= -1
    <3>1. (q - n) * Unit <= -Unit
      BY <1>1, <1>4, <2>2
    <3> QED
      BY <1>1, <1>4, <3>1 DEF Abs
  <2> QED
    BY <1>4, <2>1, <2>2
<1> QED
  BY <1>2, <1>5 DEF q

-----------------------------------------------------------------------------
(* The inductive invariant: every row is the conversion of its amount.     *)

Honest == \A row \in converted : row.usd = convert_to_usd(row.amount, row.rate)
Drift == 2 * Abs(total * Unit - exact) <= count * Unit
MInv == TypeOK /\ Honest /\ Drift

\* It holds of an empty table.
LEMMA InitMInv == Init => MInv
BY MoneyAssumption DEF Init, MInv, TypeOK, Honest, Drift, Abs

\* It is kept by every row.
LEMMA NextMInv == MInv /\ [Next]_moneyVars => MInv'
<1> SUFFICES ASSUME MInv, [Next]_moneyVars PROVE MInv'
  OBVIOUS
<1>1. ASSUME NEW a \in Amounts, NEW r \in Rates, Store(a, r) PROVE MInv'
  <2> DEFINE usd == convert_to_usd(a, r)
             new == [amount |-> a, rate |-> r, usd |-> usd]
  <2>1. usd \in Int /\ a * r \in Int /\ 2 * Abs(usd * Unit - a * r) <= Unit
    BY ProductType, QuantizeNearest DEF convert_to_usd
  <2>2. /\ converted' = converted \cup {new} /\ total' = total + usd
        /\ count' = count + 1 /\ exact' = exact + a * r /\ count < MaxRows
    BY <1>1 DEF Store
  <2>3. TypeOK'
    BY <2>1, <2>2, MoneyAssumption DEF MInv, TypeOK
  <2>4. Honest'
    <3> SUFFICES ASSUME NEW row \in converted'
                 PROVE  row.usd = convert_to_usd(row.amount, row.rate)
      BY DEF Honest, convert_to_usd, quantize_usd, HalfUp
    <3>1. CASE row \in converted
      BY <3>1 DEF MInv, Honest
    <3>2. CASE row = new
      <4>1. row.amount = a /\ row.rate = r /\ row.usd = usd
        BY <3>2
      <4> QED
        BY <4>1
    <3> QED
      BY <2>2, <3>1, <3>2
  <2>5. Drift'
    <3> DEFINE x == a * r
    <3>0. /\ x \in Int /\ usd \in Int /\ total \in Int /\ exact \in Int
          /\ count \in Nat /\ Unit \in Nat
      BY <2>1, MoneyAssumption DEF MInv, TypeOK
    <3>1. total' = total + usd /\ exact' = exact + x /\ count' = count + 1
      BY <2>2
    <3>2. 2 * Abs(usd * Unit - x) <= Unit
      BY <2>1
    <3> HIDE DEF usd, x
    <3> DEFINE t == total * Unit
               u == usd * Unit
               c == count * Unit
    <3>3. 2 * Abs(t - exact) <= c /\ 2 * Abs(u - x) <= Unit
      BY <3>2 DEF MInv, Drift
    <3>4. t \in Int /\ u \in Int /\ c \in Int
      BY <3>0
    <3>5. total' * Unit = t + u /\ count' * Unit = c + Unit
      BY <3>0, <3>1
    <3> HIDE DEF t, u, c
    <3>6. 2 * Abs(t + u - (exact + x)) <= c + Unit
      BY <3>0, <3>3, <3>4 DEF Abs
    <3>7. 2 * Abs(total' * Unit - exact') <= count' * Unit
      BY <3>0, <3>1, <3>4, <3>5, <3>6 DEF Abs
    <3> QED
      BY <3>7 DEF Drift, Abs
  <2> QED
    BY <2>3, <2>4, <2>5 DEF MInv
<1>2. CASE UNCHANGED moneyVars
  BY <1>2 DEF moneyVars, MInv, TypeOK, Honest, Drift
<1> QED
  BY <1>1, <1>2 DEF Next, Swallow

\* In every reachable state the inductive invariant holds.
THEOREM MoneyInvariant == Spec => []MInv
BY InitMInv, NextMInv, PTL DEF Spec

\* A row of the table and its product.
LEMMA RowType ==
  ASSUME MInv, NEW row \in converted
  PROVE  /\ row.amount \in Int /\ row.rate \in Nat
         /\ row.amount * row.rate \in Int
         /\ row.usd = quantize_usd(row.amount * row.rate)
<1>1. row.amount \in Amounts /\ row.rate \in Rates
  BY DEF MInv, TypeOK
<1> QED
  BY <1>1, ProductType, MoneyAssumption DEF MInv, Honest, convert_to_usd

\* Every conversion is what a person gets who checks it by hand.
THEOREM HandCheckedAlways == Spec => []HandChecked
<1>1. MInv => HandChecked
  <2> SUFFICES ASSUME MInv, NEW row \in converted
               PROVE  LET v == row.amount * row.rate IN
                      /\ 2 * Abs(row.usd * Unit - v) <= Unit
                      /\ 2 * Abs(row.usd * Unit - v) = Unit
                           => Abs(row.usd) * Unit > Abs(v)
    BY DEF HandChecked
  <2> QED
    BY RowType, QuantizeNearest
<1> QED
  BY <1>1, MoneyInvariant, PTL

\* A refund takes back exactly what its payment was worth.
THEOREM RefundsCancelAlways == Spec => []RefundsCancel
<1>1. MInv => RefundsCancel
  <2> SUFFICES ASSUME MInv, NEW a \in converted, NEW b \in converted,
                      a.amount = -b.amount, a.rate = b.rate
               PROVE  a.usd = -b.usd
    BY DEF RefundsCancel
  <2>1. a.amount * a.rate = -(b.amount * b.rate)
    BY RowType
  <2> QED
    BY <2>1, RowType, QuantizeOdd
<1> QED
  BY <1>1, MoneyInvariant, PTL

\* A larger amount is never worth less.
THEOREM OrderKeptAlways == Spec => []OrderKept
<1>1. MInv => OrderKept
  <2> SUFFICES ASSUME MInv, NEW a \in converted, NEW b \in converted,
                      a.amount <= b.amount, a.rate = b.rate
               PROVE  a.usd <= b.usd
    BY DEF OrderKept
  <2>1. a.amount * a.rate <= b.amount * b.rate
    BY RowType
  <2> QED
    BY <2>1, RowType, QuantizeMonotone
<1> QED
  BY <1>1, MoneyInvariant, PTL

\* A user's total is off by at most half a quantum per transaction.
THEOREM DriftStaysBounded == Spec => []DriftBounded
<1>1. MInv => DriftBounded
  <2> SUFFICES ASSUME MInv PROVE DriftBounded
    OBVIOUS
  <2>1. quantize_usd(total * Unit) = total
    BY QuantizeWhole DEF MInv, TypeOK
  <2>2. get_summary.total_usd = total /\ get_summary.transaction_count = count
    BY <2>1 DEF get_summary
  <2> QED
    BY <2>2 DEF MInv, Drift, DriftBounded
<1> QED
  BY <1>1, MoneyInvariant, PTL
=============================================================================
