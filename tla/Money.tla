------------------------------- MODULE Money -------------------------------
(***************************************************************************)
(* The money arithmetic of app/money.py and what becomes of it in the      *)
(* table: processor.py converts an amount and stores amount, rate and      *)
(* result in one row; the summary of a user is the sum of the results.     *)
(*                                                                         *)
(* A Decimal is an integer count of its last decimal place.  An amount and *)
(* a result count storage quanta (0.0001); a rate counts 1/Unit, so that   *)
(* their product counts 1/Unit of a quantum.  The product is exact: twenty *)
(* digits of amount times the digits of a rate fit a Decimal.              *)
(***************************************************************************)
EXTENDS Integers, FiniteSets

CONSTANTS
  Unit,      \* units of a product in one storage quantum
  Amounts,   \* amounts of events, negative for a refund
  Rates,     \* USD per 1 unit of currency
  MaxRows    \* bound: rows in the table

ASSUME MoneyAssumption ==
  /\ Unit \in Nat \ {0}
  /\ Amounts \subseteq Int
  /\ Rates \subseteq Nat \ {0}
  /\ MaxRows \in Nat

VARIABLES
  converted,  \* what has been converted to what, as the rows tell
  count,      \* COUNT of the rows
  total,      \* SUM of their results
  exact       \* the sum of the exact products, which nobody computes

moneyVars == <<converted, count, total, exact>>

Abs(n) == IF n < 0 THEN -n ELSE n

\* Decimal.quantize(USD_QUANTUM, rounding=ROUND_HALF_UP): away from zero.
\* (Bug variants: Python's default ROUND_HALF_EVEN; floor(x + 1/2); ROUND_DOWN;
\* the sign lost on the way.)
quantize_half_even(v) ==
  LET q == v \div Unit  r == v % Unit IN
  IF 2 * r > Unit \/ (2 * r = Unit /\ q % 2 = 1) THEN q + 1 ELSE q
quantize_half_ceiling(v) == (2 * v + Unit) \div (2 * Unit)
quantize_down(v) == IF v < 0 THEN -((-v) \div Unit) ELSE v \div Unit
quantize_magnitude(v) == (2 * Abs(v) + Unit) \div (2 * Unit)
HalfUp(n) == (2 * n + Unit) \div (2 * Unit)
quantize_usd(v) == IF v < 0 THEN -HalfUp(-v) ELSE HalfUp(v)

convert_to_usd(amount, rate) == quantize_usd(amount * rate)

Init ==
  /\ converted = {} /\ count = 0
  /\ total = 0 /\ exact = 0

\* EventProcessor.process of a new event: the row keeps the rate it used.
Store(amount, rate) ==
  /\ count < MaxRows
  /\ LET usd == convert_to_usd(amount, rate) IN
     /\ converted' = converted \cup {[amount |-> amount, rate |-> rate, usd |-> usd]}
     /\ total' = total + usd
  /\ count' = count + 1
  /\ exact' = exact + amount * rate

\* An event that is already stored: converted again, and swallowed by the
\* primary key.
Swallow == count > 0 /\ UNCHANGED moneyVars

Next ==
  \/ \E amount \in Amounts, rate \in Rates : Store(amount, rate)
  \/ Swallow
Spec == Init /\ [][Next]_moneyVars

\* SUM and COUNT over the rows of a user; the sum is quantized once more.
get_summary ==
  [total_usd |-> quantize_usd(total * Unit), transaction_count |-> count]

-----------------------------------------------------------------------------
TypeOK ==
  /\ converted \subseteq [amount : Amounts, rate : Rates, usd : Int]
  /\ count \in 0..MaxRows
  /\ total \in Int /\ exact \in Int

\* What someone checking a row by hand computes from its amount and rate: the
\* nearest quantum, and of two equally near ones the one away from zero.
HandChecked ==
  \A row \in converted :
    LET v == row.amount * row.rate IN
    /\ 2 * Abs(row.usd * Unit - v) <= Unit
    /\ 2 * Abs(row.usd * Unit - v) = Unit => Abs(row.usd) * Unit > Abs(v)

\* A payment and its refund at the same rate cancel out in the total.
RefundsCancel ==
  \A a, b \in converted :
    (a.amount = -b.amount /\ a.rate = b.rate) => a.usd = -b.usd

\* Of two amounts in one currency the larger is never worth less.
OrderKept ==
  \A a, b \in converted :
    (a.amount <= b.amount /\ a.rate = b.rate) => a.usd <= b.usd

\* money.py:5 "rounding every transaction ... makes the per-user total drift":
\* by no more than half a quantum for each row of the summary, and the rounding
\* of the summary itself adds nothing.
DriftBounded ==
  2 * Abs(get_summary.total_usd * Unit - exact) <= get_summary.transaction_count * Unit
=============================================================================
