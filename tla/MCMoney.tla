------------------------------ MODULE MCMoney ------------------------------
(* Amounts of both signs; with Unit = 4 the rates give exact products, ties  *)
(* and remainders on both sides of a tie.                                  *)
EXTENDS Money

MCAmounts == -6..6
MCRates == {1, 2, 3, 6}
=============================================================================
