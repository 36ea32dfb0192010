----------------------------- MODULE MCHistory -----------------------------
(* Rows of one user with two of equal timestamp, and one row of another.   *)
EXTENDS History

CONSTANTS ann, bob

MCRow == 1..5
MCUserOf == [r \in MCRow |-> IF r = 3 THEN bob ELSE ann]
MCTimeOf == [r \in MCRow |-> CASE r = 1 -> 20 [] r = 2 -> 10 [] r = 3 -> 20
                               [] r = 4 -> 20 [] r = 5 -> 30]
=============================================================================
