------------------------------ MODULE MCSchema ------------------------------
(* Zones on both sides of UTC.                                             *)
EXTENDS Schema

MCOffset == {-1, 0, 1}
=============================================================================
