------------------------------ MODULE Extremes ------------------------------
(* The least and the greatest of a finite set of naturals, with the value  *)
(* SQL's COALESCE(MAX(..), '') gives an empty one.                         *)
EXTENDS Naturals

Smallest(S) == CHOOSE m \in S : \A x \in S : m <= x
Largest(S) == IF S = {} THEN 0 ELSE CHOOSE m \in S : \A x \in S : x <= m
=============================================================================
