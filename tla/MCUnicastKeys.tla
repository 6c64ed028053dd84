---------------------------- MODULE MCUnicastKeys ----------------------------
(* Two agents, of which one calls.                                         *)
EXTENDS UnicastKeys, TLC

CONSTANTS x, y

TwoOfX == [n \in Node |-> IF n = x THEN 2 ELSE 0]
=============================================================================
