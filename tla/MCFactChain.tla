---------------------------- MODULE MCFactChain ----------------------------
(* Instances of FactChain and its reads for TLC.                           *)
EXTENDS FactReads

CONSTANTS m1, m2, m3

\* Values other than the empty one are only compared with each other.
Values == Permutations(Object \ {Blank})

\* m3 is a fact companion of m1: its id extends "m1::".
MCDerived == [m \in Memory |-> IF m = m1 THEN {m3} ELSE {}]
MCIds == <<m1, m3, m2>>
=============================================================================
