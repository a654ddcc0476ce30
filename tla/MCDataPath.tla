------------------------------ MODULE MCDataPath ------------------------------
(* An instance of DataPath: cars a and b of group 0 and car d of group 4, a     *)
(* group without coordinator, which therefore announces itself; each runs the  *)
(* brake component.                                                             *)
EXTENDS DataPath, TLC

CONSTANTS a, b, d, br

Segments == [v \in VM |-> IF v = d THEN 4 ELSE 0]
Running == [v \in VM |-> {br}]
Twins == Permutations({a, b})
=============================================================================
