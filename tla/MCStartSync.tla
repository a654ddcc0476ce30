----------------------------- MODULE MCStartSync -----------------------------
(* Instances of StartSync: road-side unit r0 and cars c1, c2 of group 0, cars *)
(* d1, d2 of group 1.                                                         *)
EXTENDS StartSync, TLC

CONSTANTS r0, c1, c2, d1, d2

Segments == [v \in VM |-> IF v \in {d1, d2} THEN 1 ELSE 0]

\* A whole group boots; the cars of group 1 boot beside a car of group 0; a car of
\* group 1 boots while everybody else waits; the road-side unit boots beside the
\* cars of another group.
Boots ==
    { [on |-> {r0, c1, c2}, up |-> {}],
      [on |-> {c1, d1, d2}, up |-> {c1}],
      [on |-> {c1, c2, d1, d2}, up |-> {c1, c2, d2}],
      [on |-> {r0, d1, d2}, up |-> {d1, d2}] }
=============================================================================
