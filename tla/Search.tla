-------------------------------- MODULE Search --------------------------------
(***************************************************************************)
(* Looking up a value in a curve: search (libmemory/memory_basic.c), the   *)
(* chop search under every interpolation of currents, optical constants    *)
(* and densities of states, as the loop the code runs, and inter_get       *)
(* (libi/i.c), which draws a line through the two points found.            *)
(*                                                                         *)
(* The positions of a curve rise; only their order matters, so that point  *)
(* k of the curve is 2k and the odd numbers lie between points.            *)
(***************************************************************************)
EXTENDS Integers

CONSTANT Lengths   \* how many points curves have

\* inter_get reads two points
Curves == {n \in Lengths : n \in Nat /\ n >= 2}

VARIABLES
  N, find,      \* the length of the curve and the value wanted
  pos, step,
  points,       \* the two points inter_get interpolates between
  pc

vars == <<N, find, pos, step, points, pc>>

x(k) == 2 * k

Init ==
  /\ N \in Curves
  /\ find \in x(0) .. x(N - 1) + 1
  /\ pos = N \div 2 /\ step = N \div 2
  /\ points = <<>> /\ pc = "inter_get"

\* beyond the last point its last two are used, without a search
Beyond ==
  /\ pc = "inter_get" /\ find >= x(N - 1)
  /\ points' = <<N - 2, N - 1>> /\ pc' = "done"
  /\ UNCHANGED <<N, find, pos, step>>
Within ==
  /\ pc = "inter_get" /\ find < x(N - 1)
  /\ pc' = "search"
  /\ UNCHANGED <<N, find, pos, step, points>>

\* half the step, rounded up
Halved == (step \div 2) + (step % 2)
Moved == IF x(pos) > find THEN pos - Halved ELSE pos + Halved
Clipped(p) == IF p <= 0 THEN 0 ELSE IF p >= N - 1 THEN N - 1 ELSE p
Found(p) == x(p) = find \/ (x(p) <= find /\ x(p + 1) > find)

\* one turn of the loop: it ends at either end of the curve
Chop ==
  /\ pc = "search"
  /\ step' = Halved
  /\ pos' = Clipped(Moved)
  /\ pc' = IF Moved <= 0 \/ Moved >= N - 1 \/ Halved = 0 \/ Found(Moved)
           THEN "found" ELSE "search"
  /\ UNCHANGED <<N, find, points>>

Result ==
  /\ pc = "found"
  /\ LET p == IF pos = N - 1 THEN N - 2 ELSE pos IN points' = <<p, p + 1>>
  /\ pc' = "done"
  /\ UNCHANGED <<N, find, pos, step>>

Next == Beyond \/ Within \/ Chop \/ Result

Spec == Init /\ [][Next]_vars

-----------------------------------------------------------------------------

\* i.c:962, "@return the interpolated data value": a value between two points of the
\* curve is interpolated between those two.
Interpolates ==
  pc = "done" /\ find < x(N - 1) => x(points[1]) <= find /\ find < x(points[2])
=============================================================================
