------------------------------ MODULE NewtonNorm ------------------------------
(***************************************************************************)
(* The second one dimensional Newton solver, plugins/newton_norm, a copy   *)
(* of plugins/newton from before the Schottky contact, ions, interfaces    *)
(* and the time step, in units that make the numbers near one.  Which of   *)
(* the two solves is the user's choice; where both can, they should write  *)
(* the same system.  They were edited apart: this one finds both faces'    *)
(* Bernoulli functions at every point, has no offset.c, and writes its     *)
(* rows' places out as multiples of ylen.                                  *)
(*                                                                         *)
(* Operators on the devices d and solutions v of Fluxes, which are in      *)
(* physical units with charge and kT at 1.  A conversion divides, and the  *)
(* numbers whose conversions are exact are the Convertible ones.  What the *)
(* code does not convert is not converted here: the trap levels' charge    *)
(* and its slopes, and their rates.  Rows are multiplied by the cell's     *)
(* width.                                                                  *)
(*                                                                         *)
(* A definition X_Other just before X is X with a mistake in it, used to   *)
(* see that the properties notice it; nothing else refers to it.           *)
(***************************************************************************)
EXTENDS Integers, FiniteSets, Functions

CONSTANTS
  Bern(_), dBern(_),        \* the Bernoulli function and its derivative
  Rates(_, _), dRates(_),   \* r1 to r4 of a trap level, from the density of states
  n0, phi0, l0, D0, epsilon0  \* units: density, potential, length, diffusion, permittivity

\* the units of generation and of the recombination constant
r0 == (n0 * D0) \div (l0 * l0)
r_bi0 == D0 \div (n0 * l0 * l0)
\* l0 is the Debye length of n0 and phi0, and the divisions above leave no rest
NormAssumption ==
  /\ {n0, phi0, l0, D0, epsilon0, r0, r_bi0} \subseteq Nat \ {0}
  /\ l0 * l0 * n0 = epsilon0 * phi0
  /\ r0 * (l0 * l0) = n0 * D0 /\ r_bi0 * (n0 * l0 * l0) = D0

\* update_y_array has stored a mesh point's values; a contact's are found here,
\* and its slopes reach no row
Stored(d, v, y) ==
  [y |-> y, phi |-> v.phi[y] \div phi0, n |-> v.n[y] \div n0, p |-> v.p[y] \div n0,
   dn |-> (d.dn[y] * phi0) \div n0, dp |-> (d.dp[y] * phi0) \div n0,
   Ec |-> -(d.Xi[y] \div phi0) - v.phi[y] \div phi0,
   Ev |-> -(d.Xi[y] \div phi0) - v.phi[y] \div phi0 - d.Eg[y] \div phi0]
Contact(d, end, y) ==
  [phi |-> d.phi_contact[end] \div phi0,
   n |-> d.n_contact[end] \div n0, p |-> d.p_contact[end] \div n0, dn |-> 0, dp |-> 0,
   Ec |-> -(d.Xi[y] \div phi0) - d.phi_contact[end] \div phi0,
   Ev |-> -(d.Xi[y] \div phi0) - d.phi_contact[end] \div phi0 - d.Eg[y] \div phi0]
Left(d, v, y) == IF y = 0 THEN Contact(d, 1, y) ELSE Stored(d, v, y - 1)
Right(d, v, y) == IF y = d.ylen - 1 THEN Contact(d, 2, y) ELSE Stored(d, v, y + 1)

\* a face's diffusion constants over its length, and its permittivity over its length
Dn(d, y) == (d.Dn[y] * l0) \div D0
Dp(d, y) == (d.Dp[y] * l0) \div D0
e(d, y) == (d.e[y] * l0) \div epsilon0
h(d, y) == d.h[y] \div l0

\* electrons through the face between points l and r, and the flux's slopes
Jn(D, l, r) ==
  LET xi == phi0 * (r.Ec - l.Ec) IN
  [J |-> D * (Bern(-xi) * r.n - Bern(xi) * l.n),
   dl |-> -D * Bern(xi) * l.dn, dr |-> D * Bern(-xi) * r.dn,
   dphi |-> phi0 * D * (dBern(-xi) * r.n + dBern(xi) * l.n)]
\* holes
Jp_Unit(D, l, r) ==
  LET xip == phi0 * (r.Ev - l.Ev) IN
  [J |-> D * (Bern(-xip) * l.p - Bern(xip) * r.p),
   dl |-> D * Bern(-xip) * l.dp, dr |-> -D * Bern(xip) * r.dp,
   dphi |-> D * (dBern(-xip) * l.p + dBern(xip) * r.p)]
Jp(D, l, r) ==
  LET xip == phi0 * (r.Ev - l.Ev) IN
  [J |-> D * (Bern(-xip) * l.p - Bern(xip) * r.p),
   dl |-> D * Bern(-xip) * l.dp, dr |-> -D * Bern(xip) * r.dp,
   dphi |-> phi0 * D * (dBern(-xip) * l.p + dBern(xip) * r.p)]

Rfree(d, c) ==
  LET Bfree == d.B \div r_bi0 IN
  [R |-> Bfree * (c.n * c.p - (d.nfequlib[c.y] \div n0) * (d.pfequlib[c.y] \div n0)),
   dn |-> Bfree * (c.dn * c.p), dp |-> Bfree * (c.n * c.dp)]

\* the trap levels of a kind: own carrier, other carrier and their slopes, and the
\* slope of their charge; the rates are physical, the carriers are not
Levels(d, t, dt, own, other, down, dother, dphi) ==
  [k \in 1 .. d.srh_bands |->
    LET r == Rates(d.Nt, t[k])  s == dRates(dt) IN
    [trap |-> own * r.r1 - r.r2 - other * r.r3 + r.r4,
     dtrap |-> own * s.r1 - s.r2 - other * s.r3 + s.r4,
     dtrap_own |-> down * r.r1, dtrap_other |-> -dother * r.r3,
     Rown |-> own * r.r1 - r.r2, Rother |-> -(-other * r.r3 + r.r4),
     dRown |-> own * s.r1 - s.r2, dRother |-> -(-other * s.r3 + s.r4), dphi |-> dphi]]
NoLevels == [k \in {} |-> <<>>]
Ntrap(d, v, c) ==
  IF d.ntrapnewton
  THEN Levels(d, v.nt[c.y], d.dnt, c.n, c.p, c.dn, c.dp, d.dnt) ELSE NoLevels
Ptrap(d, v, c) ==
  IF d.ptrapnewton
  THEN Levels(d, v.pt[c.y], d.dpt, c.p, c.n, c.dp, c.dn, -d.dpt) ELSE NoLevels

\* f of all levels of a kind
Total(L, f(_)) == SumFunctionOnSet([k \in DOMAIN L |-> f(L[k])], DOMAIN L)

\* fill_matrix for mesh point y: the slopes, and the right hand sides
Slopes(d, v, y) ==
  LET c == Stored(d, v, y)
      el == Jn(Dn(d, y), Left(d, v, y), c)  er == Jn(Dn(d, y + 1), c, Right(d, v, y))
      hl == Jp(Dp(d, y), Left(d, v, y), c)  hr == Jp(Dp(d, y + 1), c, Right(d, v, y))
      free == Rfree(d, c)
      nt == Ntrap(d, v, c)  pt == Ptrap(d, v, c)
  IN [dphil |-> -e(d, y), dphic |-> e(d, y) + e(d, y + 1), dphir |-> -e(d, y + 1),
      dphidxic |-> h(d, y) * c.dn, dphidxipc |-> -h(d, y) * c.dp,
      dJdxil |-> -el.dl, dJdxir |-> er.dr,
      dJdxic |-> er.dl - el.dr - h(d, y) * (free.dn + Total(nt, LAMBDA l : l.dtrap_own)
                                                    - Total(pt, LAMBDA l : l.dtrap_other)),
      dJdxipc |-> -(h(d, y) * free.dp),
      dJdphil |-> el.dphi, dJdphic |-> -el.dphi - er.dphi - h(d, y) * free.dn,
      dJdphir |-> er.dphi,
      dJpdxipl |-> -hl.dl, dJpdxipr |-> hr.dr,
      dJpdxipc |-> hr.dl - hl.dr + h(d, y) * (free.dp + Total(pt, LAMBDA l : l.dtrap_own)
                                                      - Total(nt, LAMBDA l : l.dtrap_other)),
      dJpdxic |-> h(d, y) * free.dn,
      dJpdphil |-> hl.dphi, dJpdphic |-> -hl.dphi - hr.dphi + h(d, y) * free.dp,
      dJpdphir |-> hr.dphi]

\* charge of the point's levels
Trapped(d, v, y) ==
  Total([k \in 1 .. d.srh_bands |-> v.pt[y][k] - v.nt[y][k]], LAMBDA t : t)
RightHandSides(d, v, y) ==
  LET c == Stored(d, v, y)  l == Left(d, v, y)  r == Right(d, v, y)
      R == Rfree(d, c).R
      nt == Ntrap(d, v, c)  pt == Ptrap(d, v, c)
  IN [phi |-> h(d, y) * (c.p - c.n + d.Nad[y] \div n0 + Trapped(d, v, y))
                - (-e(d, y) * l.phi + (e(d, y) + e(d, y + 1)) * c.phi - e(d, y + 1) * r.phi),
      n |-> h(d, y) * (Total(nt, LAMBDA t : t.Rown) + Total(pt, LAMBDA t : t.Rother)
                         + R - d.Gn[y] \div r0)
              - (Jn(Dn(d, y + 1), c, r).J - Jn(Dn(d, y), l, c).J),
      p |-> h(d, y) * (d.Gp[y] \div r0 - R
                         - Total(nt, LAMBDA t : t.Rother) - Total(pt, LAMBDA t : t.Rown))
              - (Jp(Dp(d, y + 1), c, r).J - Jp(Dp(d, y), l, c).J)]

\* the numbers of device d and solution v whose conversions are exact
Whole(x, unit) == unit * (x \div unit) = x
Convertible(d, v) ==
  /\ Whole(d.B, r_bi0)
  /\ \A end \in {1, 2} :
       /\ Whole(d.n_contact[end], n0) /\ Whole(d.p_contact[end], n0)
       /\ Whole(d.phi_contact[end], phi0)
  /\ \A y \in 0 .. d.ylen - 1 :
       /\ Whole(v.n[y], n0) /\ Whole(v.p[y], n0) /\ Whole(v.phi[y], phi0)
       /\ Whole(d.dn[y] * phi0, n0) /\ Whole(d.dp[y] * phi0, n0)
       /\ Whole(d.nfequlib[y], n0) /\ Whole(d.pfequlib[y], n0) /\ Whole(d.Nad[y], n0)
       /\ Whole(d.Xi[y], phi0) /\ Whole(d.Eg[y], phi0) /\ Whole(d.h[y], l0)
       /\ Whole(d.Gn[y], r0) /\ Whole(d.Gp[y], r0)
  /\ \A y \in 0 .. d.ylen :
       /\ Whole(d.Dn[y] * l0, D0) /\ Whole(d.Dp[y] * l0, D0) /\ Whole(d.e[y] * l0, epsilon0)

-----------------------------------------------------------------------------

\* where the rows are: 0 for the potential, 1 electrons, 2 holes, then a row for each
\* level of the electron traps and of the hole traps
Row(d, k, y) == d.ylen * k + y
NtrapRows(d, y) ==
  IF d.ntrapnewton THEN {Row(d, 3 + band, y) : band \in 0 .. d.srh_bands - 1} ELSE {}
PtrapRows(d, y) ==
  IF d.ptrapnewton
  THEN {Row(d, 3 + d.srh_bands + band, y) : band \in 0 .. d.srh_bands - 1} ELSE {}

Equations(d, y) == {Row(d, k, y) : k \in 0 .. 2}
Across(d, y, z) ==
  {<<Row(d, k, y), Row(d, k, z)>> : k \in 0 .. 2} \cup {<<Row(d, k, y), z>> : k \in {1, 2}}
OfTrap(d, t, y) ==
  {<<t, t>>, <<t, Row(d, 1, y)>>, <<t, Row(d, 2, y)>>} \cup (Equations(d, y) \X {t})

\* every triplet of fill_matrix, and the rows update_solver_vars reads
Places(d) ==
  UNION {(IF y = 0 THEN {} ELSE Across(d, y, y - 1))
           \cup (Equations(d, y) \X Equations(d, y))
           \cup (UNION {OfTrap(d, t, y) : t \in NtrapRows(d, y) \cup PtrapRows(d, y)})
           \cup (IF y = d.ylen - 1 THEN {} ELSE Across(d, y, y + 1)) : y \in 0 .. d.ylen - 1}
ReadRows(d) ==
  UNION {Equations(d, y) \cup NtrapRows(d, y) \cup PtrapRows(d, y) : y \in 0 .. d.ylen - 1}

\* solver_cal_memory
CalN(d) ==
  5 * (3 * d.ylen - 2) + 4 * d.ylen
    + d.srh_bands * 6 * d.ylen * Cardinality({k \in {1, 2} : <<d.ntrapnewton, d.ptrapnewton>>[k]})
CalM(d) ==
  3 * d.ylen
    + d.srh_bands * d.ylen * Cardinality({k \in {1, 2} : <<d.ntrapnewton, d.ptrapnewton>>[k]})
=============================================================================
