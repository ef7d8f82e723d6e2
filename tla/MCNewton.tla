------------------------------- MODULE MCNewton -------------------------------
(***************************************************************************)
(* fill_matrix for TLC: where it writes (NewtonMatrix) and what it writes  *)
(* (Fluxes) in one dimension, and both in two (Newton2d), each on devices  *)
(* of its own.  Only one of the three runs in a behaviour; the variables   *)
(* of the others keep a value that means nothing.                          *)
(*                                                                         *)
(* The Bernoulli function x/(exp(x)-1) is twelve times its Taylor          *)
(* polynomial of second degree, which keeps B(-x) = B(x) + x and           *)
(* differences exact.  Devices and solutions are given in multiples of the *)
(* units of NewtonNorm, none of which is 1.                                *)
(***************************************************************************)
EXTENDS NewtonMatrix, TLC

CONSTANTS
  FluxDevices, Profiles(_), PlaneDevices, Solutions(_), Bern(_), dBern(_),
  n0, phi0, l0, D0, epsilon0

VARIABLES
  part,
  u, By_xi, By_xip, Jnl, Jnr, Jpl, Jpr, dJ, R, A,
  x_matrix_offset, Bx_xi, Bx_xip, Jn, Jp, Jn_x, Jp_x, px, py

Eq == INSTANCE Fluxes WITH Devices <- FluxDevices
Norm == INSTANCE NewtonNorm WITH Rates <- Eq!Rates, dRates <- Eq!dRates
Plane == INSTANCE Newton2d WITH Devices <- PlaneDevices, x <- px, y <- py

ASSUME MCFluxAssumption == Eq!DeviceAssumption
ASSUME MCNormAssumption == Norm!NormAssumption
ASSUME MCNewtonAssumption == \A d \in PlaneDevices : d.srh_bands \in Nat

faces == <<u, By_xi, By_xip>>
matrixOnly == <<Nion_enabled, i>>
matrices == <<nz, M, T, pos>>
valuesOnly == <<Jnl, Jnr, Jpl, Jpr, dJ, R, A>>
planeOnly == <<x_matrix_offset, Bx_xi, Bx_xip, Jn, Jp, Jn_x, Jp_x, px, py>>

Unused(v) == v = <<>>
NoPlane ==
  /\ x_matrix_offset = 0 /\ px = 0 /\ py = 0
  /\ Unused(Bx_xi) /\ Unused(Bx_xip) /\ Unused(Jn) /\ Unused(Jp) /\ Unused(Jn_x) /\ Unused(Jp_x)
NoValues ==
  Unused(Jnl) /\ Unused(Jnr) /\ Unused(Jpl) /\ Unused(Jpr) /\ Unused(dJ) /\ Unused(R) /\ Unused(A)

MCInit ==
  \/ /\ part = "matrix" /\ Init
     /\ Unused(u) /\ Unused(By_xi) /\ Unused(By_xip) /\ NoValues /\ NoPlane
  \/ /\ part = "values" /\ Eq!Init
     /\ Nion_enabled = FALSE /\ nz = 0 /\ M = 0 /\ T = {} /\ pos = 0 /\ NoPlane
  \/ /\ part = "plane" /\ Plane!Init
     /\ Nion_enabled = FALSE /\ i = 0 /\ NoValues
MCNext ==
  \/ part = "matrix" /\ Next /\ UNCHANGED <<part, faces, valuesOnly, planeOnly>>
  \/ part = "values" /\ Eq!Next /\ UNCHANGED <<part, Nion_enabled, matrices, planeOnly>>
  \/ part = "plane" /\ Plane!Next /\ UNCHANGED <<part, matrixOnly, valuesOnly>>
MCSpec == MCInit /\ [][MCNext]_<<vars, part, faces, valuesOnly, planeOnly>>

\* every combination of the features on short meshes
MCDevices ==
  [ylen : {2, 3, 5}, srh_bands : {0, 1, 3}, schottky : BOOLEAN,
   ntrapnewton : BOOLEAN, ptrapnewton : BOOLEAN,
   ion_ylen : {0, 2}, interfaces_n : {0, 1}]
NoDevices == {}

MCBern(x) == 12 - 6 * x + x * x
MCdBern(x) == 2 * x - 6

\* r0 and r_bi0 of NewtonNorm
MCr0 == (n0 * D0) \div (l0 * l0)
MCr_bi0 == D0 \div (n0 * l0 * l0)
\* three points, of which no two have the same constants
Base ==
  [ylen |-> 3, srh_bands |-> 1,
   n_contact |-> <<n0, 3 * n0>>, p_contact |-> <<2 * n0, n0>>, phi_contact |-> <<0, phi0>>,
   dn |-> [y \in 0 .. 2 |-> n0 * (1 + (y % 2))], dp |-> [y \in 0 .. 2 |-> n0 * (2 - (y % 2))],
   nfequlib |-> [y \in 0 .. 2 |-> n0], pfequlib |-> [y \in 0 .. 2 |-> n0 * y],
   Xi |-> [y \in 0 .. 2 |-> phi0 * y], Eg |-> [y \in 0 .. 2 |-> phi0 * (1 + (y % 2))],
   Dn |-> [y \in 0 .. 3 |-> D0 * (1 + y)], Dp |-> [y \in 0 .. 3 |-> D0 * (4 - y)],
   h |-> [y \in 0 .. 2 |-> l0 * (1 + y)], e |-> [y \in 0 .. 3 |-> epsilon0 * (1 + y)],
   interface_B |-> [y \in 0 .. 2 |-> 0], interface_Ge |-> [y \in 0 .. 2 |-> 0],
   interface_Gh |-> [y \in 0 .. 2 |-> 0],
   B |-> 0, Cn |-> 0, Cp |-> 0, ss_srh |-> [y \in 0 .. 2 |-> FALSE],
   Nad |-> [y \in 0 .. 2 |-> n0 * (y - 1)],
   Gn |-> [y \in 0 .. 2 |-> 2 * MCr0], Gp |-> [y \in 0 .. 2 |-> 2 * MCr0],
   Nt |-> 3, dnt |-> 1, dpt |-> 2, ntlast |-> 1, ptlast |-> 1, nlast |-> 1, plast |-> 2,
   ntrapnewton |-> FALSE, ptrapnewton |-> FALSE, go_time |-> FALSE]

Even == [Base EXCEPT !.h = [y \in 0 .. 2 |-> 2 * l0]]

MCFluxDevices ==
  {Base,
   [Base EXCEPT !.interface_Ge = [y \in 0 .. 2 |-> IF y = 1 THEN 2 ELSE 0],
                !.ntrapnewton = TRUE, !.ptrapnewton = TRUE, !.go_time = TRUE, !.srh_bands = 2],
   [Base EXCEPT !.B = 2 * MCr_bi0,
                !.ntrapnewton = TRUE, !.ptrapnewton = TRUE, !.srh_bands = 2],
   [Base EXCEPT !.B = 3 * MCr_bi0,
                !.ntrapnewton = TRUE, !.ptrapnewton = TRUE, !.srh_bands = 0],
   [Base EXCEPT !.B = 1, !.Cn = 1, !.Cp = 2, !.ntrapnewton = TRUE],
   [Base EXCEPT !.B = 2, !.ptrapnewton = TRUE, !.go_time = TRUE],
   [Even EXCEPT !.interface_B = [y \in 0 .. 2 |-> IF y = 1 THEN 3 ELSE 0],
                !.ss_srh = [y \in 0 .. 2 |-> TRUE], !.ntrapnewton = TRUE, !.ptrapnewton = TRUE]}

MCProfiles(d) ==
  [n : [0 .. 2 -> {n0, 2 * n0}],
   p : {[y \in 0 .. 2 |-> n0 * (1 + ((y + c) % 3))] : c \in 0 .. 2},
   phi : {[y \in 0 .. 2 |-> phi0 * c * y] : c \in {0, 1}},
   nt : {[y \in 0 .. 2 |-> [k \in 1 .. d.srh_bands |-> (y + k) % 3]]},
   pt : {[y \in 0 .. 2 |-> [k \in 1 .. d.srh_bands |-> (y + 2 * k) % 3]]}]

\* meshes with and without neighbours, contacts in one column and insulated ends in
\* the others, with traps and without
Planes == [xlen : {2, 3}, ylen : {1, 2, 3}, srh_bands : {0, 1, 2}]
PlaneDevice(d) ==
  LET Points == (0 .. d.xlen - 1) \X (0 .. d.ylen - 1)
      Of(a, c, k) == [z \in 0 .. a |-> IF k /\ z \in {0, a} THEN 0 ELSE c + z]
      Ends(a, c) == <<[z \in 0 .. d.xlen - 1 |-> a + z], [z \in 0 .. d.xlen - 1 |-> c]>>
  IN [Xi |-> [g \in Points |-> g[1] + 2 * g[2]], Eg |-> [g \in Points |-> 1 + g[1]],
      passivate |-> <<[z \in 0 .. d.xlen - 1 |-> z = 0], [z \in 0 .. d.xlen - 1 |-> z # 0]>>,
      n_contact |-> Ends(1, 3), p_contact |-> Ends(2, 1), phi_contact |-> Ends(0, 1),
      Dn |-> Of(d.ylen, 1, FALSE), Dp |-> Of(d.ylen, 2, FALSE),
      Dn_x |-> Of(d.xlen, 2, TRUE), Dp_x |-> Of(d.xlen, 1, TRUE)] @@ d
MCPlaneDevices == {PlaneDevice(d) : d \in Planes}
MCSolutions(d) ==
  LET Points == (0 .. d.xlen - 1) \X (0 .. d.ylen - 1) IN
  {[n |-> [g \in Points |-> 1 + ((g[1] + c * g[2]) % 3)],
    p |-> [g \in Points |-> 1 + ((c * g[1] + g[2]) % 2)],
    phi |-> [g \in Points |-> c * (g[1] - g[2])]] : c \in 0 .. 2}

-----------------------------------------------------------------------------
\* What plugins/newton_norm can solve: no Auger and equilibrium recombination, no
\* interfaces, a steady state; config.c switches both kinds of traps on for it.
NormSolves ==
  /\ dev.Cn = 0 /\ dev.Cp = 0 /\ ~dev.go_time
  /\ \A y \in 0 .. dev.ylen - 1 :
       /\ ~dev.ss_srh[y]
       /\ dev.interface_B[y] = 0 /\ dev.interface_Ge[y] = 0 /\ dev.interface_Gh[y] = 0
\* The rows of the potential are charges in units of n0 over cells in units of l0, those
\* of the carriers in units of the flux n0 * D0 / l0; an unknown is in units of phi0.
PhiFields == {"dphil", "dphic", "dphir", "dphidxic", "dphidxipc"}
OwnFields == {"dJdxic", "dJpdxipc"}
CarrierFields ==
  {"dJdxil", "dJdxir", "dJdxipc", "dJdphil", "dJdphic", "dJdphir",
   "dJpdxipl", "dJpdxipr", "dJpdxic", "dJpdphil", "dJpdphic", "dJpdphir"}
SameSlope(a, row) == l0 * phi0 * a = n0 * D0 * row

\* slopes of a level's row by the carriers; its charge's slope is left unconverted
SameLevels(L, K) ==
  /\ DOMAIN L = DOMAIN K
  /\ \A k \in DOMAIN L :
       /\ phi0 * L[k].dtrap_own = n0 * K[k].dtrap_own
       /\ phi0 * L[k].dtrap_other = n0 * K[k].dtrap_other
       /\ L[k].dphi = K[k].dphi
SameSystem ==
  Eq!Filled /\ NormSolves /\ Norm!Convertible(dev, u) =>
    \A y \in 0 .. dev.ylen - 1 :
      LET row == Norm!Slopes(dev, u, y)  side == Norm!RightHandSides(dev, u, y)
          c == Norm!Stored(dev, u, y)
      IN /\ \A f \in PhiFields : phi0 * A[y][f] = n0 * l0 * row[f]
         /\ \A f \in CarrierFields : SameSlope(A[y][f], row[f])
         \* the levels' charge is not divided by n0
         /\ n0 * l0 * side.phi = b[y].phi + (n0 - 1) * dev.h[y] * Norm!Trapped(dev, u, y)
         /\ SameLevels(A[y].ntrap, Norm!Ntrap(dev, u, c))
         /\ SameLevels(A[y].ptrap, Norm!Ptrap(dev, u, c))
         \* nor are their rates by r0
         /\ dev.srh_bands = 0 =>
              /\ \A f \in OwnFields : SameSlope(A[y][f], row[f])
              /\ n0 * D0 * side.n = l0 * b[y].n /\ n0 * D0 * side.p = l0 * b[y].p
SamePlaces ==
  pc = "full" /\ ~dev.schottky /\ NoIons(dev) /\ dev.interfaces_n = 0
    /\ dev.ntrapnewton = dev.ptrapnewton =>
    /\ T = Norm!Places(dev) /\ b = Norm!ReadRows(dev)
    /\ nz = Norm!CalN(dev) /\ M = Norm!CalM(dev)

\* Where both solvers of one dimension can solve a device they write the same system at
\* the same places, although one works in units and the other does not, one keeps
\* Bernoulli functions from point to point and counts its rows with offset.c and the other
\* does neither: every number of one is the other's in units.  Not so for trap levels,
\* which newton_norm leaves in physical units: it counts their charge n0 times, and what
\* they capture and release, the carriers' other terms being in units, is not compared.
NormAgrees == (part = "values" => SameSystem) /\ (part = "matrix" => SamePlaces)

\* No slot of the arrays solver_cal_memory makes is missing or left over, in either
\* dimension.
EntriesCounted == (part = "matrix" => ExactFit) /\ (part = "plane" => Plane!ExactFit2d)

\* What leaves a cell through a face enters the next one, in either dimension.
FacesAgree == (part = "values" => Eq!FluxConserved) /\ (part = "plane" => Plane!FluxConserved2d)

\* The other invariants of Fluxes and Newton2d, where they run.
ChargeConserved == part = "values" => Eq!ChargeConserved
NewtonStepExact == part = "values" => Eq!NewtonStepExact
ElectronsConserved == part = "plane" => Plane!ElectronsConserved
=============================================================================
