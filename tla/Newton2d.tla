------------------------------- MODULE Newton2d -------------------------------
(***************************************************************************)
(* The two dimensional drift-diffusion solver, plugins/newton_2d: how much *)
(* room solver_cal_memory makes, the triplets fill_matrix writes column by *)
(* column of the mesh, the electron and hole fluxes through the four faces *)
(* of each point, and the rows error and update read.  A face is computed  *)
(* from both of its sides, with Bernoulli functions kept from the side     *)
(* that came first.                                                        *)
(*                                                                         *)
(* Arithmetic is exact, as in Fluxes.  Faces and cells have width 1 and a  *)
(* diffusion constant each; the outer faces in x have none.  Of a right    *)
(* hand side only the fluxes' part is kept, and derivatives only by where  *)
(* they are written.  plugin.c has every x and both dimensions solved.     *)
(*                                                                         *)
(* Left out: the Schottky contact's flux through the first face in y, the  *)
(* applied voltage at the outer ends in x, through which nothing flows,    *)
(* and points without mobility beside points with it, whose face the code  *)
(* gives nought from one side and half the other's mean from the other     *)
(* (it takes the mean only where the neighbour's constant is not nought).  *)
(***************************************************************************)
EXTENDS Integers, FiniteSets

CONSTANTS
  Devices,       \* the devices simulated
  Solutions(_),  \* the solutions a device may be iterated from
  Bern(_)        \* the Bernoulli function

VARIABLES
  dev, u,        \* the device and its present solution
  nz, M, x_matrix_offset,   \* what is allocated, and the rows of a column
  By_xi, By_xip, Bx_xi, Bx_xip,   \* the Bernoulli functions kept of each point
  Jn, Jp, Jn_x, Jp_x,   \* fluxes of each point, through its left and its right face
  T, pos, b,     \* triplets' places, how many were written, right hand sides
  x, y,          \* the mesh point
  pc

fluxes == <<Jn, Jp, Jn_x, Jp_x>>
kept == <<By_xi, By_xip, Bx_xi, Bx_xip>>
vars == <<dev, u, nz, M, x_matrix_offset, kept, fluxes, T, pos, b, x, y, pc>>

\* a neighbour in x is read at both ends
Meshed == {d \in Devices : d.xlen \in Nat /\ d.ylen \in Nat /\ d.xlen > 1 /\ d.ylen > 0}
Grid(d) == (0 .. d.xlen - 1) \X (0 .. d.ylen - 1)

BdB(z) == [neg |-> Bern(-z), plus |-> Bern(z)]
NotWritten == [neg |-> 0, plus |-> 0]   \* as malloc_3d leaves it

Init ==
  /\ dev \in Meshed /\ u \in Solutions(dev)
  /\ nz = 0 /\ M = 0 /\ x_matrix_offset = 0
  /\ By_xi = [g \in Grid(dev) |-> NotWritten] /\ By_xip = By_xi
  /\ Bx_xi = By_xi /\ Bx_xip = By_xi
  /\ Jn = [g \in Grid(dev) |-> <<0, 0>>] /\ Jp = Jn /\ Jn_x = Jn /\ Jp_x = Jn
  /\ T = {} /\ pos = 0 /\ b = <<>> /\ x = 0 /\ y = 0
  /\ pc = "realloc"

-----------------------------------------------------------------------------
(* solver_cal_memory *)

\* the levels of both kinds of trap: ntrapnewton and ptrapnewton are always set
Bands(d) == 2 * d.srh_bands
ColumnM(d) == 3 * d.ylen + d.ylen * Bands(d)
ColumnN(d) == 5 * (3 * d.ylen - 2) + 4 * d.ylen + 6 * d.ylen * Bands(d)
Across(d) == 5 * d.ylen * (2 * d.xlen - 2)

Realloc ==
  /\ pc = "realloc"
  /\ nz' = ColumnN(dev) * dev.xlen + Across(dev)
  /\ M' = ColumnM(dev) * dev.xlen
  /\ x_matrix_offset' = ColumnM(dev)
  /\ pc' = "y"
  /\ UNCHANGED <<dev, u, kept, fluxes, T, pos, b, x, y>>

-----------------------------------------------------------------------------
(* Fluxes through the faces of a point; the outer faces in y are contacts, *)
(* or insulated: then the point itself stands in for its neighbour.        *)

AtY(f, ends, c, r) ==
  IF r \in 0 .. dev.ylen - 1 THEN f[<<c, r>>]
  ELSE LET k == IF r < 0 THEN 1 ELSE 2
           own == f[<<c, IF r < 0 THEN 0 ELSE dev.ylen - 1>>]
       IN IF dev.passivate[k][c] THEN own ELSE ends[k][c]
AtX(f, c, r) == f[<<IF c < 0 THEN 0 ELSE IF c = dev.xlen THEN c - 1 ELSE c, r>>]

\* band edges; a contact has its neighbour's affinity and gap
InY(r) == IF r < 0 THEN 0 ELSE IF r = dev.ylen THEN r - 1 ELSE r
InX(c) == IF c < 0 THEN 0 ELSE IF c = dev.xlen THEN c - 1 ELSE c
EcY(c, r) == -dev.Xi[<<c, InY(r)>>] - AtY(u.phi, dev.phi_contact, c, r)
EvY(c, r) == EcY(c, r) - dev.Eg[<<c, InY(r)>>]
EcX(c, r) == -dev.Xi[<<InX(c), r>>] - AtX(u.phi, c, r)
EvX(c, r) == EcX(c, r) - dev.Eg[<<InX(c), r>>]

Electrons(D, B, l, r) == D * (B.neg * r - B.plus * l)
Holes(D, B, l, r) == D * (B.neg * l - B.plus * r)

YFluxes ==
  /\ pc = "y"
  /\ LET g == <<x, y>>
         xil == IF y = 0 THEN BdB(EcY(x, 0) - EcY(x, -1)) ELSE By_xi[<<x, y - 1>>]
         xir == BdB(EcY(x, y + 1) - EcY(x, y))
         xipl == IF y = 0 THEN BdB(EvY(x, 0) - EvY(x, -1)) ELSE By_xip[<<x, y - 1>>]
         xipr == BdB(EvY(x, y + 1) - EvY(x, y))
         n(r) == AtY(u.n, dev.n_contact, x, r)
         p(r) == AtY(u.p, dev.p_contact, x, r)
     IN /\ By_xi' = [By_xi EXCEPT ![g] = xir]
        /\ By_xip' = [By_xip EXCEPT ![g] = xipr]
        /\ Jn' = [Jn EXCEPT ![g] = <<Electrons(dev.Dn[y], xil, n(y - 1), n(y)),
                                     Electrons(dev.Dn[y + 1], xir, n(y), n(y + 1))>>]
        /\ Jp' = [Jp EXCEPT ![g] = <<Holes(dev.Dp[y], xipl, p(y - 1), p(y)),
                                     Holes(dev.Dp[y + 1], xipr, p(y), p(y + 1))>>]
  /\ pc' = "x"
  /\ UNCHANGED <<dev, u, nz, M, x_matrix_offset, Bx_xi, Bx_xip, Jn_x, Jp_x, T, pos, b, x, y>>

\* for electrons neither the right face's functions nor what is to be kept are
\* computed (newton.c:1498)
LeftXip(c, r) == IF c = 0 THEN BdB(EvX(0, r) - EvX(-1, r)) ELSE Bx_xip[<<c - 1, r>>]

XFluxes ==
  /\ pc = "x"
  /\ LET g == <<x, y>>
         xi == IF x = 0 THEN BdB(EcX(0, y) - EcX(-1, y)) ELSE Bx_xi[<<x - 1, y>>]
         xipl == LeftXip(x, y)
         xipr == BdB(EvX(x + 1, y) - EvX(x, y))
         n(c) == AtX(u.n, c, y)
         p(c) == AtX(u.p, c, y)
     IN /\ Bx_xip' = [Bx_xip EXCEPT ![g] = xipr]
        /\ Jn_x' = [Jn_x EXCEPT ![g] = <<Electrons(dev.Dn_x[x], xi, n(x - 1), n(x)),
                                         Electrons(dev.Dn_x[x + 1], xi, n(x), n(x + 1))>>]
        /\ Jp_x' = [Jp_x EXCEPT ![g] = <<Holes(dev.Dp_x[x], xipl, p(x - 1), p(x)),
                                         Holes(dev.Dp_x[x + 1], xipr, p(x), p(x + 1))>>]
  /\ pc' = "entries"
  /\ UNCHANGED <<dev, u, nz, M, x_matrix_offset, By_xi, By_xip, Bx_xi, Jn, Jp, T, pos, b, x, y>>

-----------------------------------------------------------------------------
(* The triplets and right hand sides of a point *)

\* first rows of the three equations, and of the trap levels, in column c
Phi(c, r) == x_matrix_offset * c + r
Je(c, r) == x_matrix_offset * c + dev.ylen + r
Jh(c, r) == x_matrix_offset * c + 2 * dev.ylen + r
TrapRows(c, r) ==
  {x_matrix_offset * c + dev.ylen * (3 + k) + r : k \in 0 .. Bands(dev) - 1}

Own(c, r) ==
  LET E == {Phi(c, r), Je(c, r), Jh(c, r)}
  IN (E \X E) \cup UNION {({t} \X {t, Je(c, r), Jh(c, r)}) \cup (E \X {t}) : t \in TrapRows(c, r)}
OwnCount == 9 + 6 * Bands(dev)

\* the coupling to a neighbour
Coupled(c, r, c2, r2) ==
  {<<Phi(c, r), Phi(c2, r2)>>,
   <<Je(c, r), Je(c2, r2)>>, <<Je(c, r), Phi(c2, r2)>>,
   <<Jh(c, r), Jh(c2, r2)>>, <<Jh(c, r), Phi(c2, r2)>>}
Neighbours(c, r) ==
  {g \in Grid(dev) : \/ g[1] = c /\ g[2] \in {r - 1, r + 1}
                     \/ g[2] = r /\ g[1] \in {c - 1, c + 1}}

Entries ==
  /\ pc = "entries"
  /\ T' = T \cup Own(x, y) \cup UNION {Coupled(x, y, g[1], g[2]) : g \in Neighbours(x, y)}
  /\ pos' = pos + OwnCount + 5 * Cardinality(Neighbours(x, y))
  /\ pc' = "rhs"
  /\ UNCHANGED <<dev, u, nz, M, x_matrix_offset, kept, fluxes, b, x, y>>

Divergence(J, Jx) == (J[<<x, y>>][2] - J[<<x, y>>][1]) + (Jx[<<x, y>>][2] - Jx[<<x, y>>][1])

Rhs ==
  /\ pc = "rhs"
  /\ b' = [row \in DOMAIN b \cup TrapRows(x, y) \cup {Phi(x, y), Je(x, y), Jh(x, y)} |->
             IF row \in DOMAIN b THEN b[row]
             ELSE IF row = Je(x, y) THEN -Divergence(Jn, Jn_x)
             ELSE IF row = Jh(x, y) THEN -Divergence(Jp, Jp_x) ELSE 0]
  /\ IF y < dev.ylen - 1 THEN y' = y + 1 /\ x' = x ELSE y' = 0 /\ x' = x + 1
  /\ pc' = IF y = dev.ylen - 1 /\ x = dev.xlen - 1 THEN "filled" ELSE "y"
  /\ UNCHANGED <<dev, u, nz, M, x_matrix_offset, kept, fluxes, T, pos>>

\* get_cur_error reads the rows of every unknown; update_solver_vars_2d takes over
\* phi and the carriers of every point, and leaves the traps as they are
ErrorRows ==
  UNION {TrapRows(g[1], g[2]) \cup {Phi(g[1], g[2]), Je(g[1], g[2]), Jh(g[1], g[2])} : g \in Grid(dev)}

Update ==
  /\ pc = "filled"
  /\ u' \in Solutions(dev)
  /\ T' = {} /\ pos' = 0 /\ b' = <<>> /\ x' = 0 /\ y' = 0
  /\ pc' = "y"
  /\ UNCHANGED <<dev, nz, M, x_matrix_offset, kept, fluxes>>

Next == Realloc \/ YFluxes \/ XFluxes \/ Entries \/ Rhs \/ Update

Spec == Init /\ [][Next]_vars

-----------------------------------------------------------------------------

\* The places written are as many as were counted, none of them twice, and all in
\* the matrix; every row has its right hand side, and the error reads them all.
ExactFit2d ==
  pc = "filled" =>
    /\ pos = nz /\ Cardinality(T) = nz
    /\ \A e \in T : e[1] \in 0 .. M - 1 /\ e[2] \in 0 .. M - 1
    /\ DOMAIN b = 0 .. M - 1 /\ ErrorRows = DOMAIN b

\* Holes that leave a point through a face enter the point behind it, in both
\* directions, and electrons do in y, whatever the mesh, contacts and insulated ends:
\* the Bernoulli functions kept are those of the face that is meant.
Done(g) == g[1] < x \/ (g[1] = x /\ g[2] < y)
FluxConserved2d ==
  \A g \in Grid(dev) :
    Done(g) =>
      /\ g[2] > 0 => Jp[g][1] = Jp[<<g[1], g[2] - 1>>][2] /\ Jn[g][1] = Jn[<<g[1], g[2] - 1>>][2]
      /\ g[1] > 0 => Jp_x[g][1] = Jp_x[<<g[1] - 1, g[2]>>][2]

\* electrical_transport.tex:14, "Conservation of charge carriers is forced": so do
\* electrons that leave in x.
ElectronsConserved ==
  \A g \in Grid(dev) : Done(g) /\ g[1] > 0 => Jn_x[g][1] = Jn_x[<<g[1] - 1, g[2]>>][2]
=============================================================================
