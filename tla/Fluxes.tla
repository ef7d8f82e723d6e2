-------------------------------- MODULE Fluxes --------------------------------
(***************************************************************************)
(* The equations of the one dimensional drift-diffusion solver,            *)
(* plugins/newton fill_matrix: at each mesh point the electron and hole    *)
(* fluxes through its two faces, tunnelling, recombination, the traps, and *)
(* from them the rows of the Newton system.  Each face is seen twice, as   *)
(* the right face of one point and the left face of the next; derivatives  *)
(* are written by hand beside every term.                                  *)
(*                                                                         *)
(* Arithmetic is exact.  Rows are multiplied by the width of their cell,   *)
(* charges, time step and kT are 1, a diffusion constant is given for each *)
(* face and divided by its length, densities and trap rates are linear in  *)
(* their unknowns.  The denominator of the equilibrium SRH rate is 1, and  *)
(* its derivative is left out.  Temperatures are equal: the terms of their *)
(* differences, for thermal models outside the matrix, are left out.       *)
(*                                                                         *)
(* A definition X_Other just before X is X with a mistake in it, used to   *)
(* see that the properties notice it; nothing else refers to it.           *)
(***************************************************************************)
EXTENDS Integers, Functions

CONSTANTS
  Devices,      \* the devices simulated
  Profiles(_),  \* the solutions a device may be iterated from
  Bern(_), dBern(_)  \* the Bernoulli function and its derivative

VARIABLES
  dev, u,       \* the device and its present solution
  By_xi, By_xip,  \* the Bernoulli functions of each point's right face
  Jnl, Jnr, Jpl, Jpr,  \* the fluxes through the faces of each point
  dJ,           \* their derivatives, of the point in work
  R,            \* recombination of the point in work
  A, b,         \* the rows of the matrix and the right hand sides
  i,            \* the mesh point
  pc

fluxes == <<Jnl, Jnr, Jpl, Jpr>>
vars == <<dev, u, By_xi, By_xip, fluxes, dJ, R, A, b, i, pc>>

\* every mesh has a point
Meshed == {d \in Devices : d.ylen \in Nat \ {0}}
Points(d) == 0 .. d.ylen - 1
Bands(d) == 1 .. d.srh_bands

\* neighbours: beyond the ends are the contacts
At(f, ends, d, y) == IF y < 0 THEN ends[1] ELSE IF y = d.ylen THEN ends[2] ELSE f[y]
N(d, v, y) == At(v.n, d.n_contact, d, y)
P(d, v, y) == At(v.p, d.p_contact, d, y)
Phi(d, v, y) == At(v.phi, d.phi_contact, d, y)
Dn(d, y) == At(d.dn, <<0, 0>>, d, y)
Dp(d, y) == At(d.dp, <<0, 0>>, d, y)
\* in equilibrium; a contact stays as it is
Neq(d, y) == At(d.nfequlib, d.n_contact, d, y)
Peq(d, y) == At(d.pfequlib, d.p_contact, d, y)
\* constants of a face belong to the point on its left, the first one's to both
OfFace(f, y) == f[IF y < 0 THEN 0 ELSE y]

\* the band edges step across a face by xi and xip; the contacts have their
\* neighbour's affinity and gap
Xi(d, y) == At(d.Xi, <<d.Xi[0], d.Xi[d.ylen - 1]>>, d, y)
Eg(d, y) == At(d.Eg, <<d.Eg[0], d.Eg[d.ylen - 1]>>, d, y)
Ec(d, v, y) == -Xi(d, y) - Phi(d, v, y)
Ev(d, v, y) == Ec(d, v, y) - Eg(d, y)
BdB(x) == [neg |-> Bern(-x), dneg |-> dBern(-x), plus |-> Bern(x), dplus |-> dBern(x)]
XiFace(d, v, y) == BdB(Ec(d, v, y) - Ec(d, v, y - 1))
XipFace(d, v, y) == BdB(Ev(d, v, y) - Ev(d, v, y - 1))

NoSlopes ==
  [nl_l |-> 0, nl_c |-> 0, nr_c |-> 0, nr_r |-> 0, nl_phi |-> 0, nr_phi |-> 0,
   pl_l |-> 0, pl_c |-> 0, pr_c |-> 0, pr_r |-> 0, pl_phi |-> 0, pr_phi |-> 0]
NoRows == [y \in Points(dev) |-> <<>>]

Init ==
  /\ dev \in Meshed /\ u \in Profiles(dev)
  /\ By_xi = [y \in Points(dev) |-> BdB(0)] /\ By_xip = [y \in Points(dev) |-> BdB(0)]
  /\ Jnl = [y \in Points(dev) |-> 0] /\ Jnr = Jnl /\ Jpl = Jnl /\ Jpr = Jnl
  /\ dJ = NoSlopes /\ R = [ss_srh |-> 0] /\ A = NoRows /\ b = NoRows
  /\ i = 0 /\ pc = "electrons"

\* the left face's Bernoulli functions are those the last point found for its right face
LeftXi_Own(y) == By_xi[y]
LeftXi(y) == IF y = 0 THEN XiFace(dev, u, 0) ELSE By_xi[y - 1]
LeftXip(y) == IF y = 0 THEN XipFace(dev, u, 0) ELSE By_xip[y - 1]

Jn(D, B, nl, nr) == D * (B.neg * nr - B.plus * nl)
Jp(D, B, pl, pr) == D * (B.neg * pl - B.plus * pr)

Electrons ==
  /\ pc = "electrons" /\ i < dev.ylen
  /\ LET l == LeftXi(i)
         r == XiFace(dev, u, i + 1)
         nl == N(dev, u, i - 1)  nc == u.n[i]  nr == N(dev, u, i + 1)
         Dl == dev.Dn[i]  Dr == dev.Dn[i + 1]
     IN /\ By_xi' = [By_xi EXCEPT ![i] = r]
        /\ Jnl' = [Jnl EXCEPT ![i] = Jn(Dl, l, nl, nc)]
        /\ Jnr' = [Jnr EXCEPT ![i] = Jn(Dr, r, nc, nr)]
        /\ dJ' = [dJ EXCEPT
                    !.nl_l = -Dl * l.plus * Dn(dev, i - 1), !.nl_c = Dl * l.neg * dev.dn[i],
                    !.nr_c = -Dr * r.plus * dev.dn[i], !.nr_r = Dr * r.neg * Dn(dev, i + 1),
                    !.nl_phi = Dl * (l.dneg * nc + l.dplus * nl),
                    !.nr_phi = Dr * (r.dneg * nr + r.dplus * nc)]
  /\ pc' = "holes"
  /\ UNCHANGED <<dev, u, By_xip, Jpl, Jpr, R, A, b, i>>

Holes ==
  /\ pc = "holes"
  /\ LET l == LeftXip(i)
         r == XipFace(dev, u, i + 1)
         pl == P(dev, u, i - 1)  pC == u.p[i]  pr == P(dev, u, i + 1)
         Dl == dev.Dp[i]  Dr == dev.Dp[i + 1]
     IN /\ By_xip' = [By_xip EXCEPT ![i] = r]
        /\ Jpl' = [Jpl EXCEPT ![i] = Jp(Dl, l, pl, pC)]
        /\ Jpr' = [Jpr EXCEPT ![i] = Jp(Dr, r, pC, pr)]
        /\ dJ' = [dJ EXCEPT
                    !.pl_l = Dl * l.neg * Dp(dev, i - 1), !.pl_c = -Dl * l.plus * dev.dp[i],
                    !.pr_c = Dr * r.neg * dev.dp[i], !.pr_r = -Dr * r.plus * Dp(dev, i + 1),
                    !.pl_phi = Dl * (l.dneg * pl + l.dplus * pC),
                    !.pr_phi = Dr * (r.dneg * pC + r.dplus * pr)]
  /\ pc' = "tunnel"
  /\ UNCHANGED <<dev, u, By_xi, Jnl, Jnr, R, A, b, i>>

\* excess densities, whose difference across a face tunnels
En(d, v, y) == N(d, v, y) - Neq(d, y)
Ep(d, v, y) == P(d, v, y) - Peq(d, y)

\* a hole rate of the left face decides, and the point's own is used (newton.c:1026)
GhLeft(d, y) == IF OfFace(d.interface_Gh, y - 1) > 0 THEN d.interface_Gh[y] ELSE 0

GeLeft(d, y) == OfFace(d.interface_Ge, y - 1)

Tunnel ==
  /\ pc = "tunnel"
  /\ LET Gel == GeLeft(dev, i)  Gec == dev.interface_Ge[i]
         Ghl == GhLeft(dev, i)  Ghc == dev.interface_Gh[i]
         el == En(dev, u, i - 1) - En(dev, u, i)  er == En(dev, u, i) - En(dev, u, i + 1)
         hl == Ep(dev, u, i - 1) - Ep(dev, u, i)  hr == Ep(dev, u, i) - Ep(dev, u, i + 1)
     IN /\ Jnl' = [Jnl EXCEPT ![i] = @ - Gel * el]
        /\ Jnr' = [Jnr EXCEPT ![i] = @ - Gec * er]
        /\ Jpl' = [Jpl EXCEPT ![i] = @ + Ghl * hl]
        /\ Jpr' = [Jpr EXCEPT ![i] = @ + Ghc * hr]
        /\ dJ' = [dJ EXCEPT !.nl_l = @ - Gel * Dn(dev, i - 1), !.nl_c = @ + Gel * dev.dn[i],
                            !.nr_c = @ - Gec * dev.dn[i], !.nr_r = @ + Gec * Dn(dev, i + 1),
                            !.pl_l = @ + Ghl * Dp(dev, i - 1), !.pl_c = @ - Ghl * dev.dp[i],
                            !.pr_c = @ + Ghc * dev.dp[i], !.pr_r = @ - Ghc * Dp(dev, i + 1)]
  /\ pc' = "recombine"
  /\ UNCHANGED <<dev, u, By_xi, By_xip, R, A, b, i>>

\* products of the densities over equilibrium, in the point and across its faces
Pairs(d, v, y, z) == N(d, v, y) * P(d, v, z) - Neq(d, y) * Peq(d, z)
Augers(d, v, y) == d.Cn * v.n[y] + d.Cp * v.p[y]

BLeft_None(d, y) == 0
BLeft(d, y) == OfFace(d.interface_B, y - 1)

Recombine ==
  /\ pc = "recombine"
  /\ LET nc == u.n[i]  pC == u.p[i]  dn == dev.dn[i]  dp == dev.dp[i]  h == dev.h[i]
         np == Pairs(dev, u, i, i)
         dRdn == dev.B * dn * pC + dev.Cn * dn * np + Augers(dev, u, i) * dn * pC
         dRdp == dev.B * nc * dp + dev.Cp * dp * np + Augers(dev, u, i) * nc * dp
         dt == IF dev.go_time THEN 1 ELSE 0
     IN /\ R' = [free |-> dev.B * np, auger |-> Augers(dev, u, i) * np,
                 ss_srh |-> IF dev.ss_srh[i] THEN np ELSE R.ss_srh,
                 interface_pc |-> dev.interface_B[i] * Pairs(dev, u, i + 1, i),
                 interface_nc |-> BLeft(dev, i) * Pairs(dev, u, i, i - 1),
                 trapn |-> 0, trapp |-> 0]
        /\ A' = [A EXCEPT ![i] =
            [dphil |-> -dev.e[i], dphic |-> dev.e[i] + dev.e[i + 1], dphir |-> -dev.e[i + 1],
             dphidxic |-> h * dn, dphidxipc |-> -h * dp,
             dJdxil |-> -dJ.nl_l, dJdxic |-> dJ.nr_c - dJ.nl_c - h * (dRdn + dt * dn),
             dJdxir |-> dJ.nr_r, dJdxipc |-> -h * dRdp,
             dJdphil |-> dJ.nl_phi, dJdphir |-> dJ.nr_phi,
             dJdphic |-> -dJ.nl_phi - dJ.nr_phi - h * dev.B * dn * pC,
             dJpdxipl |-> -dJ.pl_l, dJpdxipc |-> dJ.pr_c - dJ.pl_c + h * (dRdp + dt * dp),
             dJpdxipr |-> dJ.pr_r, dJpdxic |-> h * dRdn,
             dJpdphil |-> dJ.pl_phi, dJpdphir |-> dJ.pr_phi,
             dJpdphic |-> -dJ.pl_phi - dJ.pr_phi + h * dev.B * nc * dp,
             ntrap |-> <<>>, ptrap |-> <<>>]]
  /\ pc' = "ntrap"
  /\ UNCHANGED <<dev, u, By_xi, By_xip, fluxes, dJ, b, i>>

\* the rates of a trap level holding t of its T states: capture and escape of
\* its own carrier, capture and escape of the other
Rates(T, t) == [r1 |-> 2 * (T - t), r2 |-> t, r3 |-> 3 * t, r4 |-> T - t]
dRates_NoEscape(dt) == [r1 |-> -2 * dt, r2 |-> dt, r3 |-> 3 * dt, r4 |-> 0]
dRates(dt) == [r1 |-> -2 * dt, r2 |-> dt, r3 |-> 3 * dt, r4 |-> -dt]
Own(r, own) == own * r.r1 - r.r2
Other(r, other) == other * r.r3 - r.r4

\* of every band: net capture of the own and of the other carrier, and the derivatives,
\* with that of the potential's row by the level
Level(T, t, dt, last, own, other, down, dother, dphi, go_time) ==
  LET r == Rates(T, t)  d == dRates(dt)
      s == IF go_time THEN 1 ELSE 0
  IN [own |-> Own(r, own), other |-> Other(r, other),
      trap |-> Own(r, own) - Other(r, other) - s * (t - last),
      dtrap |-> Own(d, own) - Other(d, other) - s * dt,
      dtrap_own |-> down * r.r1, dtrap_other |-> -dother * r.r3,
      down |-> Own(d, own), dother |-> Other(d, other), dphi |-> dphi]

Sum(f, S) == SumFunctionOnSet(f, S)

Ntrap ==
  /\ pc = "ntrap"
  /\ IF dev.ntrapnewton
     THEN LET L == [k \in Bands(dev) |->
                      Level(dev.Nt, u.nt[i][k], dev.dnt, dev.ntlast, u.n[i], u.p[i],
                            dev.dn[i], dev.dp[i], dev.dnt, dev.go_time)]
          IN /\ R' = [R EXCEPT !.trapn = @ + Sum([k \in Bands(dev) |-> L[k].own], Bands(dev)),
                               !.trapp = @ + Sum([k \in Bands(dev) |-> L[k].other], Bands(dev))]
             /\ A' = [A EXCEPT ![i].dJdxic =
                        @ - dev.h[i] * Sum([k \in Bands(dev) |-> L[k].dtrap_own], Bands(dev)),
                      ![i].dJpdxipc =
                        @ - dev.h[i] * Sum([k \in Bands(dev) |-> L[k].dtrap_other], Bands(dev)),
                      ![i].ntrap = L]
     ELSE UNCHANGED <<R, A>>
  /\ pc' = "ptrap"
  /\ UNCHANGED <<dev, u, By_xi, By_xip, fluxes, dJ, b, i>>

Ptrap ==
  /\ pc = "ptrap"
  /\ IF dev.ptrapnewton
     THEN LET L == [k \in Bands(dev) |->
                      Level(dev.Nt, u.pt[i][k], dev.dpt, dev.ptlast, u.p[i], u.n[i],
                            dev.dp[i], dev.dn[i], -dev.dpt, dev.go_time)]
          IN /\ R' = [R EXCEPT !.trapp = @ + Sum([k \in Bands(dev) |-> L[k].own], Bands(dev)),
                               !.trapn = @ + Sum([k \in Bands(dev) |-> L[k].other], Bands(dev))]
             /\ A' = [A EXCEPT ![i].dJpdxipc =
                        @ + dev.h[i] * Sum([k \in Bands(dev) |-> L[k].dtrap_own], Bands(dev)),
                      ![i].dJdxic =
                        @ + dev.h[i] * Sum([k \in Bands(dev) |-> L[k].dtrap_other], Bands(dev)),
                      ![i].ptrap = L]
     ELSE UNCHANGED <<R, A>>
  /\ pc' = "rhs"
  /\ UNCHANGED <<dev, u, By_xi, By_xip, fluxes, dJ, b, i>>

\* charge of a point: all trap levels count, in the solver or not
Charge(d, v, y) ==
  v.p[y] - v.n[y] + d.Nad[y] + Sum([k \in Bands(d) |-> v.pt[y][k] - v.nt[y][k]], Bands(d))

CommonR == R.free + R.auger + R.ss_srh

Rhs ==
  /\ pc = "rhs"
  /\ LET h == dev.h[i]
         s == IF dev.go_time THEN 1 ELSE 0
     IN b' = [b EXCEPT ![i] =
          [phi |-> h * Charge(dev, u, i)
                     - (A[i].dphil * Phi(dev, u, i - 1) + A[i].dphic * u.phi[i]
                          + A[i].dphir * Phi(dev, u, i + 1)),
           n |-> -((Jnr[i] - Jnl[i]) - h * (R.trapn + CommonR + R.interface_nc))
                   + h * (s * (u.n[i] - dev.nlast) - dev.Gn[i]),
           p |-> -((Jpr[i] - Jpl[i]) + h * (R.trapp + CommonR + R.interface_pc))
                   + h * (dev.Gp[i] - s * (u.p[i] - dev.plast)),
           nt |-> [k \in DOMAIN A[i].ntrap |-> -A[i].ntrap[k].trap],
           pt |-> [k \in DOMAIN A[i].ptrap |-> -A[i].ptrap[k].trap]]]
  /\ i' = i + 1
  /\ pc' = "electrons"
  /\ UNCHANGED <<dev, u, By_xi, By_xip, fluxes, dJ, R, A>>

Filled == pc = "electrons" /\ i = dev.ylen

\* the system is solved and filled again from the new solution
Refill ==
  /\ Filled
  /\ u' \in Profiles(dev)
  /\ i' = 0 /\ R' = [ss_srh |-> 0] /\ A' = NoRows /\ b' = NoRows
  /\ UNCHANGED <<dev, By_xi, By_xip, fluxes, dJ, pc>>

Next ==
  \/ Electrons \/ Holes \/ Tunnel \/ Recombine \/ Ntrap \/ Ptrap \/ Rhs \/ Refill

Spec == Init /\ [][Next]_vars

-----------------------------------------------------------------------------

\* densities, potential and trap occupation of every point
Solution(d) ==
  [n : [Points(d) -> Int], p : [Points(d) -> Int], phi : [Points(d) -> Int],
   nt : [Points(d) -> [Bands(d) -> Int]], pt : [Points(d) -> [Bands(d) -> Int]]]
\* every number a device or a solution has is one, for each of its points or faces
DeviceAssumption ==
  \A d \in Meshed :
    /\ d.srh_bands \in Nat
    /\ {d.n_contact, d.p_contact, d.phi_contact} \subseteq Int \X Int
    /\ {d.dn, d.dp, d.nfequlib, d.pfequlib, d.Xi, d.Eg, d.h, d.Nad, d.Gn, d.Gp,
        d.interface_B, d.interface_Ge, d.interface_Gh} \subseteq [Points(d) -> Int]
    /\ {d.Dn, d.Dp, d.e} \subseteq [0 .. d.ylen -> Int]
    /\ d.ss_srh \in [Points(d) -> BOOLEAN]
    /\ {d.B, d.Cn, d.Cp, d.Nt, d.dnt, d.dpt, d.ntlast, d.ptlast, d.nlast, d.plast} \subseteq Int
    /\ {d.ntrapnewton, d.ptrapnewton, d.go_time} \subseteq BOOLEAN
    /\ Profiles(d) \subseteq Solution(d)
\* and so is the Bernoulli function
BernNumeric == \A x \in Int : Bern(x) \in Int /\ dBern(x) \in Int
\* of second degree, half the difference across two units is its derivative
BernOfSecondDegree == \A x \in Int : Bern(x + 1) - Bern(x - 1) = 2 * dBern(x)

\* The same equations in conservation form: one flux for each face.
Flux_n(d, v, y) ==
  Jn(d.Dn[y], XiFace(d, v, y), N(d, v, y - 1), N(d, v, y))
    - OfFace(d.interface_Ge, y - 1) * (En(d, v, y - 1) - En(d, v, y))
Flux_p(d, v, y) ==
  Jp(d.Dp[y], XipFace(d, v, y), P(d, v, y - 1), P(d, v, y))
    + OfFace(d.interface_Gh, y - 1) * (Ep(d, v, y - 1) - Ep(d, v, y))
Step(d) == IF d.go_time THEN 1 ELSE 0

\* net capture by the levels of a kind
Captured(rate(_, _), t, T, carrier, on, d) ==
  IF on THEN Sum([k \in Bands(d) |-> rate(Rates(T, t[k]), carrier)], Bands(d)) ELSE 0

Common(d, v, y) ==
  (d.B + Augers(d, v, y) + IF d.ss_srh[y] THEN 1 ELSE 0) * Pairs(d, v, y, y)

Fphi(d, v, y) ==
  d.e[y] * (v.phi[y] - Phi(d, v, y - 1)) - d.e[y + 1] * (Phi(d, v, y + 1) - v.phi[y])
    - d.h[y] * Charge(d, v, y)
Fn(d, v, y) ==
  Flux_n(d, v, y + 1) - Flux_n(d, v, y)
    - d.h[y] * (Common(d, v, y) + Captured(Own, v.nt[y], d.Nt, v.n[y], d.ntrapnewton, d)
                  + Captured(Other, v.pt[y], d.Nt, v.n[y], d.ptrapnewton, d)
                  + OfFace(d.interface_B, y - 1) * Pairs(d, v, y, y - 1)
                  + Step(d) * (v.n[y] - d.nlast) - d.Gn[y])
Fp(d, v, y) ==
  Flux_p(d, v, y + 1) - Flux_p(d, v, y)
    + d.h[y] * (Common(d, v, y) + Captured(Other, v.nt[y], d.Nt, v.p[y], d.ntrapnewton, d)
                  + Captured(Own, v.pt[y], d.Nt, v.p[y], d.ptrapnewton, d)
                  + d.interface_B[y] * Pairs(d, v, y + 1, y)
                  + Step(d) * (v.p[y] - d.plast) - d.Gp[y])
Fnt(d, v, y, k) ==
  Own(Rates(d.Nt, v.nt[y][k]), v.n[y]) - Other(Rates(d.Nt, v.nt[y][k]), v.p[y])
    - Step(d) * (v.nt[y][k] - d.ntlast)
Fpt(d, v, y, k) ==
  Own(Rates(d.Nt, v.pt[y][k]), v.p[y]) - Other(Rates(d.Nt, v.pt[y][k]), v.n[y])
    - Step(d) * (v.pt[y][k] - d.ptlast)

\* twice the derivative of a row, exact while the row is of second degree
Twice(F(_, _, _), y, var, z, s) ==
  F(dev, [u EXCEPT ![var][z] = @ + s], y) - F(dev, [u EXCEPT ![var][z] = @ - s], y)
TwiceTrap(F(_, _, _), y, var, k, s) ==
  F(dev, [u EXCEPT ![var][y][k] = @ + s], y) - F(dev, [u EXCEPT ![var][y][k] = @ - s], y)

\* a row against its residual: its own point, and the neighbours that are mesh points
RowOf(F(_, _, _), y, var, slope, l, c, r) ==
  /\ 2 * c = Twice(F, y, var, y, slope[y])
  /\ y > 0 => 2 * l = Twice(F, y, var, y - 1, slope[y - 1])
  /\ y < dev.ylen - 1 => 2 * r = Twice(F, y, var, y + 1, slope[y + 1])

TrapRows(L, y, tvar, own, other, dtt, down, dother, Ft(_, _, _, _), Fown(_, _, _), Fother(_, _, _), s) ==
  \A k \in DOMAIN L :
    LET G(d, v, z) == Ft(d, v, z, k)
    IN /\ 2 * L[k].dtrap = TwiceTrap(G, y, tvar, k, dtt)
       /\ 2 * L[k].dtrap_own = Twice(G, y, own, y, down)
       /\ 2 * L[k].dtrap_other = Twice(G, y, other, y, dother)
       /\ -2 * s * dev.h[y] * L[k].down = TwiceTrap(Fown, y, tvar, k, dtt)
       /\ 2 * s * dev.h[y] * L[k].dother = TwiceTrap(Fother, y, tvar, k, dtt)
       /\ 2 * dev.h[y] * L[k].dphi = TwiceTrap(Fphi, y, tvar, k, dtt)

Ones == [y \in Points(dev) |-> 1]

NoHoleTunnel == \A y \in Points(dev) : dev.interface_Gh[y] = 0

\* A point's equilibrium SRH rate stays in R behind it, and is right there only when
\* the points behind find their own.
SrhToTheEnd(d) == \A y, z \in Points(d) : z < y /\ d.ss_srh[z] => d.ss_srh[y]

\* The right hand side is minus the residual of the conservation form
ResidualExact ==
  NoHoleTunnel /\ SrhToTheEnd(dev) => \A y \in Points(dev) :
    /\ b[y].phi = -Fphi(dev, u, y) /\ b[y].n = -Fn(dev, u, y) /\ b[y].p = -Fp(dev, u, y)
    /\ \A k \in DOMAIN b[y].nt : b[y].nt[k] = -Fnt(dev, u, y, k)
    /\ \A k \in DOMAIN b[y].pt : b[y].pt[k] = -Fpt(dev, u, y, k)

\* and the derivatives are its derivatives: not for interface recombination and
\* equilibrium SRH, whose terms have none, and in the column of the potential not
\* for free-to-free recombination, whose densities do not depend on it
JacobianExact ==
  NoHoleTunnel /\ (\A y \in Points(dev) : dev.interface_B[y] = 0 /\ ~dev.ss_srh[y]) =>
    \A y \in Points(dev) :
      LET a == A[y] IN
      /\ RowOf(Fphi, y, "phi", Ones, a.dphil, a.dphic, a.dphir)
      /\ RowOf(Fphi, y, "n", dev.dn, 0, a.dphidxic, 0)
      /\ RowOf(Fphi, y, "p", dev.dp, 0, a.dphidxipc, 0)
      /\ RowOf(Fn, y, "n", dev.dn, a.dJdxil, a.dJdxic, a.dJdxir)
      /\ RowOf(Fn, y, "p", dev.dp, 0, a.dJdxipc, 0)
      /\ RowOf(Fp, y, "p", dev.dp, a.dJpdxipl, a.dJpdxipc, a.dJpdxipr)
      /\ RowOf(Fp, y, "n", dev.dn, 0, a.dJpdxic, 0)
      /\ dev.B = 0 => /\ RowOf(Fn, y, "phi", Ones, a.dJdphil, a.dJdphic, a.dJdphir)
                      /\ RowOf(Fp, y, "phi", Ones, a.dJpdphil, a.dJpdphic, a.dJpdphir)
      /\ TrapRows(a.ntrap, y, "nt", "n", "p", dev.dnt, dev.dn[y], dev.dp[y], Fnt, Fn, Fp, 1)
      /\ TrapRows(a.ptrap, y, "pt", "p", "n", dev.dpt, dev.dp[y], dev.dn[y], Fpt, Fp, Fn, -1)

\* What fill_matrix writes is Newton's step for the drift-diffusion equations, although
\* each face is computed from both its sides, Bernoulli functions are kept from the
\* point before, and every term has its derivatives written by hand elsewhere.
NewtonStepExact == Filled => ResidualExact /\ JacobianExact

\* What leaves a point through its right face enters the next one.
FluxConserved ==
  \A y \in Points(dev) : y + 1 < i =>
    /\ Jnr[y] = Jnl[y + 1]
    /\ NoHoleTunnel => Jpr[y] = Jpl[y + 1]

\* change of the charge of a point in the time step, of the equations solved
Stored(y) ==
  (u.p[y] - dev.plast) - (u.n[y] - dev.nlast)
    + Sum([k \in DOMAIN b[y].pt |-> u.pt[y][k] - dev.ptlast], DOMAIN b[y].pt)
    - Sum([k \in DOMAIN b[y].nt |-> u.nt[y][k] - dev.ntlast], DOMAIN b[y].nt)

\* Where both kinds of carriers are generated alike and no interface recombines across a
\* contact or between cells of different widths.
Balanced ==
  /\ NoHoleTunnel
  /\ \A y \in Points(dev) :
       /\ dev.Gn[y] = dev.Gp[y]
       /\ dev.interface_B[y] # 0 => y > 0 /\ y + 1 < dev.ylen /\ dev.h[y] = dev.h[y + 1]

\* Kirchhoff's law follows from the system: residuals that vanish leave a current
\* that differs between the contacts by what is stored, whatever recombines, is
\* trapped or tunnels on the way.
ChargeConserved ==
  Filled /\ Balanced =>
    Sum([y \in Points(dev) |->
          b[y].n + b[y].p + dev.h[y] * (Sum(b[y].nt, DOMAIN b[y].nt) - Sum(b[y].pt, DOMAIN b[y].pt))
            + dev.h[y] * Step(dev) * Stored(y)], Points(dev))
      = (Jnl[0] + Jpl[0]) - (Jnr[dev.ylen - 1] + Jpr[dev.ylen - 1])
=============================================================================
