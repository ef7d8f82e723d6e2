----------------------------- MODULE Fluxes_proofs -----------------------------
(***************************************************************************)
(* What fill_matrix writes is Newton's step for the drift-diffusion        *)
(* equations, and Kirchhoff's law follows from it: proofs about Fluxes, as *)
(* MCNewton instantiates it, for every device, solution and mesh.  And the *)
(* second solver, NewtonNorm, writes the same in units.                    *)
(*                                                                         *)
(* EqSystemInv gives every row and right hand side behind the mesh point   *)
(* in closed form, and what is known so far of the point in work.  It is   *)
(* inductive with EqInv of MCNewton_proofs.  From the closed forms:        *)
(*   - a point's right hand sides sum to the difference of the currents    *)
(*     through its faces, which telescope over the mesh;                   *)
(*   - each right hand side is minus its residual, regrouped;              *)
(*   - each entry of a row is half the difference of the residual between  *)
(*     two moved solutions.  A move is described by how far it takes each  *)
(*     number of each point (EqNudged), so that one lemma on the fluxes    *)
(*     serves the three unknowns and the neighbours on both sides.         *)
(* NormAgrees compares what NewtonNorm has for a point with EqRow and      *)
(* EqSide, in units, and its places with MatrixInv of MCNewton_proofs.     *)
(* A lemma named ...Poly is an identity of integers, stated apart because  *)
(* the provers find it only among plain numbers.                           *)
(***************************************************************************)
EXTENDS MCNewton_proofs, SumTheorems

(* What fill_matrix writes, in closed form. *)

\* a sum of Fluxes or of NewtonNorm is the library's
LEMMA EqSum == \A f, S : Eq!Sum(f, S) = SumFunctionOnSet(f, S)
BY DEF Eq!Sum, Eq!SumFunctionOnSet, Eq!FoldFunctionOnSet, Eq!MapThenFoldSet,
   SumFunctionOnSet, FoldFunctionOnSet, MapThenFoldSet

\* the derivatives of the fluxes through the left and right face of point y, before
\* tunnelling
EqDrift(d, v, y) ==
  LET l == Eq!XiFace(d, v, y)  r == Eq!XiFace(d, v, y + 1)
      lp == Eq!XipFace(d, v, y)  rp == Eq!XipFace(d, v, y + 1)
  IN
  [nl_l |-> -d.Dn[y] * l.plus * Eq!Dn(d, y - 1), nl_c |-> d.Dn[y] * l.neg * d.dn[y],
   nr_c |-> -d.Dn[y + 1] * r.plus * d.dn[y], nr_r |-> d.Dn[y + 1] * r.neg * Eq!Dn(d, y + 1),
   nl_phi |-> d.Dn[y] * (l.dneg * v.n[y] + l.dplus * Eq!N(d, v, y - 1)),
   nr_phi |-> d.Dn[y + 1] * (r.dneg * Eq!N(d, v, y + 1) + r.dplus * v.n[y]),
   pl_l |-> d.Dp[y] * lp.neg * Eq!Dp(d, y - 1), pl_c |-> -d.Dp[y] * lp.plus * d.dp[y],
   pr_c |-> d.Dp[y + 1] * rp.neg * d.dp[y], pr_r |-> -d.Dp[y + 1] * rp.plus * Eq!Dp(d, y + 1),
   pl_phi |-> d.Dp[y] * (lp.dneg * Eq!P(d, v, y - 1) + lp.dplus * v.p[y]),
   pr_phi |-> d.Dp[y + 1] * (rp.dneg * v.p[y] + rp.dplus * Eq!P(d, v, y + 1))]

\* and with it
EqSlopes(d, v, y) ==
  LET J == EqDrift(d, v, y)
      Gel == Eq!GeLeft(d, y)  Gec == d.interface_Ge[y]
      Ghl == Eq!GhLeft(d, y)  Ghc == d.interface_Gh[y]
  IN
  [nl_l |-> J.nl_l - Gel * Eq!Dn(d, y - 1), nl_c |-> J.nl_c + Gel * d.dn[y],
   nr_c |-> J.nr_c - Gec * d.dn[y], nr_r |-> J.nr_r + Gec * Eq!Dn(d, y + 1),
   nl_phi |-> J.nl_phi, nr_phi |-> J.nr_phi,
   pl_l |-> J.pl_l + Ghl * Eq!Dp(d, y - 1), pl_c |-> J.pl_c - Ghl * d.dp[y],
   pr_c |-> J.pr_c + Ghc * d.dp[y], pr_r |-> J.pr_r - Ghc * Eq!Dp(d, y + 1),
   pl_phi |-> J.pl_phi, pr_phi |-> J.pr_phi]

\* the trap levels of a point
EqLevelsN(d, v, y) ==
  [k \in Eq!Bands(d) |-> Eq!Level(d.Nt, v.nt[y][k], d.dnt, d.ntlast, v.n[y], v.p[y],
                                  d.dn[y], d.dp[y], d.dnt, d.go_time)]
EqLevelsP(d, v, y) ==
  [k \in Eq!Bands(d) |-> Eq!Level(d.Nt, v.pt[y][k], d.dpt, d.ptlast, v.p[y], v.n[y],
                                  d.dp[y], d.dn[y], -d.dpt, d.go_time)]
EqOwn(L) == [k \in DOMAIN L |-> L[k].own]
EqOther(L) == [k \in DOMAIN L |-> L[k].other]
EqByOwn(L) == [k \in DOMAIN L |-> L[k].dtrap_own]
EqByOther(L) == [k \in DOMAIN L |-> L[k].dtrap_other]
EqTotal(f) == SumFunctionOnSet(f, DOMAIN f)

\* the row of point y before its traps
EqRow0(d, v, y) ==
  LET J == EqSlopes(d, v, y)
      nc == v.n[y]  pC == v.p[y]  dn == d.dn[y]  dp == d.dp[y]  h == d.h[y]
      np == Eq!Pairs(d, v, y, y)
      dRdn == d.B * dn * pC + d.Cn * dn * np + Eq!Augers(d, v, y) * dn * pC
      dRdp == d.B * nc * dp + d.Cp * dp * np + Eq!Augers(d, v, y) * nc * dp
      dt == IF d.go_time THEN 1 ELSE 0
  IN [dphil |-> -d.e[y], dphic |-> d.e[y] + d.e[y + 1], dphir |-> -d.e[y + 1],
      dphidxic |-> h * dn, dphidxipc |-> -h * dp,
      dJdxil |-> -J.nl_l, dJdxic |-> J.nr_c - J.nl_c - h * (dRdn + dt * dn),
      dJdxir |-> J.nr_r, dJdxipc |-> -h * dRdp,
      dJdphil |-> J.nl_phi, dJdphir |-> J.nr_phi,
      dJdphic |-> -J.nl_phi - J.nr_phi - h * d.B * dn * pC,
      dJpdxipl |-> -J.pl_l, dJpdxipc |-> J.pr_c - J.pl_c + h * (dRdp + dt * dp),
      dJpdxipr |-> J.pr_r, dJpdxic |-> h * dRdn,
      dJpdphil |-> J.pl_phi, dJpdphir |-> J.pr_phi,
      dJpdphic |-> -J.pl_phi - J.pr_phi + h * d.B * nc * dp,
      ntrap |-> <<>>, ptrap |-> <<>>]
\* the entries of a row
EqFields ==
  {"dphil", "dphic", "dphir", "dphidxic", "dphidxipc", "dJdxil", "dJdxic", "dJdxir",
   "dJdxipc", "dJdphil", "dJdphir", "dJdphic", "dJpdxipl", "dJpdxipc", "dJpdxipr",
   "dJpdxic", "dJpdphil", "dJpdphir", "dJpdphic", "ntrap", "ptrap"}

\* with the electron traps
EqRowN(d, v, y) ==
  IF d.ntrapnewton
  THEN LET a == EqRow0(d, v, y)  L == EqLevelsN(d, v, y) IN
       [f \in EqFields |->
          IF f = "dJdxic" THEN a.dJdxic - d.h[y] * EqTotal(EqByOwn(L))
          ELSE IF f = "dJpdxipc" THEN a.dJpdxipc - d.h[y] * EqTotal(EqByOther(L))
          ELSE IF f = "ntrap" THEN L ELSE a[f]]
  ELSE EqRow0(d, v, y)
\* and the hole traps
EqRow(d, v, y) ==
  IF d.ptrapnewton
  THEN LET a == EqRowN(d, v, y)  L == EqLevelsP(d, v, y) IN
       [f \in EqFields |->
          IF f = "dJpdxipc" THEN a.dJpdxipc + d.h[y] * EqTotal(EqByOwn(L))
          ELSE IF f = "dJdxic" THEN a.dJdxic + d.h[y] * EqTotal(EqByOther(L))
          ELSE IF f = "ptrap" THEN L ELSE a[f]]
  ELSE EqRowN(d, v, y)

EqTrapsN(d, v, y) == IF d.ntrapnewton THEN EqLevelsN(d, v, y) ELSE <<>>
EqTrapsP(d, v, y) == IF d.ptrapnewton THEN EqLevelsP(d, v, y) ELSE <<>>

\* Recombination, c of it over the equilibrium SRH traps, and the levels' capture.
EqRecombined(d, v, y, r) ==
  /\ r.free = d.B * Eq!Pairs(d, v, y, y) /\ r.auger = Eq!Augers(d, v, y) * Eq!Pairs(d, v, y, y)
  /\ r.interface_pc = d.interface_B[y] * Eq!Pairs(d, v, y + 1, y)
  /\ r.interface_nc = Eq!BLeft(d, y) * Eq!Pairs(d, v, y, y - 1)
\* the rates
EqRFields == {"free", "auger", "ss_srh", "interface_pc", "interface_nc", "trapn", "trapp"}

\* the right hand sides of point y
EqSide(d, v, y, c) ==
  LET h == d.h[y]
      s == IF d.go_time THEN 1 ELSE 0
      N == EqTrapsN(d, v, y)  P == EqTrapsP(d, v, y)
      common == d.B * Eq!Pairs(d, v, y, y) + Eq!Augers(d, v, y) * Eq!Pairs(d, v, y, y) + c
  IN [phi |-> h * Eq!Charge(d, v, y)
                - ((-d.e[y]) * Eq!Phi(d, v, y - 1) + (d.e[y] + d.e[y + 1]) * v.phi[y]
                     + (-d.e[y + 1]) * Eq!Phi(d, v, y + 1)),
      n |-> -((Eq!Flux_n(d, v, y + 1) - Eq!Flux_n(d, v, y))
                - h * ((EqTotal(EqOwn(N)) + EqTotal(EqOther(P))) + common
                         + Eq!BLeft(d, y) * Eq!Pairs(d, v, y, y - 1)))
              + h * (s * (v.n[y] - d.nlast) - d.Gn[y]),
      p |-> -((Eq!Flux_p(d, v, y + 1) - Eq!Flux_p(d, v, y))
                + h * ((EqTotal(EqOther(N)) + EqTotal(EqOwn(P))) + common
                         + d.interface_B[y] * Eq!Pairs(d, v, y + 1, y)))
              + h * (d.Gp[y] - s * (v.p[y] - d.plast)),
      nt |-> [k \in DOMAIN N |-> -N[k].trap],
      pt |-> [k \in DOMAIN P |-> -P[k].trap]]

\* recombination over equilibrium SRH traps
EqSrh(d, v, y) == IF d.ss_srh[y] THEN Eq!Pairs(d, v, y, y) ELSE 0

-----------------------------------------------------------------------------
(* The invariant. *)

\* the derivatives of the fluxes of the point in work
EqSlopesInv ==
  /\ DOMAIN dJ = DOMAIN Eq!NoSlopes
  /\ pc \in {"holes", "tunnel"} =>
       LET J == EqDrift(dev, u, i) IN
       /\ dJ.nl_l = J.nl_l /\ dJ.nl_c = J.nl_c /\ dJ.nr_c = J.nr_c /\ dJ.nr_r = J.nr_r
       /\ dJ.nl_phi = J.nl_phi /\ dJ.nr_phi = J.nr_phi
  /\ pc = "tunnel" =>
       LET J == EqDrift(dev, u, i) IN
       /\ dJ.pl_l = J.pl_l /\ dJ.pl_c = J.pl_c /\ dJ.pr_c = J.pr_c /\ dJ.pr_r = J.pr_r
       /\ dJ.pl_phi = J.pl_phi /\ dJ.pr_phi = J.pr_phi
  /\ pc = "recombine" => dJ = EqSlopes(dev, u, i)

\* the rows behind it, and its own as far as it is
EqRowsInv ==
  /\ EqIsOnPoints(A)
  /\ \A y \in Eq!Points(dev) : y < i => A[y] = EqRow(dev, u, y)
  /\ pc = "ntrap" => A[i] = EqRow0(dev, u, i)
  /\ pc = "ptrap" => A[i] = EqRowN(dev, u, i)
  /\ pc = "rhs" => A[i] = EqRow(dev, u, i)

\* its recombination
EqRInv ==
  /\ R.ss_srh \in Int
  /\ pc \in {"ntrap", "ptrap", "rhs"} => DOMAIN R = EqRFields /\ EqRecombined(dev, u, i, R)
  /\ pc = "ntrap" => R.trapn = 0 /\ R.trapp = 0
  /\ pc = "ptrap" => /\ R.trapn = EqTotal(EqOwn(EqTrapsN(dev, u, i)))
                     /\ R.trapp = EqTotal(EqOther(EqTrapsN(dev, u, i)))
  /\ pc = "rhs" => /\ R.trapn = EqTotal(EqOwn(EqTrapsN(dev, u, i)))
                                  + EqTotal(EqOther(EqTrapsP(dev, u, i)))
                   /\ R.trapp = EqTotal(EqOther(EqTrapsN(dev, u, i)))
                                  + EqTotal(EqOwn(EqTrapsP(dev, u, i)))

\* what equilibrium SRH traps left behind
EqSrhInv ==
  Eq!SrhToTheEnd(dev) =>
    /\ pc \in {"electrons", "holes", "tunnel", "recombine"} =>
         \/ R.ss_srh = 0
         \/ i > 0 /\ dev.ss_srh[i - 1]
    /\ pc \in {"ntrap", "ptrap", "rhs"} => R.ss_srh = EqSrh(dev, u, i)

\* the right hand sides behind it, up to the SRH rate c they were given
EqSidesInv ==
  /\ EqIsOnPoints(b)
  /\ Eq!NoHoleTunnel =>
       \A y \in Eq!Points(dev) : y < i =>
         \E c \in Int : /\ b[y] = EqSide(dev, u, y, c)
                        /\ Eq!SrhToTheEnd(dev) => c = EqSrh(dev, u, y)

\* All of it.
EqSystemInv ==
  /\ u \in Eq!Solution(dev)
  /\ EqSlopesInv /\ EqRowsInv /\ EqRInv /\ EqSrhInv /\ EqSidesInv

\* The numbers of a device and of a solution.
LEMMA EqDevice ==
  ASSUME NEW d \in Eq!Meshed
  PROVE  /\ d.ylen \in Nat \ {0} /\ d.srh_bands \in Nat
         /\ {d.n_contact, d.p_contact, d.phi_contact} \subseteq Int \X Int
         /\ {d.dn, d.dp, d.nfequlib, d.pfequlib, d.Xi, d.Eg, d.h, d.Nad, d.Gn, d.Gp,
             d.interface_B, d.interface_Ge, d.interface_Gh} \subseteq [Eq!Points(d) -> Int]
         /\ {d.Dn, d.Dp, d.e} \subseteq [0 .. d.ylen -> Int]
         /\ d.ss_srh \in [Eq!Points(d) -> BOOLEAN]
         /\ {d.B, d.Cn, d.Cp, d.Nt, d.dnt, d.dpt, d.ntlast, d.ptlast, d.nlast, d.plast}
              \subseteq Int
         /\ {d.ntrapnewton, d.ptrapnewton, d.go_time} \subseteq BOOLEAN
         /\ Profiles(d) \subseteq Eq!Solution(d)
BY MCFluxAssumption, EqMeshHasPoints DEF Eq!DeviceAssumption

\* The parts of a solution are numbers of its points.
LEMMA EqProfile ==
  ASSUME NEW d \in Eq!Meshed, NEW v \in Eq!Solution(d)
  PROVE  /\ {v.n, v.p, v.phi} \subseteq [Eq!Points(d) -> Int]
         /\ {v.nt, v.pt} \subseteq [Eq!Points(d) -> [Eq!Bands(d) -> Int]]
BY DEF Eq!Solution

\* Beyond the ends of the mesh, a profile has the numbers of the contacts.
LEMMA EqAtInt ==
  ASSUME NEW d \in Eq!Meshed, NEW f \in [Eq!Points(d) -> Int], NEW e \in Int \X Int,
         NEW y \in -1 .. d.ylen
  PROVE  Eq!At(f, e, d, y) \in Int
<1>1. d.ylen \in Nat
  BY EqDevice
<1>2. y \in Int /\ y >= -1 /\ y <= d.ylen
  BY <1>1
<1>3. CASE y < 0
  BY <1>3 DEF Eq!At
<1>4. CASE y = d.ylen
  BY <1>1, <1>4 DEF Eq!At
<1>5. CASE y >= 0 /\ y < d.ylen
  <2>1. y \in Eq!Points(d)
    BY <1>1, <1>2, <1>5 DEF Eq!Points
  <2> QED BY <1>1, <1>5, <2>1 DEF Eq!At
<1> QED BY <1>1, <1>2, <1>3, <1>4, <1>5

\* Whatever is read of a point or a contact is a number,
LEMMA EqNumbers ==
  ASSUME NEW d \in Eq!Meshed, NEW v \in Eq!Solution(d), NEW y \in -1 .. d.ylen
  PROVE  /\ Eq!N(d, v, y) \in Int /\ Eq!P(d, v, y) \in Int /\ Eq!Phi(d, v, y) \in Int
         /\ Eq!Dn(d, y) \in Int /\ Eq!Dp(d, y) \in Int
         /\ Eq!Neq(d, y) \in Int /\ Eq!Peq(d, y) \in Int
         /\ Eq!Xi(d, y) \in Int /\ Eq!Eg(d, y) \in Int
<1>1. v.n \in [Eq!Points(d) -> Int] /\ v.p \in [Eq!Points(d) -> Int] /\ v.phi \in [Eq!Points(d) -> Int]
  BY EqProfile
<1>2. /\ d.n_contact \in Int \X Int /\ d.p_contact \in Int \X Int /\ d.phi_contact \in Int \X Int
      /\ d.dn \in [Eq!Points(d) -> Int] /\ d.dp \in [Eq!Points(d) -> Int]
      /\ d.nfequlib \in [Eq!Points(d) -> Int] /\ d.pfequlib \in [Eq!Points(d) -> Int]
      /\ d.Xi \in [Eq!Points(d) -> Int] /\ d.Eg \in [Eq!Points(d) -> Int]
      /\ d.ylen \in Nat \ {0}
  BY EqDevice
<1>3. Eq!N(d, v, y) \in Int /\ Eq!P(d, v, y) \in Int /\ Eq!Phi(d, v, y) \in Int
  BY <1>1, <1>2, EqAtInt DEF Eq!N, Eq!P, Eq!Phi
<1>4. Eq!Neq(d, y) \in Int /\ Eq!Peq(d, y) \in Int
  BY <1>2, EqAtInt DEF Eq!Neq, Eq!Peq
<1>5. Eq!Dn(d, y) \in Int /\ Eq!Dp(d, y) \in Int
  BY <1>2, EqAtInt DEF Eq!Dn, Eq!Dp
<1>6. 0 \in Eq!Points(d) /\ d.ylen - 1 \in Eq!Points(d)
  BY <1>2 DEF Eq!Points
<1>7. <<d.Xi[0], d.Xi[d.ylen - 1]>> \in Int \X Int /\ <<d.Eg[0], d.Eg[d.ylen - 1]>> \in Int \X Int
  BY <1>2, <1>6
<1>8. Eq!Xi(d, y) \in Int /\ Eq!Eg(d, y) \in Int
  BY <1>2, <1>7, EqAtInt DEF Eq!Xi, Eq!Eg
<1> QED BY <1>3, <1>4, <1>5, <1>8

\* The neighbours of a mesh point, and its faces.
LEMMA EqAround ==
  ASSUME NEW d \in Eq!Meshed, NEW y \in Eq!Points(d)
  PROVE  /\ y \in Int /\ y - 1 \in -1 .. d.ylen /\ y \in -1 .. d.ylen /\ y + 1 \in -1 .. d.ylen
         /\ y \in 0 .. d.ylen /\ y + 1 \in 0 .. d.ylen /\ (y + 1) - 1 = y
BY EqDevice DEF Eq!Points

\* and so are the Bernoulli functions of a face,
LEMMA EqFaceNumbers ==
  ASSUME Eq!BernNumeric, NEW d \in Eq!Meshed, NEW v \in Eq!Solution(d), NEW y \in 0 .. d.ylen
  PROVE  /\ Eq!XiFace(d, v, y) \in [neg : Int, dneg : Int, plus : Int, dplus : Int]
         /\ Eq!XipFace(d, v, y) \in [neg : Int, dneg : Int, plus : Int, dplus : Int]
<1>1. d.ylen \in Nat /\ y \in -1 .. d.ylen /\ y - 1 \in -1 .. d.ylen
  BY EqDevice
<1>2. \A z \in -1 .. d.ylen : Eq!Ec(d, v, z) \in Int /\ Eq!Ev(d, v, z) \in Int
  BY EqNumbers DEF Eq!Ec, Eq!Ev
<1>3. \A x \in Int : Eq!BdB(x) \in [neg : Int, dneg : Int, plus : Int, dplus : Int]
  <2> TAKE x \in Int
  <2>1. -x \in Int
    OBVIOUS
  <2>2. Bern(-x) \in Int /\ dBern(-x) \in Int /\ Bern(x) \in Int /\ dBern(x) \in Int
    BY <2>1, Zenon DEF Eq!BernNumeric
  <2> QED BY <2>2 DEF Eq!BdB
<1>4. /\ Eq!Ec(d, v, y) - Eq!Ec(d, v, y - 1) \in Int
      /\ Eq!Ev(d, v, y) - Eq!Ev(d, v, y - 1) \in Int
  BY <1>1, <1>2
<1> QED BY <1>3, <1>4, Zenon DEF Eq!XiFace, Eq!XipFace

\* the constants of a face,
LEMMA EqOfFaceInt ==
  ASSUME NEW d \in Eq!Meshed, NEW f \in [Eq!Points(d) -> Int], NEW y \in -1 .. d.ylen - 1
  PROVE  Eq!OfFace(f, y) \in Int
<1>1. d.ylen \in Nat \ {0}
  BY EqDevice
<1>2. (IF y < 0 THEN 0 ELSE y) \in Eq!Points(d)
  BY <1>1 DEF Eq!Points
<1> QED BY <1>2 DEF Eq!OfFace

\* the fluxes through it,
LEMMA EqFluxInt ==
  ASSUME Eq!BernNumeric, NEW d \in Eq!Meshed, NEW v \in Eq!Solution(d), NEW y \in 0 .. d.ylen
  PROVE  Eq!Flux_n(d, v, y) \in Int /\ Eq!Flux_p(d, v, y) \in Int
<1>1. d.ylen \in Nat /\ y \in -1 .. d.ylen /\ y - 1 \in -1 .. d.ylen /\ y - 1 \in -1 .. d.ylen - 1
  BY EqDevice
<1>2. \A p, q, r \in Int : p * q \in Int /\ p - q \in Int /\ p + q \in Int
  BY SMT
<1>3. d.Dn[y] \in Int /\ d.Dp[y] \in Int
  BY EqDevice
<1>4. /\ Eq!XiFace(d, v, y).neg \in Int /\ Eq!XiFace(d, v, y).plus \in Int
      /\ Eq!XipFace(d, v, y).neg \in Int /\ Eq!XipFace(d, v, y).plus \in Int
  BY EqFaceNumbers
<1>5. /\ Eq!N(d, v, y) \in Int /\ Eq!N(d, v, y - 1) \in Int
      /\ Eq!P(d, v, y) \in Int /\ Eq!P(d, v, y - 1) \in Int
  BY <1>1, EqNumbers
<1>6. /\ Eq!En(d, v, y) \in Int /\ Eq!En(d, v, y - 1) \in Int
      /\ Eq!Ep(d, v, y) \in Int /\ Eq!Ep(d, v, y - 1) \in Int
  BY <1>1, EqNumbers DEF Eq!En, Eq!Ep
<1>7. Eq!OfFace(d.interface_Ge, y - 1) \in Int /\ Eq!OfFace(d.interface_Gh, y - 1) \in Int
  BY <1>1, EqDevice, EqOfFaceInt
<1>8. /\ Eq!Jn(d.Dn[y], Eq!XiFace(d, v, y), Eq!N(d, v, y - 1), Eq!N(d, v, y)) \in Int
      /\ Eq!Jp(d.Dp[y], Eq!XipFace(d, v, y), Eq!P(d, v, y - 1), Eq!P(d, v, y)) \in Int
  BY <1>2, <1>3, <1>4, <1>5, Zenon DEF Eq!Jn, Eq!Jp
<1>9. /\ Eq!OfFace(d.interface_Ge, y - 1) * (Eq!En(d, v, y - 1) - Eq!En(d, v, y)) \in Int
      /\ Eq!OfFace(d.interface_Gh, y - 1) * (Eq!Ep(d, v, y - 1) - Eq!Ep(d, v, y)) \in Int
  BY <1>2, <1>6, <1>7, Zenon
<1> QED BY <1>2, <1>8, <1>9, Zenon DEF Eq!Flux_n, Eq!Flux_p

\* and products of densities.
LEMMA EqPairsInt ==
  ASSUME NEW d \in Eq!Meshed, NEW v \in Eq!Solution(d), NEW y \in -1 .. d.ylen, NEW z \in -1 .. d.ylen
  PROVE  Eq!Pairs(d, v, y, z) \in Int
<1>1. \A p, q \in Int : p * q \in Int /\ p - q \in Int
  BY SMT
<1> QED BY <1>1, EqNumbers, Zenon DEF Eq!Pairs

\* The levels of a point and what they sum to.
LEMMA EqLevelInt ==
  ASSUME NEW Nt \in Int, NEW t \in Int, NEW dt \in Int, NEW last \in Int, NEW own \in Int,
         NEW other \in Int, NEW down \in Int, NEW dother \in Int, NEW dphi,
         NEW go_time \in BOOLEAN,
         NEW L, L = Eq!Level(Nt, t, dt, last, own, other, down, dother, dphi, go_time)
  PROVE  /\ L.own \in Int /\ L.other \in Int /\ L.trap \in Int
         /\ L.dtrap_own \in Int /\ L.dtrap_other \in Int
         /\ L.own = own * (2 * (Nt - t)) - t /\ L.other = other * (3 * t) - (Nt - t)
         /\ L.trap = L.own - L.other - (IF go_time THEN 1 ELSE 0) * (t - last)
<1>1. \A p, q \in Int : p * q \in Int /\ p - q \in Int /\ -p \in Int
  BY SMT
<1>2. /\ L.own = own * (2 * (Nt - t)) - t /\ L.other = other * (3 * t) - (Nt - t)
      /\ L.trap = (own * (2 * (Nt - t)) - t) - (other * (3 * t) - (Nt - t))
                    - (IF go_time THEN 1 ELSE 0) * (t - last)
      /\ L.dtrap_own = down * (2 * (Nt - t)) /\ L.dtrap_other = -dother * (3 * t)
  BY DEF Eq!Level, Eq!Rates, Eq!Own, Eq!Other
<1>3. 2 \in Int /\ 3 \in Int /\ (IF go_time THEN 1 ELSE 0) \in Int
  BY SMT
<1>4. 2 * (Nt - t) \in Int /\ 3 * t \in Int /\ Nt - t \in Int /\ -dother \in Int
      /\ (IF go_time THEN 1 ELSE 0) * (t - last) \in Int
  BY <1>1, <1>3, Zenon
<1>5. L.own \in Int /\ L.other \in Int
  <2>1. own * (2 * (Nt - t)) \in Int /\ other * (3 * t) \in Int
    BY <1>1, <1>4, Zenon
  <2>2. own * (2 * (Nt - t)) - t \in Int /\ other * (3 * t) - (Nt - t) \in Int
    BY <1>1, <1>4, <2>1, Zenon
  <2> QED BY <1>2, <2>2, Zenon
<1>6. L.trap = L.own - L.other - (IF go_time THEN 1 ELSE 0) * (t - last)
  BY <1>2, Zenon
<1>7. L.trap \in Int
  <2>1. L.own - L.other \in Int
    BY <1>1, <1>5, Zenon
  <2>2. L.own - L.other - (IF go_time THEN 1 ELSE 0) * (t - last) \in Int
    BY <1>1, <1>4, <2>1, Zenon
  <2> QED BY <1>6, <2>2, Zenon
<1>8. L.dtrap_own \in Int /\ L.dtrap_other \in Int
  <2>1. down * (2 * (Nt - t)) \in Int /\ -dother * (3 * t) \in Int
    BY <1>1, <1>4, Zenon
  <2> QED BY <1>2, <2>1, Zenon
<1> QED BY <1>2, <1>5, <1>6, <1>7, <1>8, Zenon

EqSums(L) ==
  /\ IsFiniteSet(DOMAIN L)
  /\ EqOwn(L) \in [DOMAIN L -> Int] /\ EqOther(L) \in [DOMAIN L -> Int]
  /\ EqByOwn(L) \in [DOMAIN L -> Int] /\ EqByOther(L) \in [DOMAIN L -> Int]
  /\ EqTotal(EqOwn(L)) \in Int /\ EqTotal(EqOther(L)) \in Int
  /\ EqTotal(EqByOwn(L)) \in Int /\ EqTotal(EqByOther(L)) \in Int

\* Levels of numbers sum to numbers:
LEMMA EqSumsType ==
  ASSUME NEW L, IsFiniteSet(DOMAIN L),
         \A k \in DOMAIN L : /\ L[k].own \in Int /\ L[k].other \in Int
                             /\ L[k].dtrap_own \in Int /\ L[k].dtrap_other \in Int
  PROVE  EqSums(L)
<1>1. /\ EqOwn(L) \in [DOMAIN L -> Int] /\ EqOther(L) \in [DOMAIN L -> Int]
      /\ EqByOwn(L) \in [DOMAIN L -> Int] /\ EqByOther(L) \in [DOMAIN L -> Int]
  BY DEF EqOwn, EqOther, EqByOwn, EqByOther
<1>2. \A f \in [DOMAIN L -> Int] : EqTotal(f) \in Int
  <2> TAKE f \in [DOMAIN L -> Int]
  <2>1. DOMAIN f = DOMAIN L /\ DOMAIN L \in SUBSET DOMAIN L
    OBVIOUS
  <2>2. SumFunctionOnSet(f, DOMAIN L) \in Int
    BY <2>1, SumSplit
  <2> QED BY <2>1, <2>2 DEF EqTotal
<1> QED BY <1>1, <1>2 DEF EqSums

\* those of a point do,
LEMMA EqLevelsType ==
  ASSUME NEW d \in Eq!Meshed, NEW v \in Eq!Solution(d), NEW y \in Eq!Points(d)
  PROVE  /\ DOMAIN EqLevelsN(d, v, y) = Eq!Bands(d) /\ DOMAIN EqLevelsP(d, v, y) = Eq!Bands(d)
         /\ IsFiniteSet(Eq!Bands(d))
         /\ EqSums(EqLevelsN(d, v, y)) /\ EqSums(EqLevelsP(d, v, y))
<1>1. DOMAIN EqLevelsN(d, v, y) = Eq!Bands(d) /\ DOMAIN EqLevelsP(d, v, y) = Eq!Bands(d)
  BY DEF EqLevelsN, EqLevelsP
<1>2. IsFiniteSet(Eq!Bands(d))
  BY EqDevice, FS_Interval DEF Eq!Bands
<1>3. /\ d.Nt \in Int /\ d.dnt \in Int /\ d.dpt \in Int /\ d.ntlast \in Int /\ d.ptlast \in Int
      /\ d.dn[y] \in Int /\ d.dp[y] \in Int /\ d.go_time \in BOOLEAN
  BY EqDevice
<1>4. /\ v.n[y] \in Int /\ v.p[y] \in Int
      /\ \A k \in Eq!Bands(d) : v.nt[y][k] \in Int /\ v.pt[y][k] \in Int
  BY EqProfile
<1>5. \A k \in Eq!Bands(d) :
        LET N == EqLevelsN(d, v, y)[k]  P == EqLevelsP(d, v, y)[k] IN
        /\ N.own \in Int /\ N.other \in Int /\ N.dtrap_own \in Int /\ N.dtrap_other \in Int
        /\ P.own \in Int /\ P.other \in Int /\ P.dtrap_own \in Int /\ P.dtrap_other \in Int
  <2> TAKE k \in Eq!Bands(d)
  <2>1. EqLevelsN(d, v, y)[k] = Eq!Level(d.Nt, v.nt[y][k], d.dnt, d.ntlast, v.n[y], v.p[y],
                                  d.dn[y], d.dp[y], d.dnt, d.go_time)
    BY DEF EqLevelsN
  <2>2. EqLevelsP(d, v, y)[k] = Eq!Level(d.Nt, v.pt[y][k], d.dpt, d.ptlast, v.p[y], v.n[y],
                                  d.dp[y], d.dn[y], -d.dpt, d.go_time)
    BY DEF EqLevelsP
  <2>3. v.nt[y][k] \in Int /\ v.pt[y][k] \in Int
    BY <1>4
  <2>4. LET N == EqLevelsN(d, v, y)[k] IN
        N.own \in Int /\ N.other \in Int /\ N.dtrap_own \in Int /\ N.dtrap_other \in Int
    BY <1>3, <1>4, <2>1, <2>3, EqLevelInt
  <2>5. LET P == EqLevelsP(d, v, y)[k] IN
        P.own \in Int /\ P.other \in Int /\ P.dtrap_own \in Int /\ P.dtrap_other \in Int
    BY <1>3, <1>4, <2>2, <2>3, EqLevelInt
  <2> QED BY <2>4, <2>5
<1>6. EqSums(EqLevelsN(d, v, y))
  BY <1>1, <1>2, <1>5, EqSumsType
<1>7. EqSums(EqLevelsP(d, v, y))
  BY <1>1, <1>2, <1>5, EqSumsType
<1> QED BY <1>1, <1>2, <1>6, <1>7

\* and no levels sum to nothing.
LEMMA EqNoTraps ==
  ASSUME NEW L, L = <<>>
  PROVE  /\ EqSums(L) /\ DOMAIN L = {}
         /\ EqTotal(EqOwn(L)) = 0 /\ EqTotal(EqOther(L)) = 0
<1>1. DOMAIN L = {}
  OBVIOUS
<1>2. EqSums(L)
  BY <1>1, FS_EmptySet, EqSumsType
<1>3. DOMAIN EqOwn(L) = {} /\ DOMAIN EqOther(L) = {}
  BY <1>1 DEF EqOwn, EqOther
<1> QED BY <1>1, <1>2, <1>3, SumEmpty DEF EqTotal

\* The levels a point has, or none when its traps are not solved for.
LEMMA EqTrapsType ==
  ASSUME NEW d \in Eq!Meshed, NEW v \in Eq!Solution(d), NEW y \in Eq!Points(d)
  PROVE  EqSums(EqTrapsN(d, v, y)) /\ EqSums(EqTrapsP(d, v, y))
BY EqLevelsType, EqNoTraps DEF EqTrapsN, EqTrapsP

-----------------------------------------------------------------------------

\* The invariant holds at the start of fill_matrix,
LEMMA EqSystemInit == Eq!Init => EqSystemInv
<1> SUFFICES ASSUME Eq!Init PROVE EqSystemInv
  OBVIOUS
<1>1. /\ dev \in Eq!Meshed /\ u \in Eq!Solution(dev) /\ dJ = Eq!NoSlopes /\ R = [ss_srh |-> 0]
      /\ A = Eq!NoRows /\ b = Eq!NoRows /\ i = 0 /\ pc = "electrons"
  BY EqDevice DEF Eq!Init
<1>2. \A y \in Eq!Points(dev) : ~(y < i)
  BY <1>1, EqDevice DEF Eq!Points
<1>3. EqSlopesInv
  BY <1>1 DEF EqSlopesInv
<1>4. EqRowsInv
  BY <1>1, <1>2 DEF EqRowsInv, EqIsOnPoints, Eq!NoRows
<1>5. EqRInv /\ EqSrhInv
  BY <1>1 DEF EqRInv, EqSrhInv
<1>6. EqSidesInv
  BY <1>1, <1>2 DEF EqSidesInv, EqIsOnPoints, Eq!NoRows
<1> QED BY <1>1, <1>3, <1>4, <1>5, <1>6 DEF EqSystemInv

\* of the next call of it,
LEMMA EqSystemRefill == EqInv /\ EqSystemInv /\ Eq!Refill => EqSystemInv'
<1> SUFFICES ASSUME EqInv, EqSystemInv, Eq!Refill PROVE EqSystemInv'
  OBVIOUS
<1>1. /\ dev' = dev /\ u' \in Eq!Solution(dev) /\ dJ' = dJ /\ R' = [ss_srh |-> 0]
      /\ A' = Eq!NoRows /\ b' = Eq!NoRows /\ i' = 0 /\ pc = "electrons" /\ pc' = pc
  BY EqDevice DEF Eq!Refill, Eq!Filled, EqInv, EqWhere
<1>2. \A y \in Eq!Points(dev) : ~(y < i')
  BY <1>1, EqDevice DEF Eq!Points, EqInv, EqWhere
<1>3. EqSlopesInv'
  BY <1>1 DEF EqSystemInv, EqSlopesInv, Eq!NoSlopes
<1>4. EqRowsInv'
  BY <1>1, <1>2 DEF EqRowsInv, EqIsOnPoints, Eq!NoRows
<1>5. EqRInv' /\ EqSrhInv'
  BY <1>1 DEF EqRInv, EqSrhInv
<1>6. EqSidesInv'
  BY <1>1, <1>2 DEF EqSidesInv, EqIsOnPoints, Eq!NoRows, Eq!NoHoleTunnel
<1> QED BY <1>1, <1>3, <1>4, <1>5, <1>6 DEF EqSystemInv

\* Where the fill is.
LEMMA EqNow ==
  ASSUME EqInv, pc # "electrons" \/ i < dev.ylen
  PROVE  dev \in Eq!Meshed /\ i \in Eq!Points(dev) /\ i < dev.ylen
BY EqInPoints DEF EqInv, EqWhere

\* The fluxes and slopes do not disturb what is kept of rows and right hand sides.
LEMMA EqSystemKeep ==
  ASSUME EqSystemInv, UNCHANGED <<dev, u, R, A, b, i>>,
         pc \in {"electrons", "holes", "tunnel"}, pc' \in {"holes", "tunnel", "recombine"},
         EqSlopesInv'
  PROVE  EqSystemInv'
<1>1. EqRowsInv'
  BY DEF EqSystemInv, EqRowsInv, EqIsOnPoints, Eq!Points
<1>2. EqRInv' /\ EqSrhInv'
  BY DEF EqSystemInv, EqRInv, EqSrhInv
<1>3. EqSidesInv'
  BY DEF EqSystemInv, EqSidesInv, EqIsOnPoints, Eq!NoHoleTunnel
<1> QED BY <1>1, <1>2, <1>3 DEF EqSystemInv

\* The electrons' fluxes and slopes are those of the closed form,
LEMMA EqSystemElectrons == EqInv /\ EqSystemInv /\ Eq!Electrons => EqSystemInv'
<1> SUFFICES ASSUME EqInv, EqSystemInv, Eq!Electrons PROVE EqSystemInv'
  OBVIOUS
<1>1. /\ UNCHANGED <<dev, u, R, A, b, i>> /\ pc = "electrons" /\ pc' = "holes"
      /\ i < dev.ylen
  BY DEF Eq!Electrons
<1>2. Eq!LeftXi(i) = Eq!XiFace(dev, u, i)
  BY <1>1, EqLeftFaces
<1>3. dJ' = LET l == Eq!XiFace(dev, u, i)  r == Eq!XiFace(dev, u, i + 1) IN
        [dJ EXCEPT
           !.nl_l = -dev.Dn[i] * l.plus * Eq!Dn(dev, i - 1), !.nl_c = dev.Dn[i] * l.neg * dev.dn[i],
           !.nr_c = -dev.Dn[i + 1] * r.plus * dev.dn[i],
           !.nr_r = dev.Dn[i + 1] * r.neg * Eq!Dn(dev, i + 1),
           !.nl_phi = dev.Dn[i] * (l.dneg * u.n[i] + l.dplus * Eq!N(dev, u, i - 1)),
           !.nr_phi = dev.Dn[i + 1] * (r.dneg * Eq!N(dev, u, i + 1) + r.dplus * u.n[i])]
  BY <1>2, Zenon DEF Eq!Electrons
<1>4. DOMAIN dJ = DOMAIN Eq!NoSlopes
  BY DEF EqSystemInv, EqSlopesInv
<1>5. EqSlopesInv'
  BY <1>1, <1>3, <1>4 DEF EqSlopesInv, EqDrift, Eq!NoSlopes
<1> QED BY <1>1, <1>5, EqSystemKeep

\* the holes' are,
LEMMA EqSystemHoles == EqInv /\ EqSystemInv /\ Eq!Holes => EqSystemInv'
<1> SUFFICES ASSUME EqInv, EqSystemInv, Eq!Holes PROVE EqSystemInv'
  OBVIOUS
<1>1. /\ UNCHANGED <<dev, u, R, A, b, i>> /\ pc = "holes" /\ pc' = "tunnel"
  BY DEF Eq!Holes
<1>2. Eq!LeftXip(i) = Eq!XipFace(dev, u, i)
  BY <1>1, EqLeftFaces, EqNow
<1>3. dJ' = LET l == Eq!XipFace(dev, u, i)  r == Eq!XipFace(dev, u, i + 1) IN
        [dJ EXCEPT
           !.pl_l = dev.Dp[i] * l.neg * Eq!Dp(dev, i - 1), !.pl_c = -dev.Dp[i] * l.plus * dev.dp[i],
           !.pr_c = dev.Dp[i + 1] * r.neg * dev.dp[i],
           !.pr_r = -dev.Dp[i + 1] * r.plus * Eq!Dp(dev, i + 1),
           !.pl_phi = dev.Dp[i] * (l.dneg * Eq!P(dev, u, i - 1) + l.dplus * u.p[i]),
           !.pr_phi = dev.Dp[i + 1] * (r.dneg * u.p[i] + r.dplus * Eq!P(dev, u, i + 1))]
  BY <1>2, Zenon DEF Eq!Holes
<1>4. DOMAIN dJ = DOMAIN Eq!NoSlopes
  BY DEF EqSystemInv, EqSlopesInv
<1>5. LET J == EqDrift(dev, u, i) IN
       /\ dJ.nl_l = J.nl_l /\ dJ.nl_c = J.nl_c /\ dJ.nr_c = J.nr_c /\ dJ.nr_r = J.nr_r
       /\ dJ.nl_phi = J.nl_phi /\ dJ.nr_phi = J.nr_phi
  BY <1>1 DEF EqSystemInv, EqSlopesInv
<1>6. EqSlopesInv'
  BY <1>1, <1>3, <1>4, <1>5 DEF EqSlopesInv, EqDrift, Eq!NoSlopes
<1> QED BY <1>1, <1>6, EqSystemKeep

\* and tunnelling completes both.
LEMMA EqSystemTunnel == EqInv /\ EqSystemInv /\ Eq!Tunnel => EqSystemInv'
<1> SUFFICES ASSUME EqInv, EqSystemInv, Eq!Tunnel PROVE EqSystemInv'
  OBVIOUS
<1>1. /\ UNCHANGED <<dev, u, R, A, b, i>> /\ pc = "tunnel" /\ pc' = "recombine"
  BY DEF Eq!Tunnel
<1>2. DOMAIN dJ = DOMAIN Eq!NoSlopes
  BY DEF EqSystemInv, EqSlopesInv
<1>3. LET J == EqDrift(dev, u, i) IN
       /\ dJ.nl_l = J.nl_l /\ dJ.nl_c = J.nl_c /\ dJ.nr_c = J.nr_c /\ dJ.nr_r = J.nr_r
       /\ dJ.nl_phi = J.nl_phi /\ dJ.nr_phi = J.nr_phi
       /\ dJ.pl_l = J.pl_l /\ dJ.pl_c = J.pl_c /\ dJ.pr_c = J.pr_c /\ dJ.pr_r = J.pr_r
       /\ dJ.pl_phi = J.pl_phi /\ dJ.pr_phi = J.pr_phi
  BY <1>1 DEF EqSystemInv, EqSlopesInv
<1>4. dJ' = LET Gel == Eq!GeLeft(dev, i)  Gec == dev.interface_Ge[i]
                Ghl == Eq!GhLeft(dev, i)  Ghc == dev.interface_Gh[i] IN
            [dJ EXCEPT !.nl_l = @ - Gel * Eq!Dn(dev, i - 1), !.nl_c = @ + Gel * dev.dn[i],
                       !.nr_c = @ - Gec * dev.dn[i], !.nr_r = @ + Gec * Eq!Dn(dev, i + 1),
                       !.pl_l = @ + Ghl * Eq!Dp(dev, i - 1), !.pl_c = @ - Ghl * dev.dp[i],
                       !.pr_c = @ + Ghc * dev.dp[i], !.pr_r = @ - Ghc * Eq!Dp(dev, i + 1)]
  BY DEF Eq!Tunnel
<1>5. dJ' = EqSlopes(dev, u, i)
  BY <1>2, <1>3, <1>4 DEF EqSlopes, Eq!NoSlopes
<1>6. EqSlopesInv'
  BY <1>1, <1>5 DEF EqSlopesInv, EqSlopes, Eq!NoSlopes
<1> QED BY <1>1, <1>6, EqSystemKeep

\* An action on the rows leaves the right hand sides, and the fluxes' slopes may go.
LEMMA EqSidesKept ==
  ASSUME EqSystemInv, UNCHANGED <<dev, u, b, i>>
  PROVE  EqSidesInv'
BY DEF EqSystemInv, EqSidesInv, EqIsOnPoints, Eq!NoHoleTunnel

\* The row and the rates before the traps.
LEMMA EqSystemRecombine == EqInv /\ EqSystemInv /\ Eq!Recombine => EqSystemInv'
<1> SUFFICES ASSUME EqInv, EqSystemInv, Eq!Recombine PROVE EqSystemInv'
  OBVIOUS
<1>1. /\ UNCHANGED <<dev, u, b, i, dJ>> /\ pc = "recombine" /\ pc' = "ntrap"
  BY DEF Eq!Recombine
<1>2. dev \in Eq!Meshed /\ i \in Eq!Points(dev) /\ i \in Int
  BY <1>1, EqNow, EqAround
<1>3. dJ = EqSlopes(dev, u, i)
  BY <1>1 DEF EqSystemInv, EqSlopesInv
<1>4. A' = [A EXCEPT ![i] = EqRow0(dev, u, i)]
  BY <1>3 DEF Eq!Recombine, EqRow0
<1>5. A'[i] = EqRow0(dev, u, i) /\ \A y \in Eq!Points(dev) : y < i => A'[y] = A[y]
  BY <1>2, <1>4 DEF EqSystemInv, EqRowsInv, EqIsOnPoints
<1>6. A' = [y \in Eq!Points(dev) |-> A'[y]]
  BY <1>2, <1>4 DEF EqSystemInv, EqRowsInv, EqIsOnPoints
<1>7. EqRowsInv'
  BY <1>1, <1>5, <1>6 DEF EqSystemInv, EqRowsInv, EqIsOnPoints
<1>8. R' = [free |-> dev.B * Eq!Pairs(dev, u, i, i),
            auger |-> Eq!Augers(dev, u, i) * Eq!Pairs(dev, u, i, i),
            ss_srh |-> IF dev.ss_srh[i] THEN Eq!Pairs(dev, u, i, i) ELSE R.ss_srh,
            interface_pc |-> dev.interface_B[i] * Eq!Pairs(dev, u, i + 1, i),
            interface_nc |-> Eq!BLeft(dev, i) * Eq!Pairs(dev, u, i, i - 1),
            trapn |-> 0, trapp |-> 0]
  BY DEF Eq!Recombine
<1>9. u \in Eq!Solution(dev)
  BY DEF EqSystemInv
<1>10. EqRInv'
  <2>1. Eq!Pairs(dev, u, i, i) \in Int
    BY <1>2, <1>9, EqPairsInt, EqAround
  <2>2. R'.ss_srh \in Int
    BY <1>8, <2>1 DEF EqSystemInv, EqRInv
  <2>3. DOMAIN R' = EqRFields
    BY <1>8 DEF EqRFields
  <2>4. EqRecombined(dev, u, i, R')
    BY <1>8 DEF EqRecombined
  <2>5. R'.trapn = 0 /\ R'.trapp = 0
    BY <1>8
  <2> QED BY <1>1, <2>2, <2>3, <2>4, <2>5 DEF EqRInv
<1>11. EqSrhInv'
  <2> SUFFICES ASSUME Eq!SrhToTheEnd(dev) PROVE R'.ss_srh = EqSrh(dev, u, i)
    BY <1>1 DEF EqSrhInv
  <2>1. R'.ss_srh = IF dev.ss_srh[i] THEN Eq!Pairs(dev, u, i, i) ELSE R.ss_srh
    BY <1>8
  <2>2. ~dev.ss_srh[i] => R.ss_srh = 0
    <3> SUFFICES ASSUME i > 0, dev.ss_srh[i - 1] PROVE dev.ss_srh[i]
      BY <1>1 DEF EqSystemInv, EqSrhInv
    <3>1. i - 1 \in Eq!Points(dev) /\ i - 1 < i
      BY <1>2, EqDevice DEF Eq!Points
    <3> QED BY <1>2, <3>1 DEF Eq!SrhToTheEnd
  <2> QED BY <2>1, <2>2 DEF EqSrh
<1>12. EqSlopesInv'
  BY <1>1 DEF EqSystemInv, EqSlopesInv, Eq!NoSlopes
<1>13. EqSidesInv'
  BY <1>1, EqSidesKept
<1> QED BY <1>1, <1>7, <1>9, <1>10, <1>11, <1>12, <1>13 DEF EqSystemInv

\* A row is the function of its fields.
LEMMA EqRecord ==
  \A x1, x2, x3, x4, x5, x6, x7, x8, x9, x10, x11,
     x12, x13, x14, x15, x16, x17, x18, x19, x20, x21, a :
    a = [dphil |-> x1, dphic |-> x2, dphir |-> x3, dphidxic |-> x4,
            dphidxipc |-> x5, dJdxil |-> x6, dJdxic |-> x7, dJdxir |-> x8,
            dJdxipc |-> x9, dJdphil |-> x10, dJdphir |-> x11, dJdphic |-> x12,
            dJpdxipl |-> x13, dJpdxipc |-> x14, dJpdxipr |-> x15, dJpdxic |-> x16,
            dJpdphil |-> x17, dJpdphir |-> x18, dJpdphic |-> x19, ntrap |-> x20,
            ptrap |-> x21]
      => a = [f \in EqFields |-> a[f]]
BY DEF EqFields

\* the fields of the rows
LEMMA EqRowFields ==
  ASSUME NEW d, NEW v, NEW y
  PROVE  /\ EqRow0(d, v, y) = [f \in EqFields |-> EqRow0(d, v, y)[f]]
         /\ EqRowN(d, v, y) = [f \in EqFields |-> EqRowN(d, v, y)[f]]
<1>1. EqRow0(d, v, y) = [f \in EqFields |-> EqRow0(d, v, y)[f]]
  BY EqRecord DEF EqRow0
<1> QED BY <1>1 DEF EqRowN

\* The electron traps add their levels to the row and to the rates,
LEMMA EqSystemNtrap == EqInv /\ EqSystemInv /\ Eq!Ntrap => EqSystemInv'
<1> SUFFICES ASSUME EqInv, EqSystemInv, Eq!Ntrap PROVE EqSystemInv'
  OBVIOUS
<1>1. /\ UNCHANGED <<dev, u, b, i, dJ>> /\ pc = "ntrap" /\ pc' = "ptrap"
  BY DEF Eq!Ntrap
<1>2. dev \in Eq!Meshed /\ i \in Eq!Points(dev) /\ i \in Int
  BY <1>1, EqNow, EqAround
<1>3. u \in Eq!Solution(dev)
  BY DEF EqSystemInv
<1>4. PICK L : L = EqLevelsN(dev, u, i)
  OBVIOUS
<1>5. DOMAIN L = Eq!Bands(dev) /\ EqSums(L)
  BY <1>2, <1>3, <1>4, EqLevelsType
<1>6. /\ Eq!Sum([k \in Eq!Bands(dev) |-> L[k].own], Eq!Bands(dev)) = EqTotal(EqOwn(L))
      /\ Eq!Sum([k \in Eq!Bands(dev) |-> L[k].other], Eq!Bands(dev)) = EqTotal(EqOther(L))
      /\ Eq!Sum([k \in Eq!Bands(dev) |-> L[k].dtrap_own], Eq!Bands(dev)) = EqTotal(EqByOwn(L))
      /\ Eq!Sum([k \in Eq!Bands(dev) |-> L[k].dtrap_other], Eq!Bands(dev)) = EqTotal(EqByOther(L))
  BY <1>5, EqSum DEF EqTotal, EqOwn, EqOther, EqByOwn, EqByOther
<1>7. /\ EqIsOnPoints(A) /\ A[i] = EqRow0(dev, u, i)
      /\ DOMAIN R = EqRFields /\ EqRecombined(dev, u, i, R) /\ R.trapn = 0 /\ R.trapp = 0
      /\ R.ss_srh \in Int
  BY <1>1 DEF EqSystemInv, EqRowsInv, EqRInv
<1>8. DOMAIN A[i] = EqFields
  BY <1>7, EqRowFields
<1>9. /\ A' = [y \in Eq!Points(dev) |-> A'[y]] /\ A'[i] = EqRowN(dev, u, i)
      /\ \A y \in Eq!Points(dev) : y < i => A'[y] = A[y]
  <2>1. CASE ~dev.ntrapnewton
    <3>1. A' = A
      BY <2>1 DEF Eq!Ntrap
    <3> QED BY <1>7, <2>1, <3>1 DEF EqRowN, EqIsOnPoints
  <2>2. CASE dev.ntrapnewton
    <3>1. A' = [A EXCEPT ![i].dJdxic = @ - dev.h[i] * EqTotal(EqByOwn(L)),
                         ![i].dJpdxipc = @ - dev.h[i] * EqTotal(EqByOther(L)),
                         ![i].ntrap = L]
      <4>1. A' = LET K == [k \in Eq!Bands(dev) |-> EqLevelsN(dev, u, i)[k]] IN
                 [A EXCEPT ![i].dJdxic =
                        @ - dev.h[i] * Eq!Sum([k \in Eq!Bands(dev) |-> K[k].dtrap_own], Eq!Bands(dev)),
                      ![i].dJpdxipc =
                        @ - dev.h[i] * Eq!Sum([k \in Eq!Bands(dev) |-> K[k].dtrap_other], Eq!Bands(dev)),
                      ![i].ntrap = K]
        BY <2>2 DEF Eq!Ntrap, EqLevelsN
      <4>2. L = [k \in Eq!Bands(dev) |-> L[k]]
        BY <1>4 DEF EqLevelsN
      <4> QED BY <1>4, <1>6, <4>1, <4>2, Zenon
    <3>2. A = [y \in Eq!Points(dev) |-> A[y]]
      BY <1>7 DEF EqIsOnPoints
    <3>3. {"dJdxic", "dJpdxipc", "ntrap"} \subseteq DOMAIN A[i]
      BY <1>8 DEF EqFields
    <3> DEFINE p == dev.h[i] * EqTotal(EqByOwn(L))
               q == dev.h[i] * EqTotal(EqByOther(L))
    <3> HIDE DEF p, q
    <3>4. A' = [A EXCEPT ![i].dJdxic = @ - p, ![i].dJpdxipc = @ - q, ![i].ntrap = L]
      BY <3>1 DEF p, q
    <3>5. /\ A' = [y \in Eq!Points(dev) |-> A'[y]] /\ \A y \in Eq!Points(dev) : y # i => A'[y] = A[y]
          /\ A'[i].dJdxic = A[i].dJdxic - p /\ A'[i].dJpdxipc = A[i].dJpdxipc - q /\ A'[i].ntrap = L
          /\ DOMAIN A'[i] = DOMAIN A[i]
          /\ A'[i] = [f \in DOMAIN A'[i] |-> A'[i][f]]
          /\ \A f \in DOMAIN A[i] \ {"dJdxic", "dJpdxipc", "ntrap"} : A'[i][f] = A[i][f]
      BY <1>2, <3>2, <3>3, <3>4
    <3>6. A'[i] = EqRowN(dev, u, i)
      BY <1>4, <1>7, <1>8, <2>2, <3>5 DEF EqRowN, p, q
    <3> QED BY <1>2, <3>5, <3>6
  <2> QED BY <2>1, <2>2
<1>10. EqRowsInv'
  BY <1>1, <1>9 DEF EqSystemInv, EqRowsInv, EqIsOnPoints
<1>11. /\ DOMAIN R' = EqRFields /\ EqRecombined(dev, u, i, R') /\ R'.ss_srh = R.ss_srh
       /\ R'.trapn = EqTotal(EqOwn(EqTrapsN(dev, u, i)))
       /\ R'.trapp = EqTotal(EqOther(EqTrapsN(dev, u, i)))
  <2>1. CASE ~dev.ntrapnewton
    <3>1. R' = R
      BY <2>1 DEF Eq!Ntrap
    <3>2. EqTrapsN(dev, u, i) = <<>>
      BY <2>1 DEF EqTrapsN
    <3> QED BY <1>7, <3>1, <3>2, EqNoTraps
  <2>2. CASE dev.ntrapnewton
    <3>1. R' = [R EXCEPT !.trapn = @ + EqTotal(EqOwn(L)), !.trapp = @ + EqTotal(EqOther(L))]
      BY <1>4, <1>6, <2>2, Zenon DEF Eq!Ntrap, EqLevelsN
    <3>2. EqTotal(EqOwn(L)) \in Int /\ EqTotal(EqOther(L)) \in Int
      BY <1>5 DEF EqSums
    <3>3. EqTrapsN(dev, u, i) = L
      BY <1>4, <2>2 DEF EqTrapsN
    <3>4. R'.trapn = EqTotal(EqOwn(L)) /\ R'.trapp = EqTotal(EqOther(L))
      BY <1>7, <3>1, <3>2 DEF EqRFields
    <3>5. /\ DOMAIN R' = EqRFields /\ R'.ss_srh = R.ss_srh /\ R'.free = R.free /\ R'.auger = R.auger
          /\ R'.interface_pc = R.interface_pc /\ R'.interface_nc = R.interface_nc
      BY <1>7, <3>1 DEF EqRFields
    <3> QED BY <1>7, <3>3, <3>4, <3>5 DEF EqRecombined
  <2> QED BY <2>1, <2>2
<1>12. EqRInv'
  BY <1>1, <1>7, <1>11 DEF EqRInv
<1>13. EqSrhInv'
  BY <1>1, <1>11 DEF EqSystemInv, EqSrhInv
<1>14. EqSlopesInv'
  BY <1>1 DEF EqSystemInv, EqSlopesInv, Eq!NoSlopes
<1>15. EqSidesInv'
  BY <1>1, EqSidesKept
<1> QED BY <1>1, <1>3, <1>10, <1>12, <1>13, <1>14, <1>15 DEF EqSystemInv

\* the hole traps add theirs and finish the row,
LEMMA EqSystemPtrap == EqInv /\ EqSystemInv /\ Eq!Ptrap => EqSystemInv'
<1> SUFFICES ASSUME EqInv, EqSystemInv, Eq!Ptrap PROVE EqSystemInv'
  OBVIOUS
<1>1. /\ UNCHANGED <<dev, u, b, i, dJ>> /\ pc = "ptrap" /\ pc' = "rhs"
  BY DEF Eq!Ptrap
<1>2. dev \in Eq!Meshed /\ i \in Eq!Points(dev) /\ i \in Int
  BY <1>1, EqNow, EqAround
<1>3. u \in Eq!Solution(dev)
  BY DEF EqSystemInv
<1>4. PICK L : L = EqLevelsP(dev, u, i)
  OBVIOUS
<1>5. DOMAIN L = Eq!Bands(dev) /\ EqSums(L)
  BY <1>2, <1>3, <1>4, EqLevelsType
<1>6. /\ Eq!Sum([k \in Eq!Bands(dev) |-> L[k].own], Eq!Bands(dev)) = EqTotal(EqOwn(L))
      /\ Eq!Sum([k \in Eq!Bands(dev) |-> L[k].other], Eq!Bands(dev)) = EqTotal(EqOther(L))
      /\ Eq!Sum([k \in Eq!Bands(dev) |-> L[k].dtrap_own], Eq!Bands(dev)) = EqTotal(EqByOwn(L))
      /\ Eq!Sum([k \in Eq!Bands(dev) |-> L[k].dtrap_other], Eq!Bands(dev)) = EqTotal(EqByOther(L))
  BY <1>5, EqSum DEF EqTotal, EqOwn, EqOther, EqByOwn, EqByOther
<1>7. /\ EqIsOnPoints(A) /\ A[i] = EqRowN(dev, u, i)
      /\ DOMAIN R = EqRFields /\ EqRecombined(dev, u, i, R)
      /\ R.trapn = EqTotal(EqOwn(EqTrapsN(dev, u, i)))
      /\ R.trapp = EqTotal(EqOther(EqTrapsN(dev, u, i)))
      /\ R.ss_srh \in Int
  BY <1>1 DEF EqSystemInv, EqRowsInv, EqRInv
<1>8. DOMAIN A[i] = EqFields
  BY <1>7, EqRowFields
<1>9. /\ A' = [y \in Eq!Points(dev) |-> A'[y]] /\ A'[i] = EqRow(dev, u, i)
      /\ \A y \in Eq!Points(dev) : y < i => A'[y] = A[y]
  <2>1. CASE ~dev.ptrapnewton
    <3>1. A' = A
      BY <2>1 DEF Eq!Ptrap
    <3> QED BY <1>7, <2>1, <3>1 DEF EqRow, EqIsOnPoints
  <2>2. CASE dev.ptrapnewton
    <3>1. A' = [A EXCEPT ![i].dJpdxipc = @ + dev.h[i] * EqTotal(EqByOwn(L)),
                         ![i].dJdxic = @ + dev.h[i] * EqTotal(EqByOther(L)),
                         ![i].ptrap = L]
      <4>1. A' = LET K == [k \in Eq!Bands(dev) |-> EqLevelsP(dev, u, i)[k]] IN
                 [A EXCEPT ![i].dJpdxipc =
                        @ + dev.h[i] * Eq!Sum([k \in Eq!Bands(dev) |-> K[k].dtrap_own], Eq!Bands(dev)),
                      ![i].dJdxic =
                        @ + dev.h[i] * Eq!Sum([k \in Eq!Bands(dev) |-> K[k].dtrap_other], Eq!Bands(dev)),
                      ![i].ptrap = K]
        BY <2>2 DEF Eq!Ptrap, EqLevelsP
      <4>2. L = [k \in Eq!Bands(dev) |-> L[k]]
        BY <1>4 DEF EqLevelsP
      <4> QED BY <1>4, <1>6, <4>1, <4>2, Zenon
    <3>2. A = [y \in Eq!Points(dev) |-> A[y]]
      BY <1>7 DEF EqIsOnPoints
    <3>3. {"dJdxic", "dJpdxipc", "ptrap"} \subseteq DOMAIN A[i]
      BY <1>8 DEF EqFields
    <3> DEFINE p == dev.h[i] * EqTotal(EqByOwn(L))
               q == dev.h[i] * EqTotal(EqByOther(L))
    <3> HIDE DEF p, q
    <3>4. A' = [A EXCEPT ![i].dJpdxipc = @ + p, ![i].dJdxic = @ + q, ![i].ptrap = L]
      BY <3>1 DEF p, q
    <3>5. /\ A' = [y \in Eq!Points(dev) |-> A'[y]] /\ \A y \in Eq!Points(dev) : y # i => A'[y] = A[y]
          /\ A'[i].dJdxic = A[i].dJdxic + q /\ A'[i].dJpdxipc = A[i].dJpdxipc + p /\ A'[i].ptrap = L
          /\ DOMAIN A'[i] = DOMAIN A[i]
          /\ A'[i] = [f \in DOMAIN A'[i] |-> A'[i][f]]
          /\ \A f \in DOMAIN A[i] \ {"dJdxic", "dJpdxipc", "ptrap"} : A'[i][f] = A[i][f]
      BY <1>2, <3>2, <3>3, <3>4
    <3>6. A'[i] = EqRow(dev, u, i)
      BY <1>4, <1>7, <1>8, <2>2, <3>5 DEF EqRow, p, q
    <3> QED BY <1>2, <3>5, <3>6
  <2> QED BY <2>1, <2>2
<1>10. EqRowsInv'
  BY <1>1, <1>9 DEF EqSystemInv, EqRowsInv, EqIsOnPoints
<1>11. /\ DOMAIN R' = EqRFields /\ EqRecombined(dev, u, i, R') /\ R'.ss_srh = R.ss_srh
       /\ R'.trapn = EqTotal(EqOwn(EqTrapsN(dev, u, i))) + EqTotal(EqOther(EqTrapsP(dev, u, i)))
       /\ R'.trapp = EqTotal(EqOther(EqTrapsN(dev, u, i))) + EqTotal(EqOwn(EqTrapsP(dev, u, i)))
  <2>0. /\ EqTotal(EqOwn(EqTrapsN(dev, u, i))) \in Int
        /\ EqTotal(EqOther(EqTrapsN(dev, u, i))) \in Int
    BY <1>2, <1>3, EqTrapsType DEF EqSums
  <2>1. CASE ~dev.ptrapnewton
    <3>1. R' = R
      BY <2>1 DEF Eq!Ptrap
    <3>2. EqTrapsP(dev, u, i) = <<>>
      BY <2>1 DEF EqTrapsP
    <3>3. EqTotal(EqOwn(EqTrapsP(dev, u, i))) = 0 /\ EqTotal(EqOther(EqTrapsP(dev, u, i))) = 0
      BY <3>2, EqNoTraps
    <3> QED BY <1>7, <2>0, <3>1, <3>3
  <2>2. CASE dev.ptrapnewton
    <3>1. R' = [R EXCEPT !.trapp = @ + EqTotal(EqOwn(L)), !.trapn = @ + EqTotal(EqOther(L))]
      BY <1>4, <1>6, <2>2, Zenon DEF Eq!Ptrap, EqLevelsP
    <3>2. EqTrapsP(dev, u, i) = L
      BY <1>4, <2>2 DEF EqTrapsP
    <3>3. /\ R'.trapn = R.trapn + EqTotal(EqOther(L)) /\ R'.trapp = R.trapp + EqTotal(EqOwn(L))
      BY <1>7, <3>1 DEF EqRFields
    <3>4. /\ DOMAIN R' = EqRFields /\ R'.ss_srh = R.ss_srh /\ R'.free = R.free /\ R'.auger = R.auger
          /\ R'.interface_pc = R.interface_pc /\ R'.interface_nc = R.interface_nc
      BY <1>7, <3>1 DEF EqRFields
    <3> QED BY <1>7, <3>2, <3>3, <3>4 DEF EqRecombined
  <2> QED BY <2>1, <2>2
<1>12. EqRInv'
  BY <1>1, <1>7, <1>11 DEF EqRInv
<1>13. EqSrhInv'
  BY <1>1, <1>11 DEF EqSystemInv, EqSrhInv
<1>14. EqSlopesInv'
  BY <1>1 DEF EqSystemInv, EqSlopesInv, Eq!NoSlopes
<1>15. EqSidesInv'
  BY <1>1, EqSidesKept
<1> QED BY <1>1, <1>3, <1>10, <1>12, <1>13, <1>14, <1>15 DEF EqSystemInv

\* the parts of a row the right hand side reads
LEMMA EqRowParts ==
  ASSUME NEW d, NEW v, NEW y, NEW a, a = EqRow(d, v, y)
  PROVE  /\ a.dphil = -d.e[y] /\ a.dphic = d.e[y] + d.e[y + 1] /\ a.dphir = -d.e[y + 1]
         /\ a.ntrap = EqTrapsN(d, v, y) /\ a.ptrap = EqTrapsP(d, v, y)
<1> DEFINE r == EqRow0(d, v, y)
<1>1. /\ r.dphil = -d.e[y] /\ r.dphic = d.e[y] + d.e[y + 1] /\ r.dphir = -d.e[y + 1]
      /\ r.ntrap = <<>> /\ r.ptrap = <<>>
  BY DEF EqRow0
<1> HIDE DEF r
<1>2. PICK n : n = EqRowN(d, v, y)
  OBVIOUS
<1>3. /\ n.dphil = r.dphil /\ n.dphic = r.dphic /\ n.dphir = r.dphir
      /\ n.ntrap = EqTrapsN(d, v, y) /\ n.ptrap = r.ptrap
  BY <1>1, <1>2 DEF EqRowN, EqTrapsN, EqFields, r
<1>4. /\ a.dphil = n.dphil /\ a.dphic = n.dphic /\ a.dphir = n.dphir
      /\ a.ntrap = n.ntrap /\ a.ptrap = EqTrapsP(d, v, y)
  BY <1>1, <1>2, <1>3 DEF EqRow, EqTrapsP, EqFields
<1> QED BY <1>1, <1>3, <1>4

\* from which the right hand side follows.
LEMMA EqSystemRhs == EqInv /\ EqSystemInv /\ Eq!Rhs => EqSystemInv'
<1> SUFFICES ASSUME EqInv, EqSystemInv, Eq!Rhs PROVE EqSystemInv'
  OBVIOUS
<1>1. /\ UNCHANGED <<dev, u, A, R, dJ>> /\ pc = "rhs" /\ pc' = "electrons" /\ i' = i + 1
  BY DEF Eq!Rhs
<1>2. dev \in Eq!Meshed /\ i \in Eq!Points(dev) /\ i \in Int /\ i >= 0 /\ (i + 1) - 1 = i
  BY <1>1, EqNow, EqAround, EqPointsRange
<1>3. u \in Eq!Solution(dev)
  BY DEF EqSystemInv
<1>4. \A y \in Eq!Points(dev) : y < i' => y < i \/ y = i
  BY <1>1, <1>2, EqDevice DEF Eq!Points
<1>5. EqRowsInv'
  BY <1>1, <1>4 DEF EqSystemInv, EqRowsInv, EqIsOnPoints, Eq!Points
<1>6. EqRInv'
  BY <1>1 DEF EqSystemInv, EqRInv
<1>7. EqSrhInv'
  <2> SUFFICES ASSUME Eq!SrhToTheEnd(dev) PROVE R.ss_srh = 0 \/ (i' > 0 /\ dev.ss_srh[i' - 1])
    BY <1>1 DEF EqSrhInv
  <2>1. R.ss_srh = EqSrh(dev, u, i)
    BY <1>1 DEF EqSystemInv, EqSrhInv
  <2> QED BY <1>1, <1>2, <2>1 DEF EqSrh
<1>8. EqSlopesInv'
  BY <1>1 DEF EqSystemInv, EqSlopesInv, Eq!NoSlopes
<1>9. \E x : b' = [b EXCEPT ![i] = x]
  BY DEF Eq!Rhs
<1>10. b = [y \in Eq!Points(dev) |-> b[y]]
  BY DEF EqSystemInv, EqSidesInv, EqIsOnPoints
<1>11. b' = [y \in Eq!Points(dev) |-> b'[y]] /\ \A y \in Eq!Points(dev) : y # i => b'[y] = b[y]
  BY <1>2, <1>9, <1>10
<1>12. ASSUME Eq!NoHoleTunnel PROVE b'[i] = EqSide(dev, u, i, R.ss_srh)
  <2>1. /\ A[i].dphil = -dev.e[i] /\ A[i].dphic = dev.e[i] + dev.e[i + 1] /\ A[i].dphir = -dev.e[i + 1]
        /\ A[i].ntrap = EqTrapsN(dev, u, i) /\ A[i].ptrap = EqTrapsP(dev, u, i)
    BY <1>1, EqRowParts DEF EqSystemInv, EqRowsInv
  <2>2. /\ Jnl[i] = Eq!Flux_n(dev, u, i) /\ Jnr[i] = Eq!Flux_n(dev, u, i + 1)
        /\ Jpl[i] = Eq!Flux_p(dev, u, i) /\ Jpr[i] = Eq!Flux_p(dev, u, i + 1)
    BY <1>1, <1>2, <1>12 DEF EqInv, EqDone, EqPast, EqAfterTunnel
  <2>3. /\ EqRecombined(dev, u, i, R)
        /\ R.trapn = EqTotal(EqOwn(EqTrapsN(dev, u, i))) + EqTotal(EqOther(EqTrapsP(dev, u, i)))
        /\ R.trapp = EqTotal(EqOther(EqTrapsN(dev, u, i))) + EqTotal(EqOwn(EqTrapsP(dev, u, i)))
    BY <1>1 DEF EqSystemInv, EqRInv
  <2>4. b' = [b EXCEPT ![i] = EqSide(dev, u, i, R.ss_srh)]
    BY <2>1, <2>2, <2>3, Zenon DEF Eq!Rhs, EqSide, EqRecombined, Eq!CommonR
  <2> QED BY <1>2, <1>10, <2>4
<1>13. EqSidesInv'
  <2>1. (EqIsOnPoints(b))'
    BY <1>1, <1>11 DEF EqIsOnPoints
  <2>2. ASSUME Eq!NoHoleTunnel, NEW y \in Eq!Points(dev), y < i'
        PROVE  \E c \in Int : b'[y] = EqSide(dev, u, y, c) /\ (Eq!SrhToTheEnd(dev) => c = EqSrh(dev, u, y))
    <3>1. CASE y = i
      <4>1. R.ss_srh \in Int /\ (Eq!SrhToTheEnd(dev) => R.ss_srh = EqSrh(dev, u, i))
        BY <1>1 DEF EqSystemInv, EqRInv, EqSrhInv
      <4> QED BY <1>12, <2>2, <3>1, <4>1
    <3>2. CASE y < i
      BY <1>2, <1>11, <2>2, <3>2, EqPointsRange DEF EqSystemInv, EqSidesInv
    <3> QED BY <1>4, <2>2, <3>1, <3>2
  <2> QED BY <1>1, <2>1, <2>2 DEF EqSidesInv, Eq!NoHoleTunnel
<1> QED BY <1>1, <1>3, <1>5, <1>6, <1>7, <1>8, <1>13 DEF EqSystemInv

\* A step that changes nothing keeps the invariant,
LEMMA EqSystemStutter == EqSystemInv /\ UNCHANGED Eq!vars => EqSystemInv'
BY DEF Eq!vars, Eq!fluxes, EqSystemInv, EqSlopesInv, EqRowsInv, EqRInv, EqSrhInv, EqSidesInv,
   EqIsOnPoints, Eq!NoSlopes, Eq!NoHoleTunnel

\* and with it every step of fill_matrix.
LEMMA EqSystemStep == EqInv /\ EqSystemInv /\ [Eq!Next]_Eq!vars => EqSystemInv'
BY EqSystemElectrons, EqSystemHoles, EqSystemTunnel, EqSystemRecombine, EqSystemNtrap,
   EqSystemPtrap, EqSystemRhs, EqSystemRefill, EqSystemStutter DEF Eq!Next

\* each level gains what it captures and stores s * g
EqGains(L, s, g) ==
  \A k \in DOMAIN L : L[k].trap \in Int /\ L[k].trap = L[k].own - L[k].other - s * g[k]

\* What a level gains.
LEMMA EqLevelGain ==
  ASSUME NEW Nt \in Int, NEW t \in Int, NEW dt \in Int, NEW last \in Int, NEW own \in Int,
         NEW other \in Int, NEW down \in Int, NEW dother \in Int, NEW dphi,
         NEW go_time \in BOOLEAN,
         NEW L, L = Eq!Level(Nt, t, dt, last, own, other, down, dother, dphi, go_time)
  PROVE  /\ L.trap \in Int
         /\ L.trap = L.own - L.other - (IF go_time THEN 1 ELSE 0) * (t - last)
BY EqLevelInt

\* the right hand sides of a kind of levels
EqMinusTrap(L) == [k \in DOMAIN L |-> -L[k].trap]

\* What a kind of levels gains is what it captures of both carriers, and what it stores.
LEMMA EqTrapBalance ==
  ASSUME NEW L, EqSums(L), NEW s \in Int, NEW g \in [DOMAIN L -> Int],
         EqGains(L, s, g), NEW w, w = EqMinusTrap(L)
  PROVE  /\ SumFunctionOnSet(w, DOMAIN L)
              = EqTotal(EqOther(L)) - EqTotal(EqOwn(L)) + s * SumFunctionOnSet(g, DOMAIN L)
         /\ SumFunctionOnSet(g, DOMAIN L) \in Int
<1>1. /\ EqOwn(L) \in [DOMAIN L -> Int] /\ EqOther(L) \in [DOMAIN L -> Int]
      /\ IsFiniteSet(DOMAIN L) /\ EqTotal(EqOther(L)) \in Int /\ EqTotal(EqOwn(L)) \in Int
  BY DEF EqSums
<1>2. w \in [DOMAIN L -> Int]
  BY DEF EqGains, EqMinusTrap
<1>3. \A k \in DOMAIN L : w[k] = (-1) * EqOwn(L)[k] + 1 * EqOther(L)[k] + s * g[k]
  <2> TAKE k \in DOMAIN L
  <2>1. EqOwn(L)[k] = L[k].own /\ EqOther(L)[k] = L[k].other
    BY DEF EqOwn, EqOther
  <2>2. L[k].own \in Int /\ L[k].other \in Int /\ g[k] \in Int
    BY <1>1, <2>1
  <2>a. L[k].trap = L[k].own - L[k].other - s * g[k]
    BY DEF EqGains
  <2>b. w[k] = -L[k].trap
    BY DEF EqMinusTrap
  <2>3. \A p, q, r \in Int : -(p - q - s * r) = (-1) * p + 1 * q + s * r
    BY SMT
  <2> QED BY <2>1, <2>2, <2>a, <2>b, <2>3
<1>4. (-1) \in Int /\ 1 \in Int
  OBVIOUS
<1>5. SumFunctionOnSet(w, DOMAIN L)
        = (-1) * SumFunctionOnSet(EqOwn(L), DOMAIN L) + 1 * SumFunctionOnSet(EqOther(L), DOMAIN L)
            + s * SumFunctionOnSet(g, DOMAIN L)
  <2>1. PICK S, p, q : S = DOMAIN L /\ p = -1 /\ q = 1
    OBVIOUS
  <2>2. PICK e, f : e = EqOwn(L) /\ f = EqOther(L)
    OBVIOUS
  <2>3. /\ e \in [S -> Int] /\ f \in [S -> Int] /\ g \in [S -> Int] /\ w \in [S -> Int]
        /\ p \in Int /\ q \in Int /\ s \in Int /\ IsFiniteSet(S)
        /\ Combines(w, S, p, e, q, f, s, g)
    BY <1>1, <1>2, <1>3, <1>4, <2>1, <2>2 DEF Combines
  <2>4. SumFunctionOnSet(w, S) = p * SumFunctionOnSet(e, S) + q * SumFunctionOnSet(f, S)
                                   + s * SumFunctionOnSet(g, S)
    BY <2>3, SumLinear
  <2> QED BY <2>1, <2>2, <2>4
<1>6. SumFunctionOnSet(g, DOMAIN L) \in Int
  <2>1. DOMAIN L \in SUBSET DOMAIN L
    OBVIOUS
  <2> QED BY <1>1, <2>1, SumSplit
<1>7. DOMAIN EqOwn(L) = DOMAIN L /\ DOMAIN EqOther(L) = DOMAIN L
  BY DEF EqOwn, EqOther
<1>8. \A p, q, r \in Int : (-1) * p + 1 * q + s * r = q - p + s * r
  BY SMT
<1> QED BY <1>1, <1>5, <1>6, <1>7, <1>8 DEF EqTotal

\* change of a kind of levels' occupation
EqGainN(d, v, y) == [k \in DOMAIN EqTrapsN(d, v, y) |-> v.nt[y][k] - d.ntlast]
EqGainP(d, v, y) == [k \in DOMAIN EqTrapsP(d, v, y) |-> v.pt[y][k] - d.ptlast]

\* The levels of a point gain so.
LEMMA EqTrapGain ==
  ASSUME NEW d \in Eq!Meshed, NEW v \in Eq!Solution(d), NEW y \in Eq!Points(d)
  PROVE  /\ EqGainN(d, v, y) \in [DOMAIN EqTrapsN(d, v, y) -> Int]
         /\ EqGainP(d, v, y) \in [DOMAIN EqTrapsP(d, v, y) -> Int]
         /\ EqGains(EqTrapsN(d, v, y), Eq!Step(d), EqGainN(d, v, y))
         /\ EqGains(EqTrapsP(d, v, y), Eq!Step(d), EqGainP(d, v, y))
<1>1. /\ d.Nt \in Int /\ d.dnt \in Int /\ d.dpt \in Int /\ d.ntlast \in Int /\ d.ptlast \in Int
      /\ d.dn[y] \in Int /\ d.dp[y] \in Int /\ d.go_time \in BOOLEAN
  BY EqDevice
<1>2. v.n[y] \in Int /\ v.p[y] \in Int
  BY EqProfile
<1>a. \A k \in Eq!Bands(d) : v.nt[y][k] \in Int /\ v.pt[y][k] \in Int
  BY EqProfile
<1>3. \A k \in Eq!Bands(d) : LET L == EqLevelsN(d, v, y)[k] IN
        L.trap \in Int /\ L.trap = L.own - L.other - Eq!Step(d) * (v.nt[y][k] - d.ntlast)
  <2> TAKE k \in Eq!Bands(d)
  <2>1. EqLevelsN(d, v, y)[k] = Eq!Level(d.Nt, v.nt[y][k], d.dnt, d.ntlast, v.n[y], v.p[y],
                                  d.dn[y], d.dp[y], d.dnt, d.go_time)
    BY DEF EqLevelsN
  <2>2. v.nt[y][k] \in Int
    BY <1>a
  <2>3. PICK L : L = EqLevelsN(d, v, y)[k]
    OBVIOUS
  <2>4. L.trap \in Int /\ L.trap = L.own - L.other - (IF d.go_time THEN 1 ELSE 0) * (v.nt[y][k] - d.ntlast)
    BY <1>1, <1>2, <2>1, <2>2, <2>3, EqLevelGain
  <2> QED BY <2>3, <2>4, Zenon DEF Eq!Step
<1>4. \A k \in Eq!Bands(d) : LET L == EqLevelsP(d, v, y)[k] IN
        L.trap \in Int /\ L.trap = L.own - L.other - Eq!Step(d) * (v.pt[y][k] - d.ptlast)
  <2> TAKE k \in Eq!Bands(d)
  <2>1. EqLevelsP(d, v, y)[k] = Eq!Level(d.Nt, v.pt[y][k], d.dpt, d.ptlast, v.p[y], v.n[y],
                                  d.dp[y], d.dn[y], -d.dpt, d.go_time)
    BY DEF EqLevelsP
  <2>2. v.pt[y][k] \in Int
    BY <1>a
  <2>3. PICK L : L = EqLevelsP(d, v, y)[k]
    OBVIOUS
  <2>4. L.trap \in Int /\ L.trap = L.own - L.other - (IF d.go_time THEN 1 ELSE 0) * (v.pt[y][k] - d.ptlast)
    BY <1>1, <1>2, <2>1, <2>2, <2>3, EqLevelGain
  <2> QED BY <2>3, <2>4, Zenon DEF Eq!Step
<1>5. /\ DOMAIN EqTrapsN(d, v, y) \subseteq Eq!Bands(d)
      /\ DOMAIN EqTrapsP(d, v, y) \subseteq Eq!Bands(d)
  BY EqLevelsType, EqNoTraps DEF EqTrapsN, EqTrapsP
<1>6. /\ \A k \in DOMAIN EqTrapsN(d, v, y) : EqTrapsN(d, v, y)[k] = EqLevelsN(d, v, y)[k]
      /\ \A k \in DOMAIN EqTrapsP(d, v, y) : EqTrapsP(d, v, y)[k] = EqLevelsP(d, v, y)[k]
  BY EqNoTraps DEF EqTrapsN, EqTrapsP
<1>7. /\ EqGainN(d, v, y) \in [DOMAIN EqTrapsN(d, v, y) -> Int]
      /\ EqGainP(d, v, y) \in [DOMAIN EqTrapsP(d, v, y) -> Int]
  BY <1>1, <1>a, <1>5 DEF EqGainN, EqGainP
<1>8. /\ \A k \in DOMAIN EqTrapsN(d, v, y) : EqGainN(d, v, y)[k] = v.nt[y][k] - d.ntlast
      /\ \A k \in DOMAIN EqTrapsP(d, v, y) : EqGainP(d, v, y)[k] = v.pt[y][k] - d.ptlast
  BY DEF EqGainN, EqGainP
<1>9. \A k \in DOMAIN EqTrapsN(d, v, y) :
              LET L == EqTrapsN(d, v, y)[k] IN
              L.trap \in Int /\ L.trap = L.own - L.other - Eq!Step(d) * EqGainN(d, v, y)[k]
  <2> TAKE k \in DOMAIN EqTrapsN(d, v, y)
  <2>1. k \in Eq!Bands(d) /\ EqTrapsN(d, v, y)[k] = EqLevelsN(d, v, y)[k]
        /\ EqGainN(d, v, y)[k] = v.nt[y][k] - d.ntlast
    BY <1>5, <1>6, <1>8
  <2> QED BY <1>3, <2>1, Zenon
<1>10. \A k \in DOMAIN EqTrapsP(d, v, y) :
              LET L == EqTrapsP(d, v, y)[k] IN
              L.trap \in Int /\ L.trap = L.own - L.other - Eq!Step(d) * EqGainP(d, v, y)[k]
  <2> TAKE k \in DOMAIN EqTrapsP(d, v, y)
  <2>1. k \in Eq!Bands(d) /\ EqTrapsP(d, v, y)[k] = EqLevelsP(d, v, y)[k]
        /\ EqGainP(d, v, y)[k] = v.pt[y][k] - d.ptlast
    BY <1>5, <1>6, <1>8
  <2> QED BY <1>4, <2>1, Zenon
<1> QED BY <1>7, <1>9, <1>10, Zenon DEF EqGains

\* The right hand sides of a point together, and what it stores.
EqStored(d, v, y, side) ==
  (v.p[y] - d.plast) - (v.n[y] - d.nlast)
    + Eq!Sum([k \in DOMAIN side.pt |-> v.pt[y][k] - d.ptlast], DOMAIN side.pt)
    - Eq!Sum([k \in DOMAIN side.nt |-> v.nt[y][k] - d.ntlast], DOMAIN side.nt)
\* the summand of ChargeConserved
EqBalance(d, v, y, side) ==
  side.n + side.p
    + d.h[y] * (Eq!Sum(side.nt, DOMAIN side.nt) - Eq!Sum(side.pt, DOMAIN side.pt))
    + d.h[y] * Eq!Step(d) * EqStored(d, v, y, side)

\* The sum of a point's right hand sides, as numbers: what is captured cancels.
LEMMA EqBalancePoly ==
  \A h, s, F, F1, G, G1, on, op, no, po, c, x, z \in Int : \A n, g, p, q, sn, sp \in Int :
    (-((F1 - F) - h * ((on + op) + c + x)) + h * (s * n - g))
      + (-((G1 - G) + h * ((no + po) + c + z)) + h * (q - s * p))
      + h * ((no - on + s * sn) - (op - po + s * sp))
      + h * s * (p - n + sp - sn)
    = (F + G) - (F1 + G1) + h * (x - z) + h * (q - g)
BY SMTT(60)

\* A point's right hand sides sum to what flows in, less what flows out and its interfaces take.
LEMMA EqPointBalance ==
  ASSUME Eq!BernNumeric, NEW d \in Eq!Meshed, NEW v \in Eq!Solution(d), NEW y \in Eq!Points(d),
         NEW c \in Int
  PROVE  EqBalance(d, v, y, EqSide(d, v, y, c))
           = (Eq!Flux_n(d, v, y) + Eq!Flux_p(d, v, y))
               - (Eq!Flux_n(d, v, y + 1) + Eq!Flux_p(d, v, y + 1))
               + d.h[y] * (Eq!BLeft(d, y) * Eq!Pairs(d, v, y, y - 1)
                             - d.interface_B[y] * Eq!Pairs(d, v, y + 1, y))
               + d.h[y] * (d.Gp[y] - d.Gn[y])
<1>1. PICK N, P : N = EqTrapsN(d, v, y) /\ P = EqTrapsP(d, v, y)
  OBVIOUS
<1>2. EqSums(N) /\ EqSums(P)
  BY <1>1, EqTrapsType
<1>3. PICK gn, gp : gn = EqGainN(d, v, y) /\ gp = EqGainP(d, v, y)
  OBVIOUS
<1>4. Eq!Step(d) \in Int
  BY DEF Eq!Step
<1>5. PICK side : side = EqSide(d, v, y, c)
  OBVIOUS
<1>6. /\ side.nt = EqMinusTrap(N) /\ side.pt = EqMinusTrap(P)
      /\ DOMAIN side.nt = DOMAIN N /\ DOMAIN side.pt = DOMAIN P
  BY <1>1, <1>5 DEF EqSide, EqMinusTrap
<1>7. /\ Eq!Sum(side.nt, DOMAIN side.nt)
           = EqTotal(EqOther(N)) - EqTotal(EqOwn(N)) + Eq!Step(d) * SumFunctionOnSet(gn, DOMAIN N)
      /\ SumFunctionOnSet(gn, DOMAIN N) \in Int
  BY <1>1, <1>2, <1>3, <1>4, <1>6, EqTrapGain, EqTrapBalance, EqSum
<1>8. /\ Eq!Sum(side.pt, DOMAIN side.pt)
           = EqTotal(EqOther(P)) - EqTotal(EqOwn(P)) + Eq!Step(d) * SumFunctionOnSet(gp, DOMAIN P)
      /\ SumFunctionOnSet(gp, DOMAIN P) \in Int
  BY <1>1, <1>2, <1>3, <1>4, <1>6, EqTrapGain, EqTrapBalance, EqSum
<1>9. EqStored(d, v, y, side)
        = (v.p[y] - d.plast) - (v.n[y] - d.nlast) + SumFunctionOnSet(gp, DOMAIN P)
            - SumFunctionOnSet(gn, DOMAIN N)
  BY <1>1, <1>3, <1>6, EqSum, Zenon DEF EqStored, EqGainN, EqGainP
<1>10. PICK common : common = d.B * Eq!Pairs(d, v, y, y) + Eq!Augers(d, v, y) * Eq!Pairs(d, v, y, y) + c
  OBVIOUS
<1>11. PICK x, z : x = Eq!BLeft(d, y) * Eq!Pairs(d, v, y, y - 1)
                   /\ z = d.interface_B[y] * Eq!Pairs(d, v, y + 1, y)
  OBVIOUS
<1>12. /\ side.n = -((Eq!Flux_n(d, v, y + 1) - Eq!Flux_n(d, v, y))
                       - d.h[y] * ((EqTotal(EqOwn(N)) + EqTotal(EqOther(P))) + common + x))
                     + d.h[y] * (Eq!Step(d) * (v.n[y] - d.nlast) - d.Gn[y])
       /\ side.p = -((Eq!Flux_p(d, v, y + 1) - Eq!Flux_p(d, v, y))
                       + d.h[y] * ((EqTotal(EqOther(N)) + EqTotal(EqOwn(P))) + common + z))
                     + d.h[y] * (d.Gp[y] - Eq!Step(d) * (v.p[y] - d.plast))
  BY <1>1, <1>5, <1>10, <1>11, Zenon DEF EqSide, Eq!Step
<1>13. /\ y \in Int /\ y - 1 \in -1 .. d.ylen /\ y \in -1 .. d.ylen /\ y + 1 \in -1 .. d.ylen
       /\ y \in 0 .. d.ylen /\ y + 1 \in 0 .. d.ylen
  BY EqAround
<1>14. \A p, q \in Int : p * q \in Int /\ p + q \in Int /\ p - q \in Int
  BY SMT
<1>15. /\ d.h[y] \in Int /\ d.Gn[y] \in Int /\ d.Gp[y] \in Int /\ d.interface_B[y] \in Int
       /\ d.nlast \in Int /\ d.plast \in Int /\ d.B \in Int /\ d.Cn \in Int /\ d.Cp \in Int
  BY EqDevice
<1>16. v.n[y] \in Int /\ v.p[y] \in Int
  BY EqProfile
<1>17. Eq!Augers(d, v, y) \in Int
  BY <1>14, <1>15, <1>16, Zenon DEF Eq!Augers
<1>18. common \in Int
  <2>1. Eq!Pairs(d, v, y, y) \in Int
    BY <1>13, EqPairsInt
  <2> QED BY <1>10, <1>14, <1>15, <1>17, <2>1, Zenon
<1>19. x \in Int /\ z \in Int
  <2>1. Eq!BLeft(d, y) \in Int
    <3>1. y - 1 \in -1 .. d.ylen - 1
      BY EqDevice DEF Eq!Points
    <3>2. d.interface_B \in [Eq!Points(d) -> Int]
      BY EqDevice
    <3> QED BY <3>1, <3>2, EqOfFaceInt DEF Eq!BLeft
  <2>2. Eq!Pairs(d, v, y, y - 1) \in Int /\ Eq!Pairs(d, v, y + 1, y) \in Int
    BY <1>13, EqPairsInt
  <2> QED BY <1>11, <1>14, <1>15, <2>1, <2>2, Zenon
<1>20. /\ Eq!Flux_n(d, v, y) \in Int /\ Eq!Flux_n(d, v, y + 1) \in Int
       /\ Eq!Flux_p(d, v, y) \in Int /\ Eq!Flux_p(d, v, y + 1) \in Int
  BY <1>13, EqFluxInt
<1>21. /\ EqTotal(EqOwn(N)) \in Int /\ EqTotal(EqOther(N)) \in Int
       /\ EqTotal(EqOwn(P)) \in Int /\ EqTotal(EqOther(P)) \in Int
  BY <1>2 DEF EqSums
<1>22. v.n[y] - d.nlast \in Int /\ v.p[y] - d.plast \in Int
  BY <1>14, <1>15, <1>16, Zenon
<1>23. EqBalance(d, v, y, side)
         = (Eq!Flux_n(d, v, y) + Eq!Flux_p(d, v, y))
             - (Eq!Flux_n(d, v, y + 1) + Eq!Flux_p(d, v, y + 1))
             + d.h[y] * (x - z) + d.h[y] * (d.Gp[y] - d.Gn[y])
  <2>1. PICK h, s, F, F1, G, G1 :
          /\ h = d.h[y] /\ s = Eq!Step(d)
          /\ F = Eq!Flux_n(d, v, y) /\ F1 = Eq!Flux_n(d, v, y + 1)
          /\ G = Eq!Flux_p(d, v, y) /\ G1 = Eq!Flux_p(d, v, y + 1)
    OBVIOUS
  <2>2. PICK on, op, no, po :
          /\ on = EqTotal(EqOwn(N)) /\ op = EqTotal(EqOther(P))
          /\ no = EqTotal(EqOther(N)) /\ po = EqTotal(EqOwn(P))
    OBVIOUS
  <2>3. PICK n, g, p, q, sn, sp :
          /\ n = v.n[y] - d.nlast /\ g = d.Gn[y] /\ p = v.p[y] - d.plast /\ q = d.Gp[y]
          /\ sn = SumFunctionOnSet(gn, DOMAIN N) /\ sp = SumFunctionOnSet(gp, DOMAIN P)
    OBVIOUS
  <2>4. /\ side.n = -((F1 - F) - h * ((on + op) + common + x)) + h * (s * n - g)
        /\ side.p = -((G1 - G) + h * ((no + po) + common + z)) + h * (q - s * p)
    BY <1>12, <2>1, <2>2, <2>3, Zenon
  <2>5. /\ Eq!Sum(side.nt, DOMAIN side.nt) = no - on + s * sn
        /\ Eq!Sum(side.pt, DOMAIN side.pt) = op - po + s * sp
        /\ EqStored(d, v, y, side) = p - n + sp - sn
    BY <1>7, <1>8, <1>9, <2>1, <2>2, <2>3, Zenon
  <2>6. EqBalance(d, v, y, side)
          = (-((F1 - F) - h * ((on + op) + common + x)) + h * (s * n - g))
              + (-((G1 - G) + h * ((no + po) + common + z)) + h * (q - s * p))
              + h * ((no - on + s * sn) - (op - po + s * sp))
              + h * s * (p - n + sp - sn)
    BY <2>1, <2>4, <2>5, Zenon DEF EqBalance
  <2>7. /\ h \in Int /\ s \in Int /\ F \in Int /\ F1 \in Int /\ G \in Int /\ G1 \in Int
        /\ on \in Int /\ op \in Int /\ no \in Int /\ po \in Int
        /\ n \in Int /\ g \in Int /\ p \in Int /\ q \in Int /\ sn \in Int /\ sp \in Int
    BY <1>4, <1>7, <1>8, <1>15, <1>20, <1>21, <1>22, <2>1, <2>2, <2>3, Zenon
  <2>8. EqBalance(d, v, y, side) = (F + G) - (F1 + G1) + h * (x - z) + h * (q - g)
    BY <1>18, <1>19, <2>6, <2>7, EqBalancePoly
  <2> QED BY <2>1, <2>3, <2>8, Zenon
<1> QED BY <1>5, <1>11, <1>23, Zenon

\* recombination at the interface of face y, where it has one inside the mesh
EqAcross(d, v, y) ==
  IF y = 0 \/ y = d.ylen THEN 0 ELSE d.h[y] * (d.interface_B[y - 1] * Eq!Pairs(d, v, y, y - 1))

\* the condition of ChargeConserved
EqBalanced(d) ==
  \A y \in Eq!Points(d) :
    /\ d.Gn[y] = d.Gp[y]
    /\ d.interface_B[y] # 0 => y > 0 /\ y + 1 < d.ylen /\ d.h[y] = d.h[y + 1]

\* What the interfaces of a point's faces take from the electrons and from the holes.
LEMMA EqInterfaces ==
  ASSUME NEW d \in Eq!Meshed, EqBalanced(d), NEW v \in Eq!Solution(d), NEW y \in Eq!Points(d)
  PROVE  /\ d.h[y] * (Eq!BLeft(d, y) * Eq!Pairs(d, v, y, y - 1)
                        - d.interface_B[y] * Eq!Pairs(d, v, y + 1, y))
              = EqAcross(d, v, y) - EqAcross(d, v, y + 1)
         /\ EqAcross(d, v, y) \in Int /\ EqAcross(d, v, y + 1) \in Int
<1>1. /\ y \in Int /\ y >= 0 /\ y < d.ylen /\ d.ylen \in Nat /\ (y + 1) - 1 = y /\ y # d.ylen
      /\ y - 1 \in -1 .. d.ylen /\ y \in -1 .. d.ylen /\ y + 1 \in -1 .. d.ylen
  BY EqAround, EqPointsRange, EqDevice
<1>2. d.h \in [Eq!Points(d) -> Int] /\ d.interface_B \in [Eq!Points(d) -> Int]
  BY EqDevice
<1>3. PICK p, q : p = Eq!Pairs(d, v, y, y - 1) /\ q = Eq!Pairs(d, v, y + 1, y)
  OBVIOUS
<1>4. p \in Int /\ q \in Int
  BY <1>1, <1>3, EqPairsInt
<1>5. \A x, z \in Int : x * z \in Int
  BY SMT
<1>6. PICK h, bl, bc : h = d.h[y] /\ bl = Eq!BLeft(d, y) /\ bc = d.interface_B[y]
  OBVIOUS
<1>7. h \in Int /\ bc \in Int
  BY <1>2, <1>6
<1>8. bl \in Int /\ h * (bl * p) = EqAcross(d, v, y) /\ EqAcross(d, v, y) \in Int
  <2>1. CASE y = 0
    <3>1. bl = bc
      BY <1>6, <2>1 DEF Eq!BLeft, Eq!OfFace
    <3>2. bc = 0
      BY <1>6, <2>1 DEF EqBalanced
    <3>3. bl * p = 0 /\ h * (bl * p) = 0
      BY <1>4, <1>7, <3>1, <3>2
    <3> QED BY <2>1, <3>1, <3>2, <3>3 DEF EqAcross
  <2>2. CASE y # 0
    <3>1. y - 1 \in Eq!Points(d) /\ ~(y - 1 < 0)
      BY <1>1, <2>2 DEF Eq!Points
    <3>2. bl = d.interface_B[y - 1] /\ bl \in Int
      BY <1>2, <1>6, <3>1 DEF Eq!BLeft, Eq!OfFace
    <3>3. h * (bl * p) \in Int
      BY <1>4, <1>5, <1>7, <3>2
    <3> QED BY <1>1, <1>3, <1>6, <2>2, <3>2, <3>3, Zenon DEF EqAcross
  <2> QED BY <2>1, <2>2
<1>9. h * (bc * q) = EqAcross(d, v, y + 1) /\ EqAcross(d, v, y + 1) \in Int
  <2>1. CASE y + 1 = d.ylen
    <3>1. bc = 0
      BY <1>1, <1>6, <2>1 DEF EqBalanced
    <3>2. bc * q = 0 /\ h * (bc * q) = 0
      BY <1>4, <1>7, <3>1
    <3> QED BY <2>1, <3>2 DEF EqAcross
  <2>2. CASE y + 1 # d.ylen
    <3>1. y + 1 # 0
      BY <1>1
    <3>2. PICK k : k = d.h[y + 1]
      OBVIOUS
    <3>3. EqAcross(d, v, y + 1) = k * (bc * q)
      BY <1>1, <1>3, <1>6, <2>2, <3>1, <3>2, Zenon DEF EqAcross
    <3>4. y + 1 \in Eq!Points(d)
      BY <1>1, <2>2 DEF Eq!Points
    <3>5. k \in Int
      BY <1>2, <3>2, <3>4
    <3>6. bc = 0 \/ h = k
      BY <1>6, <3>2 DEF EqBalanced
    <3>7. h * (bc * q) = k * (bc * q)
      <4>1. CASE bc = 0
        <5>1. bc * q = 0
          BY <1>4, <4>1
        <5> QED BY <1>7, <3>5, <5>1
      <4>2. CASE h = k
        BY <4>2
      <4> QED BY <3>6, <4>1, <4>2
    <3>8. h * (bc * q) \in Int
      BY <1>4, <1>5, <1>7
    <3> QED BY <3>3, <3>7, <3>8
  <2> QED BY <2>1, <2>2
<1>10. \A k, x, z \in Int : k * (x - z) = k * x - k * z
  BY SMT
<1>11. bl * p \in Int /\ bc * q \in Int
  BY <1>4, <1>5, <1>7, <1>8
<1>12. h * (bl * p - bc * q) = EqAcross(d, v, y) - EqAcross(d, v, y + 1)
  <2>1. PICK x, z : x = bl * p /\ z = bc * q
    OBVIOUS
  <2>2. x \in Int /\ z \in Int /\ h \in Int
    BY <1>7, <1>11, <2>1
  <2>3. h * (x - z) = h * x - h * z
    BY <1>10, <2>2
  <2> QED BY <1>8, <1>9, <2>1, <2>3, Zenon
<1> QED BY <1>3, <1>6, <1>8, <1>9, <1>12, Zenon

\* The current through face y, and what its interface takes.
EqCurrent(d, v, y) == (Eq!Flux_n(d, v, y) + Eq!Flux_p(d, v, y)) + EqAcross(d, v, y)

\* With equal generation they are the difference of the currents through the point's faces.
LEMMA EqPointCurrent ==
  ASSUME Eq!BernNumeric, NEW d \in Eq!Meshed, EqBalanced(d), NEW v \in Eq!Solution(d),
         NEW y \in Eq!Points(d), NEW c \in Int
  PROVE  /\ EqBalance(d, v, y, EqSide(d, v, y, c)) = EqCurrent(d, v, y) - EqCurrent(d, v, y + 1)
         /\ EqCurrent(d, v, y) \in Int /\ EqCurrent(d, v, y + 1) \in Int
<1>1. PICK e : e = EqBalance(d, v, y, EqSide(d, v, y, c))
  OBVIOUS
<1>2. PICK F, F1, G, G1, x, z :
        /\ F = Eq!Flux_n(d, v, y) /\ F1 = Eq!Flux_n(d, v, y + 1)
        /\ G = Eq!Flux_p(d, v, y) /\ G1 = Eq!Flux_p(d, v, y + 1)
        /\ x = EqAcross(d, v, y) /\ z = EqAcross(d, v, y + 1)
  OBVIOUS
<1>3. PICK g : g = d.h[y] * (d.Gp[y] - d.Gn[y])
  OBVIOUS
<1>4. PICK t : t = d.h[y] * (Eq!BLeft(d, y) * Eq!Pairs(d, v, y, y - 1)
                             - d.interface_B[y] * Eq!Pairs(d, v, y + 1, y))
  OBVIOUS
<1>5. e = (F + G) - (F1 + G1) + t + g
  BY <1>1, <1>2, <1>3, <1>4, EqPointBalance, Zenon
<1>6. t = x - z /\ x \in Int /\ z \in Int
  BY <1>2, <1>4, EqInterfaces, Zenon
<1>7. g = 0
  <2>1. d.h[y] \in Int /\ d.Gp[y] \in Int /\ d.Gn[y] = d.Gp[y]
    BY EqDevice DEF EqBalanced
  <2>2. d.Gp[y] - d.Gn[y] = 0
    BY <2>1
  <2> QED BY <1>3, <2>1, <2>2
<1>8. F \in Int /\ F1 \in Int /\ G \in Int /\ G1 \in Int
  <2>1. y \in 0 .. d.ylen /\ y + 1 \in 0 .. d.ylen
    BY EqAround
  <2> QED BY <1>2, <2>1, EqFluxInt
<1>9. e = ((F + G) + x) - ((F1 + G1) + z)
  BY <1>5, <1>6, <1>7, <1>8
<1>10. EqCurrent(d, v, y) = (F + G) + x /\ EqCurrent(d, v, y + 1) = (F1 + G1) + z
  BY <1>2 DEF EqCurrent
<1> QED BY <1>1, <1>6, <1>8, <1>9, <1>10

\* So they telescope from one contact to the other.
LEMMA EqKirchhoff ==
  ASSUME Eq!BernNumeric, EqInv, EqSystemInv
  PROVE  Eq!ChargeConserved
<1> SUFFICES ASSUME Eq!Filled, Eq!Balanced
             PROVE  Eq!Sum([y \in Eq!Points(dev) |-> EqBalance(dev, u, y, b[y])], Eq!Points(dev))
                      = (Jnl[0] + Jpl[0]) - (Jnr[dev.ylen - 1] + Jpr[dev.ylen - 1])
  <2>1. \A y \in Eq!Points(dev) : Eq!Stored(y) = EqStored(dev, u, y, b[y])
    BY DEF Eq!Stored, EqStored
  <2>2. [y \in Eq!Points(dev) |->
          b[y].n + b[y].p
            + dev.h[y] * (Eq!Sum(b[y].nt, DOMAIN b[y].nt) - Eq!Sum(b[y].pt, DOMAIN b[y].pt))
            + dev.h[y] * Eq!Step(dev) * Eq!Stored(y)]
         = [y \in Eq!Points(dev) |-> EqBalance(dev, u, y, b[y])]
    BY <2>1 DEF EqBalance
  <2> QED BY <2>2, Zenon DEF Eq!ChargeConserved
<1>1. dev \in Eq!Meshed /\ u \in Eq!Solution(dev) /\ i = dev.ylen /\ dev.ylen \in Nat \ {0}
  BY EqDevice DEF EqInv, EqWhere, EqSystemInv, Eq!Filled
<1>2. EqBalanced(dev) /\ Eq!NoHoleTunnel
  BY DEF Eq!Balanced, EqBalanced
<1>3. PICK n : n = dev.ylen
  OBVIOUS
<1>4. Eq!Points(dev) = 0 .. n - 1
  BY <1>3 DEF Eq!Points
<1>5. PICK w : w = [y \in 0 .. n |-> EqCurrent(dev, u, y)]
  OBVIOUS
<1>6. PICK f : f = [y \in 0 .. n - 1 |-> EqBalance(dev, u, y, b[y])]
  OBVIOUS
<1>7. \A y \in 0 .. n - 1 : /\ f[y] = w[y] - w[y + 1] /\ w[y] \in Int /\ w[y + 1] \in Int
                            /\ w[y + 1] = EqCurrent(dev, u, y + 1)
  <2> TAKE y \in 0 .. n - 1
  <2>1. y \in Eq!Points(dev) /\ y < i /\ y \in 0 .. n /\ y + 1 \in 0 .. n
    BY <1>1, <1>3, <1>4
  <2>2. PICK c \in Int : b[y] = EqSide(dev, u, y, c)
    BY <1>2, <2>1 DEF EqSystemInv, EqSidesInv
  <2>3. /\ EqBalance(dev, u, y, EqSide(dev, u, y, c))
             = EqCurrent(dev, u, y) - EqCurrent(dev, u, y + 1)
        /\ EqCurrent(dev, u, y) \in Int /\ EqCurrent(dev, u, y + 1) \in Int
    BY <1>1, <1>2, <2>1, EqPointCurrent
  <2>4. f[y] = EqBalance(dev, u, y, b[y]) /\ w[y] = EqCurrent(dev, u, y)
        /\ w[y + 1] = EqCurrent(dev, u, y + 1)
    BY <1>5, <1>6, <2>1
  <2> QED BY <2>2, <2>3, <2>4
<1>8. w \in [0 .. n -> Int]
  <2>1. \A y \in 0 .. n : w[y] \in Int
    <3> TAKE y \in 0 .. n
    <3>1. CASE y = n
      <4>1. n - 1 \in 0 .. n - 1 /\ (n - 1) + 1 = n
        BY <1>1, <1>3
      <4> QED BY <1>7, <3>1, <4>1
    <3>2. CASE y # n
      <4>1. y \in 0 .. n - 1
        BY <1>1, <1>3, <3>2
      <4> QED BY <1>7, <4>1
    <3> QED BY <3>1, <3>2
  <2> QED BY <1>5, <2>1
<1>9. f \in [0 .. n - 1 -> Int]
  BY <1>6, <1>7
<1>10. SumFunctionOnSet(f, 0 .. n - 1) = w[0] - w[n]
  BY <1>1, <1>3, <1>7, <1>8, <1>9, SumTelescope
<1>11. 0 \in Eq!Points(dev) /\ n - 1 \in Eq!Points(dev) /\ (n - 1) + 1 = n /\ 0 < i /\ n - 1 < i
       /\ 0 \in 0 .. n /\ n \in 0 .. n
  BY <1>1, <1>3, <1>4
<1>12. /\ Jnl[0] = Eq!Flux_n(dev, u, 0) /\ Jpl[0] = Eq!Flux_p(dev, u, 0)
       /\ Jnr[n - 1] = Eq!Flux_n(dev, u, n) /\ Jpr[n - 1] = Eq!Flux_p(dev, u, n)
  BY <1>2, <1>11 DEF EqInv, EqDone, EqPast
<1>13. w[0] = EqCurrent(dev, u, 0) /\ w[n] = EqCurrent(dev, u, n)
  BY <1>5, <1>11
<1>14. EqAcross(dev, u, 0) = 0 /\ EqAcross(dev, u, n) = 0
  BY <1>3 DEF EqAcross
<1>15. /\ Jnl[0] \in Int /\ Jpl[0] \in Int /\ Jnr[n - 1] \in Int /\ Jpr[n - 1] \in Int
  BY <1>1, <1>3, <1>11, <1>12, EqFluxInt
<1>16. w[0] = Jnl[0] + Jpl[0] /\ w[n] = Jnr[n - 1] + Jpr[n - 1]
  BY <1>12, <1>13, <1>14, <1>15 DEF EqCurrent
<1>17. Eq!Sum([y \in Eq!Points(dev) |-> EqBalance(dev, u, y, b[y])], Eq!Points(dev))
         = SumFunctionOnSet(f, 0 .. n - 1)
  BY <1>4, <1>6, EqSum
<1> QED BY <1>3, <1>10, <1>16, <1>17, Zenon

\* Net capture of the conservation form is that of the levels of the point.
LEMMA EqCaptured ==
  ASSUME NEW d \in Eq!Meshed, NEW v \in Eq!Solution(d), NEW y \in Eq!Points(d)
  PROVE  /\ Eq!Captured(Eq!Own, v.nt[y], d.Nt, v.n[y], d.ntrapnewton, d)
              = EqTotal(EqOwn(EqTrapsN(d, v, y)))
         /\ Eq!Captured(Eq!Other, v.nt[y], d.Nt, v.p[y], d.ntrapnewton, d)
              = EqTotal(EqOther(EqTrapsN(d, v, y)))
         /\ Eq!Captured(Eq!Own, v.pt[y], d.Nt, v.p[y], d.ptrapnewton, d)
              = EqTotal(EqOwn(EqTrapsP(d, v, y)))
         /\ Eq!Captured(Eq!Other, v.pt[y], d.Nt, v.n[y], d.ptrapnewton, d)
              = EqTotal(EqOther(EqTrapsP(d, v, y)))
<1>1. /\ DOMAIN EqLevelsN(d, v, y) = Eq!Bands(d) /\ DOMAIN EqLevelsP(d, v, y) = Eq!Bands(d)
  BY EqLevelsType
<1>2. \A k \in Eq!Bands(d) :
        /\ EqLevelsN(d, v, y)[k].own = Eq!Own(Eq!Rates(d.Nt, v.nt[y][k]), v.n[y])
        /\ EqLevelsN(d, v, y)[k].other = Eq!Other(Eq!Rates(d.Nt, v.nt[y][k]), v.p[y])
        /\ EqLevelsP(d, v, y)[k].own = Eq!Own(Eq!Rates(d.Nt, v.pt[y][k]), v.p[y])
        /\ EqLevelsP(d, v, y)[k].other = Eq!Other(Eq!Rates(d.Nt, v.pt[y][k]), v.n[y])
  BY DEF EqLevelsN, EqLevelsP, Eq!Level
<1>3. /\ EqOwn(EqLevelsN(d, v, y)) = [k \in Eq!Bands(d) |-> Eq!Own(Eq!Rates(d.Nt, v.nt[y][k]), v.n[y])]
      /\ EqOther(EqLevelsN(d, v, y)) = [k \in Eq!Bands(d) |-> Eq!Other(Eq!Rates(d.Nt, v.nt[y][k]), v.p[y])]
      /\ EqOwn(EqLevelsP(d, v, y)) = [k \in Eq!Bands(d) |-> Eq!Own(Eq!Rates(d.Nt, v.pt[y][k]), v.p[y])]
      /\ EqOther(EqLevelsP(d, v, y)) = [k \in Eq!Bands(d) |-> Eq!Other(Eq!Rates(d.Nt, v.pt[y][k]), v.n[y])]
  BY <1>1, <1>2 DEF EqOwn, EqOther
<1>4. /\ d.ntrapnewton => EqTrapsN(d, v, y) = EqLevelsN(d, v, y)
      /\ ~d.ntrapnewton => EqTrapsN(d, v, y) = <<>>
      /\ d.ptrapnewton => EqTrapsP(d, v, y) = EqLevelsP(d, v, y)
      /\ ~d.ptrapnewton => EqTrapsP(d, v, y) = <<>>
  BY DEF EqTrapsN, EqTrapsP
<1>5. /\ DOMAIN EqOwn(EqLevelsN(d, v, y)) = Eq!Bands(d)
      /\ DOMAIN EqOther(EqLevelsN(d, v, y)) = Eq!Bands(d)
      /\ DOMAIN EqOwn(EqLevelsP(d, v, y)) = Eq!Bands(d)
      /\ DOMAIN EqOther(EqLevelsP(d, v, y)) = Eq!Bands(d)
  BY <1>1 DEF EqOwn, EqOther
<1>6. /\ Eq!Captured(Eq!Own, v.nt[y], d.Nt, v.n[y], d.ntrapnewton, d)
              = EqTotal(EqOwn(EqTrapsN(d, v, y)))
      /\ Eq!Captured(Eq!Other, v.nt[y], d.Nt, v.p[y], d.ntrapnewton, d)
              = EqTotal(EqOther(EqTrapsN(d, v, y)))
  <2>1. CASE d.ntrapnewton
    BY <1>3, <1>4, <1>5, <2>1, EqSum, Zenon DEF Eq!Captured, EqTotal
  <2>2. CASE ~d.ntrapnewton
    BY <1>4, <2>2, EqNoTraps, Zenon DEF Eq!Captured
  <2> QED BY <2>1, <2>2
<1>7. /\ Eq!Captured(Eq!Own, v.pt[y], d.Nt, v.p[y], d.ptrapnewton, d)
              = EqTotal(EqOwn(EqTrapsP(d, v, y)))
      /\ Eq!Captured(Eq!Other, v.pt[y], d.Nt, v.n[y], d.ptrapnewton, d)
              = EqTotal(EqOther(EqTrapsP(d, v, y)))
  <2>1. CASE d.ptrapnewton
    BY <1>3, <1>4, <1>5, <2>1, EqSum, Zenon DEF Eq!Captured, EqTotal
  <2>2. CASE ~d.ptrapnewton
    BY <1>4, <2>2, EqNoTraps, Zenon DEF Eq!Captured
  <2> QED BY <2>1, <2>2
<1> QED BY <1>6, <1>7

\* The charge of a point is a number.
LEMMA EqChargeInt ==
  ASSUME NEW d \in Eq!Meshed, NEW v \in Eq!Solution(d), NEW y \in Eq!Points(d)
  PROVE  Eq!Charge(d, v, y) \in Int
<1>1. PICK f : f = [k \in Eq!Bands(d) |-> v.pt[y][k] - v.nt[y][k]]
  OBVIOUS
<1>2. \A k \in Eq!Bands(d) : v.nt[y][k] \in Int /\ v.pt[y][k] \in Int
  BY EqProfile
<1>3. f \in [Eq!Bands(d) -> Int] /\ Eq!Bands(d) \in SUBSET Eq!Bands(d)
  BY <1>1, <1>2
<1>4. Eq!Sum(f, Eq!Bands(d)) \in Int
  BY <1>3, EqSum, EqLevelsType, SumSplit
<1>5. v.n[y] \in Int /\ v.p[y] \in Int /\ d.Nad[y] \in Int
  BY EqProfile, EqDevice
<1> QED BY <1>1, <1>4, <1>5 DEF Eq!Charge

\* The numbers the right hand side is made of.
LEMMA EqSideNumbers ==
  ASSUME Eq!BernNumeric, NEW d \in Eq!Meshed, NEW v \in Eq!Solution(d), NEW y \in Eq!Points(d)
  PROVE  /\ Eq!Flux_n(d, v, y) \in Int /\ Eq!Flux_n(d, v, y + 1) \in Int
         /\ Eq!Flux_p(d, v, y) \in Int /\ Eq!Flux_p(d, v, y + 1) \in Int
         /\ Eq!Pairs(d, v, y, y) \in Int
         /\ Eq!BLeft(d, y) * Eq!Pairs(d, v, y, y - 1) \in Int
         /\ d.interface_B[y] * Eq!Pairs(d, v, y + 1, y) \in Int
         /\ EqTotal(EqOwn(EqTrapsN(d, v, y))) \in Int /\ EqTotal(EqOther(EqTrapsN(d, v, y))) \in Int
         /\ EqTotal(EqOwn(EqTrapsP(d, v, y))) \in Int /\ EqTotal(EqOther(EqTrapsP(d, v, y))) \in Int
         /\ Eq!Step(d) \in Int /\ d.B \in Int /\ Eq!Augers(d, v, y) \in Int
         /\ d.h[y] \in Int /\ d.Gn[y] \in Int /\ d.Gp[y] \in Int
         /\ v.n[y] - d.nlast \in Int /\ v.p[y] - d.plast \in Int
<1>1. /\ y \in Int /\ y - 1 \in -1 .. d.ylen /\ y \in -1 .. d.ylen /\ y + 1 \in -1 .. d.ylen
      /\ y \in 0 .. d.ylen /\ y + 1 \in 0 .. d.ylen
  BY EqAround
<1>2. \A p, q \in Int : p * q \in Int /\ p + q \in Int /\ p - q \in Int
  BY SMT
<1>3. /\ d.h[y] \in Int /\ d.Gn[y] \in Int /\ d.Gp[y] \in Int /\ d.interface_B[y] \in Int
      /\ d.nlast \in Int /\ d.plast \in Int /\ d.B \in Int /\ d.Cn \in Int /\ d.Cp \in Int
  BY EqDevice
<1>4. v.n[y] \in Int /\ v.p[y] \in Int
  BY EqProfile
<1>5. Eq!Augers(d, v, y) \in Int
  BY <1>2, <1>3, <1>4, Zenon DEF Eq!Augers
<1>6. /\ Eq!Pairs(d, v, y, y) \in Int
      /\ Eq!Pairs(d, v, y, y - 1) \in Int /\ Eq!Pairs(d, v, y + 1, y) \in Int
  BY <1>1, EqPairsInt
<1>7. Eq!BLeft(d, y) \in Int
  <2>1. y - 1 \in -1 .. d.ylen - 1
    BY EqDevice DEF Eq!Points
  <2>2. d.interface_B \in [Eq!Points(d) -> Int]
    BY EqDevice
  <2> QED BY <2>1, <2>2, EqOfFaceInt DEF Eq!BLeft
<1>8. /\ Eq!BLeft(d, y) * Eq!Pairs(d, v, y, y - 1) \in Int
      /\ d.interface_B[y] * Eq!Pairs(d, v, y + 1, y) \in Int
  BY <1>2, <1>3, <1>6, <1>7, Zenon
<1>9. /\ Eq!Flux_n(d, v, y) \in Int /\ Eq!Flux_n(d, v, y + 1) \in Int
      /\ Eq!Flux_p(d, v, y) \in Int /\ Eq!Flux_p(d, v, y + 1) \in Int
  BY <1>1, EqFluxInt
<1>10. /\ EqTotal(EqOwn(EqTrapsN(d, v, y))) \in Int /\ EqTotal(EqOther(EqTrapsN(d, v, y))) \in Int
       /\ EqTotal(EqOwn(EqTrapsP(d, v, y))) \in Int /\ EqTotal(EqOther(EqTrapsP(d, v, y))) \in Int
  BY EqTrapsType DEF EqSums
<1>11. Eq!Step(d) \in Int
  BY DEF Eq!Step
<1>12. v.n[y] - d.nlast \in Int /\ v.p[y] - d.plast \in Int
  BY <1>2, <1>3, <1>4, Zenon
<1> QED BY <1>3, <1>5, <1>6, <1>8, <1>9, <1>10, <1>11, <1>12, Zenon

\* A right hand side and its residual, as numbers.
LEMMA EqResidualPoly ==
  \A h, s, F, F1, a, c, t, x, n, g \in Int :
    /\ -((F1 - F) - h * (t + c + x)) + h * (s * n - g)
         = -(F1 - F - h * (c + t + x + s * n - g))
    /\ -((F1 - F) + h * (t + c + x)) + h * (g - s * n)
         = -(F1 - F + h * (c + t + x + s * n - g))
BY SMTT(60)

\* The rates that electrons and holes share.
LEMMA EqCommonSum ==
  ASSUME NEW d \in Eq!Meshed, NEW v \in Eq!Solution(d), NEW y \in Eq!Points(d), Eq!BernNumeric
  PROVE  /\ d.B * Eq!Pairs(d, v, y, y) + Eq!Augers(d, v, y) * Eq!Pairs(d, v, y, y) + EqSrh(d, v, y)
              = Eq!Common(d, v, y)
         /\ Eq!Common(d, v, y) \in Int
<1>1. PICK p, B, a : p = Eq!Pairs(d, v, y, y) /\ B = d.B /\ a = Eq!Augers(d, v, y)
  OBVIOUS
<1>2. p \in Int /\ B \in Int /\ a \in Int
  BY <1>1, EqSideNumbers
<1>3. PICK k : k = IF d.ss_srh[y] THEN 1 ELSE 0
  OBVIOUS
<1>4. k \in Int /\ EqSrh(d, v, y) = k * p
  BY <1>1, <1>2, <1>3 DEF EqSrh
<1>5. Eq!Common(d, v, y) = (B + a + k) * p
  BY <1>1, <1>3 DEF Eq!Common
<1>6. B * p + a * p + k * p = (B + a + k) * p /\ (B + a + k) * p \in Int
  BY <1>2, <1>4
<1> QED BY <1>1, <1>4, <1>5, <1>6, Zenon

\* The closed form of a right hand side is minus the residual,
LEMMA EqResiduals ==
  ASSUME Eq!BernNumeric, NEW d \in Eq!Meshed, NEW v \in Eq!Solution(d), NEW y \in Eq!Points(d),
         NEW side, side = EqSide(d, v, y, EqSrh(d, v, y))
  PROVE  /\ side.phi = -Eq!Fphi(d, v, y) /\ side.n = -Eq!Fn(d, v, y) /\ side.p = -Eq!Fp(d, v, y)
         /\ \A k \in DOMAIN side.nt : side.nt[k] = -Eq!Fnt(d, v, y, k)
         /\ \A k \in DOMAIN side.pt : side.pt[k] = -Eq!Fpt(d, v, y, k)
<1>1. PICK h, s, F, F1, G, G1, c, x, z :
        /\ h = d.h[y] /\ s = Eq!Step(d) /\ c = Eq!Common(d, v, y)
        /\ F = Eq!Flux_n(d, v, y) /\ F1 = Eq!Flux_n(d, v, y + 1)
        /\ G = Eq!Flux_p(d, v, y) /\ G1 = Eq!Flux_p(d, v, y + 1)
        /\ x = Eq!BLeft(d, y) * Eq!Pairs(d, v, y, y - 1)
        /\ z = d.interface_B[y] * Eq!Pairs(d, v, y + 1, y)
  OBVIOUS
<1>2. PICK on, op, no, po :
        /\ on = EqTotal(EqOwn(EqTrapsN(d, v, y))) /\ op = EqTotal(EqOther(EqTrapsP(d, v, y)))
        /\ no = EqTotal(EqOther(EqTrapsN(d, v, y))) /\ po = EqTotal(EqOwn(EqTrapsP(d, v, y)))
  OBVIOUS
<1>3. PICK n, g, p, q :
        n = v.n[y] - d.nlast /\ g = d.Gn[y] /\ p = v.p[y] - d.plast /\ q = d.Gp[y]
  OBVIOUS
<1>4. /\ h \in Int /\ s \in Int /\ F \in Int /\ F1 \in Int /\ G \in Int /\ G1 \in Int
      /\ x \in Int /\ z \in Int /\ on \in Int /\ op \in Int /\ no \in Int /\ po \in Int
      /\ n \in Int /\ g \in Int /\ p \in Int /\ q \in Int
  BY <1>1, <1>2, <1>3, EqSideNumbers
<1>5. c \in Int /\ c = d.B * Eq!Pairs(d, v, y, y) + Eq!Augers(d, v, y) * Eq!Pairs(d, v, y, y) + EqSrh(d, v, y)
  BY <1>1, EqCommonSum
<1>6. side.n = -Eq!Fn(d, v, y)
  <2>1. side.n = -((F1 - F) - h * ((on + op) + c + x)) + h * (s * n - g)
    BY <1>1, <1>2, <1>3, <1>5, Zenon DEF EqSide, Eq!Step
  <2>2. Eq!Fn(d, v, y) = F1 - F - h * (c + on + op + x + s * n - g)
    BY <1>1, <1>2, <1>3, EqCaptured, Zenon DEF Eq!Fn, Eq!BLeft
  <2>3. -((F1 - F) - h * ((on + op) + c + x)) + h * (s * n - g)
          = -(F1 - F - h * (c + (on + op) + x + s * n - g))
    BY <1>4, <1>5, EqResidualPoly
  <2>4. c + on + op = c + (on + op)
    BY <1>4, <1>5
  <2> QED BY <2>1, <2>2, <2>3, <2>4, Zenon
<1>7. side.p = -Eq!Fp(d, v, y)
  <2>1. side.p = -((G1 - G) + h * ((no + po) + c + z)) + h * (q - s * p)
    BY <1>1, <1>2, <1>3, <1>5, Zenon DEF EqSide, Eq!Step
  <2>2. Eq!Fp(d, v, y) = G1 - G + h * (c + no + po + z + s * p - q)
    BY <1>1, <1>2, <1>3, EqCaptured, Zenon DEF Eq!Fp
  <2>3. -((G1 - G) + h * ((no + po) + c + z)) + h * (q - s * p)
          = -(G1 - G + h * (c + (no + po) + z + s * p - q))
    BY <1>4, <1>5, EqResidualPoly
  <2>4. c + no + po = c + (no + po)
    BY <1>4, <1>5
  <2> QED BY <2>1, <2>2, <2>3, <2>4, Zenon
<1>8. side.phi = -Eq!Fphi(d, v, y)
  <2>1. PICK e, e1, f, fl, fr, C :
          /\ e = d.e[y] /\ e1 = d.e[y + 1] /\ f = v.phi[y] /\ fl = Eq!Phi(d, v, y - 1)
          /\ fr = Eq!Phi(d, v, y + 1) /\ C = Eq!Charge(d, v, y)
    OBVIOUS
  <2>2. e \in Int /\ e1 \in Int
    BY <2>1, EqDevice, EqAround
  <2>3. f \in Int /\ fl \in Int /\ fr \in Int /\ C \in Int
    BY <2>1, EqProfile, EqNumbers, EqAround, EqChargeInt
  <2>4. side.phi = h * C - ((-e) * fl + (e + e1) * f + (-e1) * fr)
    BY <1>1, <2>1 DEF EqSide
  <2>5. Eq!Fphi(d, v, y) = e * (f - fl) - e1 * (fr - f) - h * C
    BY <1>1, <2>1 DEF Eq!Fphi
  <2>6. h * C - ((-e) * fl + (e + e1) * f + (-e1) * fr) = -(e * (f - fl) - e1 * (fr - f) - h * C)
    BY <1>4, <2>2, <2>3, SMTT(60)
  <2> QED BY <2>4, <2>5, <2>6, Zenon
<1>9. \A k \in DOMAIN side.nt : side.nt[k] = -Eq!Fnt(d, v, y, k)
  <2> TAKE k \in DOMAIN side.nt
  <2>1. k \in DOMAIN EqTrapsN(d, v, y) /\ side.nt[k] = -EqTrapsN(d, v, y)[k].trap
    BY DEF EqSide
  <2>2. EqTrapsN(d, v, y)[k] = EqLevelsN(d, v, y)[k] /\ k \in Eq!Bands(d)
    BY <2>1, EqNoTraps, EqLevelsType DEF EqTrapsN
  <2>3. EqLevelsN(d, v, y)[k].trap = Eq!Fnt(d, v, y, k)
    BY <2>2 DEF EqLevelsN, Eq!Level, Eq!Fnt, Eq!Step
  <2> QED BY <2>1, <2>2, <2>3
<1>10. \A k \in DOMAIN side.pt : side.pt[k] = -Eq!Fpt(d, v, y, k)
  <2> TAKE k \in DOMAIN side.pt
  <2>1. k \in DOMAIN EqTrapsP(d, v, y) /\ side.pt[k] = -EqTrapsP(d, v, y)[k].trap
    BY DEF EqSide
  <2>2. EqTrapsP(d, v, y)[k] = EqLevelsP(d, v, y)[k] /\ k \in Eq!Bands(d)
    BY <2>1, EqNoTraps, EqLevelsType DEF EqTrapsP
  <2>3. EqLevelsP(d, v, y)[k].trap = Eq!Fpt(d, v, y, k)
    BY <2>2 DEF EqLevelsP, Eq!Level, Eq!Fpt, Eq!Step
  <2> QED BY <2>1, <2>2, <2>3
<1> QED BY <1>6, <1>7, <1>8, <1>9, <1>10

\* and so is what fill_matrix writes.
LEMMA EqResidualExact ==
  ASSUME Eq!BernNumeric, EqInv, EqSystemInv, Eq!Filled
  PROVE  Eq!ResidualExact
<1> SUFFICES ASSUME Eq!NoHoleTunnel, Eq!SrhToTheEnd(dev), NEW y \in Eq!Points(dev)
             PROVE  /\ b[y].phi = -Eq!Fphi(dev, u, y) /\ b[y].n = -Eq!Fn(dev, u, y)
                    /\ b[y].p = -Eq!Fp(dev, u, y)
                    /\ \A k \in DOMAIN b[y].nt : b[y].nt[k] = -Eq!Fnt(dev, u, y, k)
                    /\ \A k \in DOMAIN b[y].pt : b[y].pt[k] = -Eq!Fpt(dev, u, y, k)
  BY DEF Eq!ResidualExact
<1>1. dev \in Eq!Meshed /\ u \in Eq!Solution(dev) /\ y < i
  BY EqPointsRange DEF EqInv, EqWhere, EqSystemInv, Eq!Filled
<1>2. b[y] = EqSide(dev, u, y, EqSrh(dev, u, y))
  BY <1>1 DEF EqSystemInv, EqSidesInv
<1> QED BY <1>1, <1>2, EqResiduals

\* A solution with one number more, or less, by s.
EqUp(v, var, z, s) == [v EXCEPT ![var][z] = @ + s]
EqDown(v, var, z, s) == [v EXCEPT ![var][z] = @ - s]

\* p and m are v with en, ep and ef more and less of electrons, holes and potential, at
\* the points and the contacts.
EqNudged(d, v, p, m, en, ep, ef) ==
  /\ p \in Eq!Solution(d) /\ m \in Eq!Solution(d)
  /\ p.nt = v.nt /\ p.pt = v.pt /\ m.nt = v.nt /\ m.pt = v.pt
  /\ {en, ep, ef} \subseteq [-1 .. d.ylen -> Int]
  /\ \A y \in -1 .. d.ylen :
       /\ Eq!N(d, p, y) = Eq!N(d, v, y) + en[y] /\ Eq!N(d, m, y) = Eq!N(d, v, y) - en[y]
       /\ Eq!P(d, p, y) = Eq!P(d, v, y) + ep[y] /\ Eq!P(d, m, y) = Eq!P(d, v, y) - ep[y]
       /\ Eq!Phi(d, p, y) = Eq!Phi(d, v, y) + ef[y] /\ Eq!Phi(d, m, y) = Eq!Phi(d, v, y) - ef[y]
\* s at one point, nothing elsewhere
EqOnly(d, z, s) == [y \in -1 .. d.ylen |-> IF y = z THEN s ELSE 0]

\* g and h are f with s more and less at z
EqMoved(d, f, g, h, z, s) ==
  \A y \in Eq!Points(d) : /\ g[y] = IF y = z THEN f[y] + s ELSE f[y]
                          /\ h[y] = IF y = z THEN f[y] - s ELSE f[y]
\* e, of the values at the contacts, as well
EqMovedAt(d, f, g, h, e, z, s) ==
  \A y \in -1 .. d.ylen :
    /\ Eq!At(g, e, d, y) = Eq!At(f, e, d, y) + EqOnly(d, z, s)[y]
    /\ Eq!At(h, e, d, y) = Eq!At(f, e, d, y) - EqOnly(d, z, s)[y]

\* What a change of one point's number changes of those at the points and the contacts.
LEMMA EqAtPut ==
  ASSUME NEW d \in Eq!Meshed, NEW e, NEW z \in Eq!Points(d), NEW s \in Int,
         NEW f \in [Eq!Points(d) -> Int], e \in Int \X Int,
         NEW p, NEW m, EqMoved(d, f, p, m, z, s)
  PROVE  EqMovedAt(d, f, p, m, e, z, s)
<1>1. d.ylen \in Nat \ {0}
  BY EqDevice
<1>2. z \in Int /\ z >= 0 /\ z < d.ylen
  BY <1>1 DEF Eq!Points
<1> SUFFICES ASSUME NEW y \in -1 .. d.ylen
             PROVE  /\ Eq!At(p, e, d, y) = Eq!At(f, e, d, y) + EqOnly(d, z, s)[y]
                    /\ Eq!At(m, e, d, y) = Eq!At(f, e, d, y) - EqOnly(d, z, s)[y]
  BY DEF EqMovedAt
<1>3. Eq!At(f, e, d, y) \in Int
  BY EqAtInt, Zenon
<1>4. y \in Int /\ y >= -1 /\ y <= d.ylen
  BY <1>1
<1>5. CASE y < 0 \/ y = d.ylen
  <2>1. y # z
    BY <1>1, <1>2, <1>5
  <2>2. Eq!At(p, e, d, y) = Eq!At(f, e, d, y) /\ Eq!At(m, e, d, y) = Eq!At(f, e, d, y)
    BY <1>1, <1>5 DEF Eq!At
  <2> QED BY <1>3, <2>1, <2>2 DEF EqOnly
<1>6. CASE y >= 0 /\ y < d.ylen
  <2>1. y \in Eq!Points(d) /\ ~(y < 0) /\ y # d.ylen
    BY <1>1, <1>4, <1>6 DEF Eq!Points
  <2>2. Eq!At(p, e, d, y) = p[y] /\ Eq!At(m, e, d, y) = m[y] /\ Eq!At(f, e, d, y) = f[y]
    BY <2>1 DEF Eq!At
  <2> QED BY <1>3, <2>1, <2>2 DEF EqOnly, EqMoved
<1> QED BY <1>1, <1>4, <1>5, <1>6

\* It is a number for every point and contact.
LEMMA EqOnlyType ==
  ASSUME NEW d \in Eq!Meshed, NEW z, NEW s \in Int
  PROVE  /\ EqOnly(d, z, s) \in [-1 .. d.ylen -> Int]
         /\ \A y \in -1 .. d.ylen : EqOnly(d, z, 0)[y] = 0
BY DEF EqOnly

\* To move the electrons of a point up and down is such a move,
LEMMA EqNudgeN ==
  ASSUME NEW d \in Eq!Meshed, NEW v \in Eq!Solution(d), NEW z \in Eq!Points(d), NEW s \in Int
  PROVE  EqNudged(d, v, EqUp(v, "n", z, s), EqDown(v, "n", z, s),
                  EqOnly(d, z, s), EqOnly(d, z, 0), EqOnly(d, z, 0))
<1>1. PICK p, m, f, e, g, h :
        /\ p = EqUp(v, "n", z, s) /\ m = EqDown(v, "n", z, s)
        /\ f = v.n /\ e = d.n_contact /\ g = p.n /\ h = m.n
  OBVIOUS
<1>2. /\ g = [f EXCEPT ![z] = f[z] + s] /\ h = [f EXCEPT ![z] = f[z] - s]
      /\ p.p = v.p /\ m.p = v.p /\ p.phi = v.phi /\ m.phi = v.phi
      /\ p.nt = v.nt /\ m.nt = v.nt /\ p.pt = v.pt /\ m.pt = v.pt
  BY <1>1 DEF EqUp, EqDown, Eq!Solution
<1>3. f \in [Eq!Points(d) -> Int] /\ e \in Int \X Int
  BY <1>1, EqProfile, EqDevice
<1>4. f[z] + s \in Int /\ f[z] - s \in Int
  BY <1>3
<1>5. /\ g \in [Eq!Points(d) -> Int] /\ h \in [Eq!Points(d) -> Int]
      /\ EqMoved(d, f, g, h, z, s)
  BY <1>2, <1>3, <1>4 DEF EqMoved
<1>6. EqMovedAt(d, f, g, h, e, z, s)
  BY <1>3, <1>5, EqAtPut
<1>7. p \in Eq!Solution(d) /\ m \in Eq!Solution(d)
  BY <1>1, <1>2, <1>5 DEF Eq!Solution, EqUp, EqDown
<1>8. \A y \in -1 .. d.ylen :
        /\ Eq!N(d, p, y) = Eq!N(d, v, y) + EqOnly(d, z, s)[y]
        /\ Eq!N(d, m, y) = Eq!N(d, v, y) - EqOnly(d, z, s)[y]
  BY <1>1, <1>6, Zenon DEF Eq!N, EqMovedAt
<1>9. \A y \in -1 .. d.ylen :
        /\ Eq!P(d, p, y) = Eq!P(d, v, y) /\ Eq!P(d, m, y) = Eq!P(d, v, y)
        /\ Eq!Phi(d, p, y) = Eq!Phi(d, v, y) /\ Eq!Phi(d, m, y) = Eq!Phi(d, v, y)
  BY <1>2 DEF Eq!P, Eq!Phi
<1>10. \A y \in -1 .. d.ylen :
         /\ Eq!P(d, v, y) \in Int /\ Eq!Phi(d, v, y) \in Int /\ EqOnly(d, z, 0)[y] = 0
  BY EqNumbers, EqOnlyType
<1>11. EqNudged(d, v, p, m, EqOnly(d, z, s), EqOnly(d, z, 0), EqOnly(d, z, 0))
  BY <1>2, <1>7, <1>8, <1>9, <1>10, EqOnlyType DEF EqNudged
<1> QED BY <1>1, <1>11

\* to move its holes is one,
LEMMA EqNudgeP ==
  ASSUME NEW d \in Eq!Meshed, NEW v \in Eq!Solution(d), NEW z \in Eq!Points(d), NEW s \in Int
  PROVE  EqNudged(d, v, EqUp(v, "p", z, s), EqDown(v, "p", z, s),
                  EqOnly(d, z, 0), EqOnly(d, z, s), EqOnly(d, z, 0))
<1>1. PICK p, m, f, e, g, h :
        /\ p = EqUp(v, "p", z, s) /\ m = EqDown(v, "p", z, s)
        /\ f = v.p /\ e = d.p_contact /\ g = p.p /\ h = m.p
  OBVIOUS
<1>2. /\ g = [f EXCEPT ![z] = f[z] + s] /\ h = [f EXCEPT ![z] = f[z] - s]
      /\ p.n = v.n /\ m.n = v.n /\ p.phi = v.phi /\ m.phi = v.phi
      /\ p.nt = v.nt /\ m.nt = v.nt /\ p.pt = v.pt /\ m.pt = v.pt
  BY <1>1 DEF EqUp, EqDown, Eq!Solution
<1>3. f \in [Eq!Points(d) -> Int] /\ e \in Int \X Int
  BY <1>1, EqProfile, EqDevice
<1>4. f[z] + s \in Int /\ f[z] - s \in Int
  BY <1>3
<1>5. /\ g \in [Eq!Points(d) -> Int] /\ h \in [Eq!Points(d) -> Int]
      /\ EqMoved(d, f, g, h, z, s)
  BY <1>2, <1>3, <1>4 DEF EqMoved
<1>6. EqMovedAt(d, f, g, h, e, z, s)
  BY <1>3, <1>5, EqAtPut
<1>7. p \in Eq!Solution(d) /\ m \in Eq!Solution(d)
  BY <1>1, <1>2, <1>5 DEF Eq!Solution, EqUp, EqDown
<1>8. \A y \in -1 .. d.ylen :
        /\ Eq!P(d, p, y) = Eq!P(d, v, y) + EqOnly(d, z, s)[y]
        /\ Eq!P(d, m, y) = Eq!P(d, v, y) - EqOnly(d, z, s)[y]
  BY <1>1, <1>6, Zenon DEF Eq!P, EqMovedAt
<1>9. \A y \in -1 .. d.ylen :
        /\ Eq!N(d, p, y) = Eq!N(d, v, y) /\ Eq!N(d, m, y) = Eq!N(d, v, y)
        /\ Eq!Phi(d, p, y) = Eq!Phi(d, v, y) /\ Eq!Phi(d, m, y) = Eq!Phi(d, v, y)
  BY <1>2 DEF Eq!N, Eq!Phi
<1>10. \A y \in -1 .. d.ylen :
         /\ Eq!N(d, v, y) \in Int /\ Eq!Phi(d, v, y) \in Int /\ EqOnly(d, z, 0)[y] = 0
  BY EqNumbers, EqOnlyType
<1>11. EqNudged(d, v, p, m, EqOnly(d, z, 0), EqOnly(d, z, s), EqOnly(d, z, 0))
  BY <1>2, <1>7, <1>8, <1>9, <1>10, EqOnlyType DEF EqNudged
<1> QED BY <1>1, <1>11

\* and to move its potential.
LEMMA EqNudgePhi ==
  ASSUME NEW d \in Eq!Meshed, NEW v \in Eq!Solution(d), NEW z \in Eq!Points(d), NEW s \in Int
  PROVE  EqNudged(d, v, EqUp(v, "phi", z, s), EqDown(v, "phi", z, s),
                  EqOnly(d, z, 0), EqOnly(d, z, 0), EqOnly(d, z, s))
<1>1. PICK p, m, f, e, g, h :
        /\ p = EqUp(v, "phi", z, s) /\ m = EqDown(v, "phi", z, s)
        /\ f = v.phi /\ e = d.phi_contact /\ g = p.phi /\ h = m.phi
  OBVIOUS
<1>2. /\ g = [f EXCEPT ![z] = f[z] + s] /\ h = [f EXCEPT ![z] = f[z] - s]
      /\ p.n = v.n /\ m.n = v.n /\ p.p = v.p /\ m.p = v.p
      /\ p.nt = v.nt /\ m.nt = v.nt /\ p.pt = v.pt /\ m.pt = v.pt
  BY <1>1 DEF EqUp, EqDown, Eq!Solution
<1>3. f \in [Eq!Points(d) -> Int] /\ e \in Int \X Int
  BY <1>1, EqProfile, EqDevice
<1>4. f[z] + s \in Int /\ f[z] - s \in Int
  BY <1>3
<1>5. /\ g \in [Eq!Points(d) -> Int] /\ h \in [Eq!Points(d) -> Int]
      /\ EqMoved(d, f, g, h, z, s)
  BY <1>2, <1>3, <1>4 DEF EqMoved
<1>6. EqMovedAt(d, f, g, h, e, z, s)
  BY <1>3, <1>5, EqAtPut
<1>7. p \in Eq!Solution(d) /\ m \in Eq!Solution(d)
  BY <1>1, <1>2, <1>5 DEF Eq!Solution, EqUp, EqDown
<1>8. \A y \in -1 .. d.ylen :
        /\ Eq!Phi(d, p, y) = Eq!Phi(d, v, y) + EqOnly(d, z, s)[y]
        /\ Eq!Phi(d, m, y) = Eq!Phi(d, v, y) - EqOnly(d, z, s)[y]
  BY <1>1, <1>6, Zenon DEF Eq!Phi, EqMovedAt
<1>9. \A y \in -1 .. d.ylen :
        /\ Eq!N(d, p, y) = Eq!N(d, v, y) /\ Eq!N(d, m, y) = Eq!N(d, v, y)
        /\ Eq!P(d, p, y) = Eq!P(d, v, y) /\ Eq!P(d, m, y) = Eq!P(d, v, y)
  BY <1>2 DEF Eq!N, Eq!P
<1>10. \A y \in -1 .. d.ylen :
         /\ Eq!N(d, v, y) \in Int /\ Eq!P(d, v, y) \in Int /\ EqOnly(d, z, 0)[y] = 0
  BY EqNumbers, EqOnlyType
<1>11. EqNudged(d, v, p, m, EqOnly(d, z, 0), EqOnly(d, z, 0), EqOnly(d, z, s))
  BY <1>2, <1>7, <1>8, <1>9, <1>10, EqOnlyType DEF EqNudged
<1> QED BY <1>1, <1>11

\* The rates at which carriers enter and leave through a face, and the slopes of its
\* fluxes by the potential behind it.
EqIntoN(d, v, y) == d.Dn[y] * Eq!XiFace(d, v, y).neg + Eq!OfFace(d.interface_Ge, y - 1)
EqFromN(d, v, y) == d.Dn[y] * Eq!XiFace(d, v, y).plus + Eq!OfFace(d.interface_Ge, y - 1)
EqIntoP(d, v, y) == d.Dp[y] * Eq!XipFace(d, v, y).neg + Eq!OfFace(d.interface_Gh, y - 1)
EqFromP(d, v, y) == d.Dp[y] * Eq!XipFace(d, v, y).plus + Eq!OfFace(d.interface_Gh, y - 1)
EqSlopeN(d, v, y) ==
  d.Dn[y] * (Eq!XiFace(d, v, y).dneg * Eq!N(d, v, y)
               + Eq!XiFace(d, v, y).dplus * Eq!N(d, v, y - 1))
EqSlopeP(d, v, y) ==
  d.Dp[y] * (Eq!XipFace(d, v, y).dneg * Eq!P(d, v, y - 1)
               + Eq!XipFace(d, v, y).dplus * Eq!P(d, v, y))

\* k and l are rates, g tunnels; x behind the face and z before it change by a and c.
LEMMA EqFluxPoly ==
  \A D, k, l, g, x, z, a, c, q, r \in Int :
    /\ (D * (k * (x + a) - l * (z + c)) - g * (((z + c) - q) - ((x + a) - r)))
         - (D * (k * (x - a) - l * (z - c)) - g * (((z - c) - q) - ((x - a) - r)))
         = 2 * ((D * k + g) * a - (D * l + g) * c)
    /\ (D * (k * (z + c) - l * (x + a)) + g * (((z + c) - q) - ((x + a) - r)))
         - (D * (k * (z - c) - l * (x - a)) + g * (((z - c) - q) - ((x - a) - r)))
         = 2 * ((D * k + g) * c - (D * l + g) * a)
    /\ (D * k + g) \in Int /\ (D * l + g) \in Int
BY SMTT(60)

\* the face's constants
LEMMA EqFaceConstants ==
  ASSUME Eq!BernNumeric, NEW d \in Eq!Meshed, NEW v \in Eq!Solution(d), NEW y \in 0 .. d.ylen
  PROVE  /\ d.Dn[y] \in Int /\ d.Dp[y] \in Int
         /\ Eq!OfFace(d.interface_Ge, y - 1) \in Int /\ Eq!OfFace(d.interface_Gh, y - 1) \in Int
         /\ Eq!XiFace(d, v, y).neg \in Int /\ Eq!XiFace(d, v, y).plus \in Int
         /\ Eq!XiFace(d, v, y).dneg \in Int /\ Eq!XiFace(d, v, y).dplus \in Int
         /\ Eq!XipFace(d, v, y).neg \in Int /\ Eq!XipFace(d, v, y).plus \in Int
         /\ Eq!XipFace(d, v, y).dneg \in Int /\ Eq!XipFace(d, v, y).dplus \in Int
         /\ Eq!N(d, v, y) \in Int /\ Eq!N(d, v, y - 1) \in Int
         /\ Eq!P(d, v, y) \in Int /\ Eq!P(d, v, y - 1) \in Int
         /\ Eq!Neq(d, y) \in Int /\ Eq!Neq(d, y - 1) \in Int
         /\ Eq!Peq(d, y) \in Int /\ Eq!Peq(d, y - 1) \in Int
         /\ y \in -1 .. d.ylen /\ y - 1 \in -1 .. d.ylen
<1>1. y \in -1 .. d.ylen /\ y - 1 \in -1 .. d.ylen /\ y - 1 \in -1 .. d.ylen - 1
  BY EqDevice
<1>2. d.Dn[y] \in Int /\ d.Dp[y] \in Int
  BY EqDevice
<1>3. Eq!OfFace(d.interface_Ge, y - 1) \in Int /\ Eq!OfFace(d.interface_Gh, y - 1) \in Int
  BY <1>1, EqDevice, EqOfFaceInt
<1> QED BY <1>1, <1>2, <1>3, EqNumbers, EqFaceNumbers

\* A move of the densities changes the flux through a face by these.
LEMMA EqFluxChange ==
  ASSUME Eq!BernNumeric, NEW d \in Eq!Meshed, NEW v \in Eq!Solution(d), NEW y \in 0 .. d.ylen,
         NEW p, NEW m, NEW en, NEW ep, NEW ef, EqNudged(d, v, p, m, en, ep, ef),
         ef[y] = 0, ef[y - 1] = 0
  PROVE  /\ Eq!Flux_n(d, p, y) - Eq!Flux_n(d, m, y)
              = 2 * (EqIntoN(d, v, y) * en[y] - EqFromN(d, v, y) * en[y - 1])
         /\ Eq!Flux_p(d, p, y) - Eq!Flux_p(d, m, y)
              = 2 * (EqIntoP(d, v, y) * ep[y - 1] - EqFromP(d, v, y) * ep[y])
<1>1. y \in -1 .. d.ylen /\ y - 1 \in -1 .. d.ylen
  BY EqFaceConstants
<1>2. /\ Eq!Phi(d, v, y) \in Int /\ Eq!Phi(d, v, y - 1) \in Int
      /\ en[y] \in Int /\ en[y - 1] \in Int /\ ep[y] \in Int /\ ep[y - 1] \in Int
  BY <1>1, EqNumbers DEF EqNudged
<1>3. /\ Eq!Phi(d, p, y) = Eq!Phi(d, v, y) /\ Eq!Phi(d, p, y - 1) = Eq!Phi(d, v, y - 1)
      /\ Eq!Phi(d, m, y) = Eq!Phi(d, v, y) /\ Eq!Phi(d, m, y - 1) = Eq!Phi(d, v, y - 1)
  BY <1>1, <1>2 DEF EqNudged
<1>4. /\ Eq!XiFace(d, p, y) = Eq!XiFace(d, v, y) /\ Eq!XiFace(d, m, y) = Eq!XiFace(d, v, y)
      /\ Eq!XipFace(d, p, y) = Eq!XipFace(d, v, y) /\ Eq!XipFace(d, m, y) = Eq!XipFace(d, v, y)
  BY <1>3, Zenon DEF Eq!XiFace, Eq!XipFace, Eq!Ec, Eq!Ev
<1>5. PICK D, k, l, g, x, z, a, c, q, r :
        /\ D = d.Dn[y] /\ k = Eq!XiFace(d, v, y).neg /\ l = Eq!XiFace(d, v, y).plus
        /\ g = Eq!OfFace(d.interface_Ge, y - 1) /\ x = Eq!N(d, v, y) /\ z = Eq!N(d, v, y - 1)
        /\ a = en[y] /\ c = en[y - 1] /\ q = Eq!Neq(d, y - 1) /\ r = Eq!Neq(d, y)
  OBVIOUS
<1>6. /\ D \in Int /\ k \in Int /\ l \in Int /\ g \in Int /\ x \in Int /\ z \in Int
      /\ a \in Int /\ c \in Int /\ q \in Int /\ r \in Int
  BY <1>2, <1>5, EqFaceConstants
<1>7. /\ Eq!N(d, p, y) = x + a /\ Eq!N(d, p, y - 1) = z + c
      /\ Eq!N(d, m, y) = x - a /\ Eq!N(d, m, y - 1) = z - c
  BY <1>1, <1>5 DEF EqNudged
<1>8. /\ Eq!Flux_n(d, p, y) = D * (k * (x + a) - l * (z + c)) - g * (((z + c) - q) - ((x + a) - r))
      /\ Eq!Flux_n(d, m, y) = D * (k * (x - a) - l * (z - c)) - g * (((z - c) - q) - ((x - a) - r))
  BY <1>4, <1>5, <1>7, Zenon DEF Eq!Flux_n, Eq!Jn, Eq!En
<1>9. EqIntoN(d, v, y) = D * k + g /\ EqFromN(d, v, y) = D * l + g
  BY <1>5, Zenon DEF EqIntoN, EqFromN
<1>10. Eq!Flux_n(d, p, y) - Eq!Flux_n(d, m, y)
         = 2 * (EqIntoN(d, v, y) * en[y] - EqFromN(d, v, y) * en[y - 1])
  <2>1. (D * (k * (x + a) - l * (z + c)) - g * (((z + c) - q) - ((x + a) - r)))
          - (D * (k * (x - a) - l * (z - c)) - g * (((z - c) - q) - ((x - a) - r)))
          = 2 * ((D * k + g) * a - (D * l + g) * c)
    BY <1>6, EqFluxPoly
  <2> QED BY <1>5, <1>8, <1>9, <2>1, Zenon
<1>15. PICK E, f, h, j, s, t, o, w, n, e :
        /\ E = d.Dp[y] /\ f = Eq!XipFace(d, v, y).neg /\ h = Eq!XipFace(d, v, y).plus
        /\ j = Eq!OfFace(d.interface_Gh, y - 1) /\ s = Eq!P(d, v, y) /\ t = Eq!P(d, v, y - 1)
        /\ o = ep[y] /\ w = ep[y - 1] /\ n = Eq!Peq(d, y - 1) /\ e = Eq!Peq(d, y)
  OBVIOUS
<1>16. /\ E \in Int /\ f \in Int /\ h \in Int /\ j \in Int /\ s \in Int /\ t \in Int
       /\ o \in Int /\ w \in Int /\ n \in Int /\ e \in Int
  BY <1>2, <1>15, EqFaceConstants
<1>17. /\ Eq!P(d, p, y) = s + o /\ Eq!P(d, p, y - 1) = t + w
       /\ Eq!P(d, m, y) = s - o /\ Eq!P(d, m, y - 1) = t - w
  BY <1>1, <1>15 DEF EqNudged
<1>18. /\ Eq!Flux_p(d, p, y) = E * (f * (t + w) - h * (s + o)) + j * (((t + w) - n) - ((s + o) - e))
       /\ Eq!Flux_p(d, m, y) = E * (f * (t - w) - h * (s - o)) + j * (((t - w) - n) - ((s - o) - e))
  BY <1>4, <1>15, <1>17, Zenon DEF Eq!Flux_p, Eq!Jp, Eq!Ep
<1>19. EqIntoP(d, v, y) = E * f + j /\ EqFromP(d, v, y) = E * h + j
  BY <1>15, Zenon DEF EqIntoP, EqFromP
<1>20. Eq!Flux_p(d, p, y) - Eq!Flux_p(d, m, y)
         = 2 * (EqIntoP(d, v, y) * ep[y - 1] - EqFromP(d, v, y) * ep[y])
  <2>1. (E * (f * (t + w) - h * (s + o)) + j * (((t + w) - n) - ((s + o) - e)))
          - (E * (f * (t - w) - h * (s - o)) + j * (((t - w) - n) - ((s - o) - e)))
          = 2 * ((E * f + j) * w - (E * h + j) * o)
    BY <1>16, EqFluxPoly
  <2> QED BY <1>15, <1>18, <1>19, <2>1, Zenon
<1> QED BY <1>10, <1>20

\* The Bernoulli functions on both sides of x.
LEMMA EqBernShift ==
  ASSUME Eq!BernNumeric, Eq!BernOfSecondDegree, NEW x \in Int, NEW t \in {-1, 0, 1}
  PROVE  /\ Eq!BdB(x - t).neg - Eq!BdB(x + t).neg = 2 * (t * Eq!BdB(x).dneg)
         /\ Eq!BdB(x - t).plus - Eq!BdB(x + t).plus = -(2 * (t * Eq!BdB(x).dplus))
<1>1. /\ x + 1 \in Int /\ x - 1 \in Int /\ -x \in Int /\ -x + 1 \in Int /\ -x - 1 \in Int
      /\ -(x - 1) = -x + 1 /\ -(x + 1) = -x - 1 /\ x - (-1) = x + 1 /\ x + (-1) = x - 1
      /\ x - 0 = x /\ x + 0 = x
  OBVIOUS
<1>2. /\ Bern(x) \in Int /\ dBern(x) \in Int /\ Bern(x + 1) \in Int /\ Bern(x - 1) \in Int
      /\ Bern(-x) \in Int /\ dBern(-x) \in Int /\ Bern(-x + 1) \in Int /\ Bern(-x - 1) \in Int
  BY <1>1, Zenon DEF Eq!BernNumeric
<1>3. Bern(x + 1) - Bern(x - 1) = 2 * dBern(x) /\ Bern(-x + 1) - Bern(-x - 1) = 2 * dBern(-x)
  BY <1>1, Zenon DEF Eq!BernOfSecondDegree
<1>4. PICK o, p, m, q, np, nm, e, f :
        /\ o = Bern(x) /\ p = Bern(x + 1) /\ m = Bern(x - 1) /\ q = Bern(-x)
        /\ np = Bern(-x + 1) /\ nm = Bern(-x - 1) /\ e = dBern(x) /\ f = dBern(-x)
  OBVIOUS
<1>5. /\ o \in Int /\ p \in Int /\ m \in Int /\ q \in Int /\ np \in Int /\ nm \in Int
      /\ e \in Int /\ f \in Int /\ p - m = 2 * e /\ np - nm = 2 * f
  BY <1>2, <1>3, <1>4
<1>6. Eq!BdB(x).dneg = f /\ Eq!BdB(x).dplus = e
  BY <1>4 DEF Eq!BdB
<1>7. CASE t = 1
  <2>1. /\ Eq!BdB(x - t).neg = np /\ Eq!BdB(x + t).neg = nm
        /\ Eq!BdB(x - t).plus = m /\ Eq!BdB(x + t).plus = p
    <3>1. /\ Eq!BdB(x - t).neg = Bern(-(x - 1)) /\ Eq!BdB(x + t).neg = Bern(-(x + 1))
          /\ Eq!BdB(x - t).plus = Bern(x - 1) /\ Eq!BdB(x + t).plus = Bern(x + 1)
      BY <1>7 DEF Eq!BdB
    <3> QED BY <1>1, <1>4, <3>1, Zenon
  <2> QED BY <1>5, <1>6, <1>7, <2>1
<1>8. CASE t = -1
  <2>1. /\ Eq!BdB(x - t).neg = nm /\ Eq!BdB(x + t).neg = np
        /\ Eq!BdB(x - t).plus = p /\ Eq!BdB(x + t).plus = m
    <3>1. x - t = x + 1 /\ x + t = x - 1
      BY <1>8
    <3>2. /\ Eq!BdB(x + 1).neg = Bern(-(x + 1)) /\ Eq!BdB(x - 1).neg = Bern(-(x - 1))
          /\ Eq!BdB(x + 1).plus = Bern(x + 1) /\ Eq!BdB(x - 1).plus = Bern(x - 1)
      BY DEF Eq!BdB
    <3> QED BY <1>1, <1>4, <3>1, <3>2, Zenon
  <2> QED BY <1>5, <1>6, <1>8, <2>1
<1>9. CASE t = 0
  <2>1. x - t = x /\ x + t = x
    BY <1>9
  <2>2. /\ Eq!BdB(x - t).neg = q /\ Eq!BdB(x + t).neg = q
        /\ Eq!BdB(x - t).plus = o /\ Eq!BdB(x + t).plus = o
    BY <1>4, <2>1 DEF Eq!BdB
  <2> QED BY <1>5, <1>6, <1>9, <2>2
<1> QED BY <1>7, <1>8, <1>9

\* The change of a flux with the potential, as numbers.
LEMMA EqShiftPoly ==
  ASSUME NEW D \in Int, NEW kp \in Int, NEW km \in Int, NEW lp \in Int, NEW lm \in Int,
         NEW x \in Int, NEW z \in Int, NEW t \in Int, NEW f \in Int, NEW e \in Int,
         kp - km = 2 * (t * f), lp - lm = -(2 * (t * e))
  PROVE  D * (kp * x - lp * z) - D * (km * x - lm * z) = 2 * (t * (D * (f * x + e * z)))
<1>1. D * (kp * x - lp * z) - D * (km * x - lm * z) = D * ((kp - km) * x - (lp - lm) * z)
  BY SMTT(30)
<1>2. D * ((kp - km) * x - (lp - lm) * z) = D * ((2 * (t * f)) * x - (-(2 * (t * e))) * z)
  BY Zenon
<1>3. D * ((2 * (t * f)) * x - (-(2 * (t * e))) * z) = 2 * (t * (D * (f * x + e * z)))
  BY SMTT(30)
<1> QED BY <1>1, <1>2, <1>3, Zenon

\* The fluxes when the potential changes.
LEMMA EqFluxShift ==
  ASSUME Eq!BernNumeric, Eq!BernOfSecondDegree,
         NEW d \in Eq!Meshed, NEW v \in Eq!Solution(d), NEW y \in 0 .. d.ylen,
         NEW p, NEW m, NEW en, NEW ep, NEW ef, EqNudged(d, v, p, m, en, ep, ef),
         en[y] = 0, en[y - 1] = 0, ep[y] = 0, ep[y - 1] = 0,
         NEW t \in {-1, 0, 1}, ef[y] - ef[y - 1] = t
  PROVE  /\ Eq!Flux_n(d, p, y) - Eq!Flux_n(d, m, y) = 2 * (t * EqSlopeN(d, v, y))
         /\ Eq!Flux_p(d, p, y) - Eq!Flux_p(d, m, y) = 2 * (t * EqSlopeP(d, v, y))
<1>1. y \in -1 .. d.ylen /\ y - 1 \in -1 .. d.ylen
  BY EqFaceConstants
<1>2. /\ Eq!Phi(d, v, y) \in Int /\ Eq!Phi(d, v, y - 1) \in Int
      /\ ef[y] \in Int /\ ef[y - 1] \in Int
      /\ Eq!Xi(d, y) \in Int /\ Eq!Xi(d, y - 1) \in Int
      /\ Eq!Eg(d, y) \in Int /\ Eq!Eg(d, y - 1) \in Int
      /\ Eq!N(d, v, y) \in Int /\ Eq!N(d, v, y - 1) \in Int
      /\ Eq!P(d, v, y) \in Int /\ Eq!P(d, v, y - 1) \in Int
  BY <1>1, EqNumbers DEF EqNudged
<1>3. /\ Eq!Phi(d, p, y) = Eq!Phi(d, v, y) + ef[y]
      /\ Eq!Phi(d, p, y - 1) = Eq!Phi(d, v, y - 1) + ef[y - 1]
      /\ Eq!Phi(d, m, y) = Eq!Phi(d, v, y) - ef[y]
      /\ Eq!Phi(d, m, y - 1) = Eq!Phi(d, v, y - 1) - ef[y - 1]
      /\ Eq!N(d, p, y) = Eq!N(d, v, y) + 0 /\ Eq!N(d, p, y - 1) = Eq!N(d, v, y - 1) + 0
      /\ Eq!N(d, m, y) = Eq!N(d, v, y) - 0 /\ Eq!N(d, m, y - 1) = Eq!N(d, v, y - 1) - 0
      /\ Eq!P(d, p, y) = Eq!P(d, v, y) + 0 /\ Eq!P(d, p, y - 1) = Eq!P(d, v, y - 1) + 0
      /\ Eq!P(d, m, y) = Eq!P(d, v, y) - 0 /\ Eq!P(d, m, y - 1) = Eq!P(d, v, y - 1) - 0
  BY <1>1 DEF EqNudged
<1>4. /\ Eq!N(d, p, y) = Eq!N(d, v, y) /\ Eq!N(d, p, y - 1) = Eq!N(d, v, y - 1)
      /\ Eq!N(d, m, y) = Eq!N(d, v, y) /\ Eq!N(d, m, y - 1) = Eq!N(d, v, y - 1)
      /\ Eq!P(d, p, y) = Eq!P(d, v, y) /\ Eq!P(d, p, y - 1) = Eq!P(d, v, y - 1)
      /\ Eq!P(d, m, y) = Eq!P(d, v, y) /\ Eq!P(d, m, y - 1) = Eq!P(d, v, y - 1)
  BY <1>2, <1>3
<1>5. PICK x, z : /\ x = Eq!Ec(d, v, y) - Eq!Ec(d, v, y - 1)
                  /\ z = Eq!Ev(d, v, y) - Eq!Ev(d, v, y - 1)
  OBVIOUS
<1>6. /\ x \in Int /\ z \in Int
      /\ Eq!Ec(d, p, y) - Eq!Ec(d, p, y - 1) = x - t
      /\ Eq!Ec(d, m, y) - Eq!Ec(d, m, y - 1) = x + t
      /\ Eq!Ev(d, p, y) - Eq!Ev(d, p, y - 1) = z - t
      /\ Eq!Ev(d, m, y) - Eq!Ev(d, m, y - 1) = z + t
  BY <1>2, <1>3, <1>5 DEF Eq!Ec, Eq!Ev
<1>7. /\ Eq!XiFace(d, v, y) = Eq!BdB(x) /\ Eq!XipFace(d, v, y) = Eq!BdB(z)
      /\ Eq!XiFace(d, p, y) = Eq!BdB(x - t) /\ Eq!XiFace(d, m, y) = Eq!BdB(x + t)
      /\ Eq!XipFace(d, p, y) = Eq!BdB(z - t) /\ Eq!XipFace(d, m, y) = Eq!BdB(z + t)
  BY <1>5, <1>6, Zenon DEF Eq!XiFace, Eq!XipFace
<1>8. /\ p \in Eq!Solution(d) /\ m \in Eq!Solution(d)
  BY DEF EqNudged
<1>9. /\ Eq!Neq(d, y) \in Int /\ Eq!Neq(d, y - 1) \in Int
      /\ Eq!Peq(d, y) \in Int /\ Eq!Peq(d, y - 1) \in Int
      /\ Eq!OfFace(d.interface_Ge, y - 1) \in Int /\ Eq!OfFace(d.interface_Gh, y - 1) \in Int
      /\ d.Dn[y] \in Int /\ d.Dp[y] \in Int
  BY EqFaceConstants
<1>10. PICK g, j : /\ g = Eq!OfFace(d.interface_Ge, y - 1) * (Eq!En(d, v, y - 1) - Eq!En(d, v, y))
                   /\ j = Eq!OfFace(d.interface_Gh, y - 1) * (Eq!Ep(d, v, y - 1) - Eq!Ep(d, v, y))
  OBVIOUS
<1>11. g \in Int /\ j \in Int
  BY <1>2, <1>9, <1>10 DEF Eq!En, Eq!Ep
<1>12. PICK D, k, l, kp, km, lp, lm, r, q :
         /\ D = d.Dn[y] /\ k = Eq!XiFace(d, v, y).dneg /\ l = Eq!XiFace(d, v, y).dplus
         /\ kp = Eq!XiFace(d, p, y).neg /\ km = Eq!XiFace(d, m, y).neg
         /\ lp = Eq!XiFace(d, p, y).plus /\ lm = Eq!XiFace(d, m, y).plus
         /\ r = Eq!N(d, v, y) /\ q = Eq!N(d, v, y - 1)
  OBVIOUS
<1>13. /\ D \in Int /\ k \in Int /\ l \in Int /\ kp \in Int /\ km \in Int /\ lp \in Int
       /\ lm \in Int /\ r \in Int /\ q \in Int
  BY <1>2, <1>8, <1>9, <1>12, EqFaceConstants
<1>14. kp - km = 2 * (t * k) /\ lp - lm = -(2 * (t * l))
  BY <1>6, <1>7, <1>12, EqBernShift
<1>15. Eq!Flux_n(d, p, y) = D * (kp * r - lp * q) - g /\ Eq!Flux_n(d, m, y) = D * (km * r - lm * q) - g
  BY <1>4, <1>10, <1>12, Zenon DEF Eq!Flux_n, Eq!Jn, Eq!En
<1>16. D * (kp * r - lp * q) - D * (km * r - lm * q) = 2 * (t * (D * (k * r + l * q)))
  BY <1>13, <1>14, EqShiftPoly
<1>17. Eq!Flux_n(d, p, y) - Eq!Flux_n(d, m, y) = 2 * (t * EqSlopeN(d, v, y))
  <2>1. D * (k * r + l * q) = EqSlopeN(d, v, y)
    BY <1>12, Zenon DEF EqSlopeN
  <2>2. (D * (kp * r - lp * q) - g) - (D * (km * r - lm * q) - g)
          = D * (kp * r - lp * q) - D * (km * r - lm * q)
    <3>1. \A c, e, f \in Int : (c - f) - (e - f) = c - e
      OBVIOUS
    <3>2. D * (kp * r - lp * q) \in Int /\ D * (km * r - lm * q) \in Int
      BY <1>13
    <3> QED BY <1>11, <3>1, <3>2, Zenon
  <2> QED BY <1>15, <1>16, <2>1, <2>2, Zenon
<1>22. PICK E, f, h, fp, fm, hp, hm, s, w :
         /\ E = d.Dp[y] /\ f = Eq!XipFace(d, v, y).dneg /\ h = Eq!XipFace(d, v, y).dplus
         /\ fp = Eq!XipFace(d, p, y).neg /\ fm = Eq!XipFace(d, m, y).neg
         /\ hp = Eq!XipFace(d, p, y).plus /\ hm = Eq!XipFace(d, m, y).plus
         /\ s = Eq!P(d, v, y) /\ w = Eq!P(d, v, y - 1)
  OBVIOUS
<1>23. /\ E \in Int /\ f \in Int /\ h \in Int /\ fp \in Int /\ fm \in Int /\ hp \in Int
       /\ hm \in Int /\ s \in Int /\ w \in Int
  BY <1>2, <1>8, <1>9, <1>22, EqFaceConstants
<1>24. fp - fm = 2 * (t * f) /\ hp - hm = -(2 * (t * h))
  BY <1>6, <1>7, <1>22, EqBernShift
<1>25. Eq!Flux_p(d, p, y) = E * (fp * w - hp * s) + j /\ Eq!Flux_p(d, m, y) = E * (fm * w - hm * s) + j
  BY <1>4, <1>10, <1>22, Zenon DEF Eq!Flux_p, Eq!Jp, Eq!Ep
<1>26. E * (fp * w - hp * s) - E * (fm * w - hm * s) = 2 * (t * (E * (f * w + h * s)))
  BY <1>23, <1>24, EqShiftPoly
<1>27. Eq!Flux_p(d, p, y) - Eq!Flux_p(d, m, y) = 2 * (t * EqSlopeP(d, v, y))
  <2>1. E * (f * w + h * s) = EqSlopeP(d, v, y)
    BY <1>22, Zenon DEF EqSlopeP
  <2>2. (E * (fp * w - hp * s) + j) - (E * (fm * w - hm * s) + j)
          = E * (fp * w - hp * s) - E * (fm * w - hm * s)
    <3>1. \A c, e, o \in Int : (c + o) - (e + o) = c - e
      OBVIOUS
    <3>2. E * (fp * w - hp * s) \in Int /\ E * (fm * w - hm * s) \in Int
      BY <1>23
    <3> QED BY <1>11, <3>1, <3>2, Zenon
  <2> QED BY <1>25, <1>26, <2>1, <2>2, Zenon
<1> QED BY <1>17, <1>27

\* A mesh point's own numbers.
LEMMA EqHere ==
  ASSUME NEW d \in Eq!Meshed, NEW v, NEW y \in Eq!Points(d)
  PROVE  Eq!N(d, v, y) = v.n[y] /\ Eq!P(d, v, y) = v.p[y] /\ Eq!Phi(d, v, y) = v.phi[y]
<1>1. ~(y < 0) /\ y # d.ylen
  BY EqDevice DEF Eq!Points
<1> QED BY <1>1 DEF Eq!N, Eq!P, Eq!Phi, Eq!At

\* The rates of capture by all levels of a kind, of their own carrier and the other.
EqRate1(d, t) == [k \in Eq!Bands(d) |-> Eq!Rates(d.Nt, t[k]).r1]
EqRate3(d, t) == [k \in Eq!Bands(d) |-> Eq!Rates(d.Nt, t[k]).r3]
EqTake1(d, t, on) == IF on THEN EqTotal(EqRate1(d, t)) ELSE 0
EqTake3(d, t, on) == IF on THEN EqTotal(EqRate3(d, t)) ELSE 0

\* Rates and sums of them are numbers.
LEMMA EqRateType ==
  ASSUME NEW d \in Eq!Meshed, NEW t \in [Eq!Bands(d) -> Int], NEW on
  PROVE  /\ EqRate1(d, t) \in [Eq!Bands(d) -> Int] /\ EqRate3(d, t) \in [Eq!Bands(d) -> Int]
         /\ EqTotal(EqRate1(d, t)) = SumFunctionOnSet(EqRate1(d, t), Eq!Bands(d))
         /\ EqTotal(EqRate3(d, t)) = SumFunctionOnSet(EqRate3(d, t), Eq!Bands(d))
         /\ EqTake1(d, t, on) \in Int /\ EqTake3(d, t, on) \in Int
         /\ IsFiniteSet(Eq!Bands(d))
<1>1. IsFiniteSet(Eq!Bands(d)) /\ d.Nt \in Int /\ Eq!Bands(d) \in SUBSET Eq!Bands(d)
  BY EqDevice, FS_Interval DEF Eq!Bands
<1>2. \A k \in Eq!Bands(d) : Eq!Rates(d.Nt, t[k]).r1 \in Int /\ Eq!Rates(d.Nt, t[k]).r3 \in Int
  BY <1>1 DEF Eq!Rates
<1>3. EqRate1(d, t) \in [Eq!Bands(d) -> Int] /\ EqRate3(d, t) \in [Eq!Bands(d) -> Int]
  BY <1>2 DEF EqRate1, EqRate3
<1>4. /\ EqTotal(EqRate1(d, t)) = SumFunctionOnSet(EqRate1(d, t), Eq!Bands(d))
      /\ EqTotal(EqRate3(d, t)) = SumFunctionOnSet(EqRate3(d, t), Eq!Bands(d))
  BY <1>3 DEF EqTotal
<1>5. /\ SumFunctionOnSet(EqRate1(d, t), Eq!Bands(d)) \in Int
      /\ SumFunctionOnSet(EqRate3(d, t), Eq!Bands(d)) \in Int
  BY <1>1, <1>3, SumSplit
<1>6. EqTake1(d, t, on) \in Int /\ EqTake3(d, t, on) \in Int
  BY <1>4, <1>5 DEF EqTake1, EqTake3
<1> QED BY <1>1, <1>3, <1>4, <1>6

\* f is g and a times r
EqShifted(f, g, a, r, S) == \A k \in S : f[k] = g[k] + a * r[k]

\* A sum that changes by a multiple of another.
LEMMA EqSumShift ==
  ASSUME NEW S, IsFiniteSet(S), NEW f \in [S -> Int], NEW g \in [S -> Int], NEW r \in [S -> Int],
         NEW a \in Int, EqShifted(f, g, a, r, S)
  PROVE  SumFunctionOnSet(f, S) - SumFunctionOnSet(g, S) = a * SumFunctionOnSet(r, S)
<1>1. Combines(f, S, 1, g, a, r, 0, r)
  <2>1. \A k \in S : f[k] = 1 * g[k] + a * r[k] + 0 * r[k]
    <3> TAKE k \in S
    <3>1. f[k] = g[k] + a * r[k] /\ g[k] \in Int /\ r[k] \in Int
      BY DEF EqShifted
    <3>2. \A p, q \in Int : p + q = 1 * p + q + 0 /\ 0 * p = 0 /\ p * q \in Int
      BY SMT
    <3>3. 0 * r[k] = 0 /\ g[k] + a * r[k] = 1 * g[k] + a * r[k] + 0
      BY <3>1, <3>2
    <3> QED BY <3>1, <3>3, Zenon
  <2> QED BY <2>1, Zenon DEF Combines
<1>2. SumFunctionOnSet(f, S) = 1 * SumFunctionOnSet(g, S) + a * SumFunctionOnSet(r, S)
                                 + 0 * SumFunctionOnSet(r, S)
  BY <1>1, SumLinear
<1>3. PICK x, y, z : /\ x = SumFunctionOnSet(f, S) /\ y = SumFunctionOnSet(g, S)
                     /\ z = SumFunctionOnSet(r, S)
  OBVIOUS
<1>4. x \in Int /\ y \in Int /\ z \in Int
  BY <1>3, SumSplit
<1>5. x = 1 * y + a * z + 0 * z
  BY <1>2, <1>3, Zenon
<1>6. x - y = a * z
  BY <1>4, <1>5
<1> QED BY <1>3, <1>6, Zenon

\* net capture of c by the levels t, of their own carrier and of the other
EqCapturedOwn(d, t, c, on) == Eq!Captured(Eq!Own, t, d.Nt, c, on, d)
EqCapturedOther(d, t, c, on) == Eq!Captured(Eq!Other, t, d.Nt, c, on, d)

\* it changes with c by as much as the levels have rates for
EqCaptures(d, t, on, c, a) ==
  /\ EqCapturedOwn(d, t, c + a, on) - EqCapturedOwn(d, t, c - a, on) = 2 * (a * EqTake1(d, t, on))
  /\ EqCapturedOther(d, t, c + a, on) - EqCapturedOther(d, t, c - a, on)
       = 2 * (a * EqTake3(d, t, on))
  /\ EqCapturedOwn(d, t, c + a, on) \in Int /\ EqCapturedOwn(d, t, c - a, on) \in Int
  /\ EqCapturedOther(d, t, c + a, on) \in Int /\ EqCapturedOther(d, t, c - a, on) \in Int

\* What the levels capture when their carriers change.
LEMMA EqCaptureChange ==
  ASSUME NEW d \in Eq!Meshed, NEW t \in [Eq!Bands(d) -> Int], NEW on \in BOOLEAN,
         NEW c \in Int, NEW a \in Int
  PROVE  EqCaptures(d, t, on, c, a)
<1>1. CASE ~on
  BY <1>1 DEF EqCaptures, EqCapturedOwn, EqCapturedOther, Eq!Captured, EqTake1, EqTake3
<1>2. CASE on
  <2>1. PICK S : S = Eq!Bands(d)
    OBVIOUS
  <2>2. IsFiniteSet(S) /\ d.Nt \in Int /\ S \in SUBSET S
    BY <2>1, EqRateType, EqDevice
  <2>3. PICK f, g, r :
          /\ f = [k \in Eq!Bands(d) |-> Eq!Own(Eq!Rates(d.Nt, t[k]), c + a)]
          /\ g = [k \in Eq!Bands(d) |-> Eq!Own(Eq!Rates(d.Nt, t[k]), c - a)]
          /\ r = EqRate1(d, t)
    OBVIOUS
  <2>4. PICK p, q, w :
          /\ p = [k \in Eq!Bands(d) |-> Eq!Other(Eq!Rates(d.Nt, t[k]), c + a)]
          /\ q = [k \in Eq!Bands(d) |-> Eq!Other(Eq!Rates(d.Nt, t[k]), c - a)]
          /\ w = EqRate3(d, t)
    OBVIOUS
  <2>5. \A k \in S : /\ f[k] = (c + a) * (2 * (d.Nt - t[k])) - t[k]
                     /\ g[k] = (c - a) * (2 * (d.Nt - t[k])) - t[k]
                     /\ r[k] = 2 * (d.Nt - t[k])
                     /\ p[k] = (c + a) * (3 * t[k]) - (d.Nt - t[k])
                     /\ q[k] = (c - a) * (3 * t[k]) - (d.Nt - t[k])
                     /\ w[k] = 3 * t[k]
    BY <2>1, <2>3, <2>4 DEF Eq!Own, Eq!Other, Eq!Rates, EqRate1, EqRate3
  <2>6. \A l, x, e, o \in Int :
          /\ (e + o) * (2 * (l - x)) - x = ((e - o) * (2 * (l - x)) - x) + (2 * o) * (2 * (l - x))
          /\ (e + o) * (3 * x) - (l - x) = ((e - o) * (3 * x) - (l - x)) + (2 * o) * (3 * x)
          /\ (e + o) * (2 * (l - x)) - x \in Int /\ (e - o) * (2 * (l - x)) - x \in Int
          /\ (e + o) * (3 * x) - (l - x) \in Int /\ (e - o) * (3 * x) - (l - x) \in Int
          /\ 2 * (l - x) \in Int /\ 3 * x \in Int
    BY SMTT(30)
  <2>7. \A k \in S : t[k] \in Int
    BY <2>1
  <2>8. \A k \in S : /\ f[k] \in Int /\ g[k] \in Int /\ r[k] \in Int
                     /\ p[k] \in Int /\ q[k] \in Int /\ w[k] \in Int
                     /\ f[k] = g[k] + (2 * a) * r[k] /\ p[k] = q[k] + (2 * a) * w[k]
    <3> TAKE k \in S
    <3>1. PICK x, l : x = t[k] /\ l = d.Nt
      OBVIOUS
    <3>2. x \in Int /\ l \in Int
      BY <2>2, <2>7, <3>1
    <3>3. /\ f[k] = (c + a) * (2 * (l - x)) - x /\ g[k] = (c - a) * (2 * (l - x)) - x
          /\ r[k] = 2 * (l - x) /\ w[k] = 3 * x
          /\ p[k] = (c + a) * (3 * x) - (l - x) /\ q[k] = (c - a) * (3 * x) - (l - x)
      BY <2>5, <3>1, Zenon
    <3>4. /\ (c + a) * (2 * (l - x)) - x = ((c - a) * (2 * (l - x)) - x) + (2 * a) * (2 * (l - x))
          /\ (c + a) * (3 * x) - (l - x) = ((c - a) * (3 * x) - (l - x)) + (2 * a) * (3 * x)
          /\ (c + a) * (2 * (l - x)) - x \in Int /\ (c - a) * (2 * (l - x)) - x \in Int
          /\ (c + a) * (3 * x) - (l - x) \in Int /\ (c - a) * (3 * x) - (l - x) \in Int
          /\ 2 * (l - x) \in Int /\ 3 * x \in Int
      BY <2>6, <3>2
    <3> QED BY <3>3, <3>4, Zenon
  <2>9. /\ f \in [S -> Int] /\ g \in [S -> Int] /\ r \in [S -> Int]
        /\ p \in [S -> Int] /\ q \in [S -> Int] /\ w \in [S -> Int]
    BY <2>1, <2>3, <2>4, <2>8 DEF EqRate1, EqRate3
  <2>10. 2 * a \in Int /\ EqShifted(f, g, 2 * a, r, S) /\ EqShifted(p, q, 2 * a, w, S)
    BY <2>8 DEF EqShifted
  <2>11. /\ SumFunctionOnSet(f, S) - SumFunctionOnSet(g, S) = (2 * a) * SumFunctionOnSet(r, S)
         /\ SumFunctionOnSet(p, S) - SumFunctionOnSet(q, S) = (2 * a) * SumFunctionOnSet(w, S)
    BY <2>2, <2>9, <2>10, EqSumShift
  <2>12. /\ SumFunctionOnSet(f, S) \in Int /\ SumFunctionOnSet(g, S) \in Int
         /\ SumFunctionOnSet(p, S) \in Int /\ SumFunctionOnSet(q, S) \in Int
         /\ SumFunctionOnSet(r, S) \in Int /\ SumFunctionOnSet(w, S) \in Int
    BY <2>2, <2>9, SumSplit
  <2>13. \A x \in Int : (2 * a) * x = 2 * (a * x)
    BY SMT
  <2>14. /\ EqCapturedOwn(d, t, c + a, on) = SumFunctionOnSet(f, S)
         /\ EqCapturedOwn(d, t, c - a, on) = SumFunctionOnSet(g, S)
         /\ EqCapturedOther(d, t, c + a, on) = SumFunctionOnSet(p, S)
         /\ EqCapturedOther(d, t, c - a, on) = SumFunctionOnSet(q, S)
    BY <1>2, <2>1, <2>3, <2>4, EqSum, Zenon DEF EqCapturedOwn, EqCapturedOther, Eq!Captured
  <2>15. /\ EqTake1(d, t, on) = SumFunctionOnSet(r, S) /\ EqTake3(d, t, on) = SumFunctionOnSet(w, S)
    BY <1>2, <2>1, <2>3, <2>4, EqRateType, Zenon DEF EqTake1, EqTake3
  <2> QED BY <2>11, <2>12, <2>13, <2>14, <2>15, Zenon DEF EqCaptures
<1> QED BY <1>1, <1>2

\* f is a times r
EqScaled(f, a, r, S) == \A k \in S : f[k] = a * r[k]

\* A sum of multiples.
LEMMA EqSumScale ==
  ASSUME NEW S, IsFiniteSet(S), NEW f \in [S -> Int], NEW r \in [S -> Int],
         NEW a \in Int, EqScaled(f, a, r, S)
  PROVE  SumFunctionOnSet(f, S) = a * SumFunctionOnSet(r, S)
<1>1. \A p, q \in Int : p * q = 0 * q + p * q + 0 * q
  BY SMT
<1>2. Combines(f, S, 0, r, a, r, 0, r)
  <2>1. \A k \in S : f[k] = 0 * r[k] + a * r[k] + 0 * r[k]
    BY <1>1, Zenon DEF EqScaled
  <2> QED BY <2>1, Zenon DEF Combines
<1>3. SumFunctionOnSet(f, S) = 0 * SumFunctionOnSet(r, S) + a * SumFunctionOnSet(r, S)
                                 + 0 * SumFunctionOnSet(r, S)
  BY <1>2, SumLinear
<1>4. SumFunctionOnSet(r, S) \in Int
  BY SumSplit
<1> QED BY <1>1, <1>3, <1>4, Zenon

EqLevelsOf(d, t, dt, last, own, other, down, dother, dphi) ==
  [k \in Eq!Bands(d) |->
    Eq!Level(d.Nt, t[k], dt, last, own, other, down, dother, dphi, d.go_time)]

\* What a point's rows get for its levels.
LEMMA EqLevelSlopes ==
  ASSUME NEW d \in Eq!Meshed, NEW t \in [Eq!Bands(d) -> Int], NEW dt \in Int, NEW last \in Int,
         NEW own \in Int, NEW other \in Int, NEW down \in Int, NEW dother \in Int, NEW dphi,
         NEW L, L = EqLevelsOf(d, t, dt, last, own, other, down, dother, dphi)
  PROVE  /\ EqTotal(EqByOwn(L)) = down * EqTotal(EqRate1(d, t))
         /\ EqTotal(EqByOther(L)) = (-dother) * EqTotal(EqRate3(d, t))
<1>1. PICK S : S = Eq!Bands(d)
  OBVIOUS
<1>2. PICK f, g : f = EqByOwn(L) /\ g = EqByOther(L)
  OBVIOUS
<1>3. PICK r, w : r = EqRate1(d, t) /\ w = EqRate3(d, t)
  OBVIOUS
<1>4. /\ IsFiniteSet(S) /\ r \in [S -> Int] /\ w \in [S -> Int] /\ S \in SUBSET S
      /\ EqTotal(r) = SumFunctionOnSet(r, S) /\ EqTotal(w) = SumFunctionOnSet(w, S)
  BY <1>1, <1>3, EqRateType
<1>5. DOMAIN f = S /\ DOMAIN g = S /\ f = [k \in S |-> f[k]] /\ g = [k \in S |-> g[k]]
  BY <1>1, <1>2 DEF EqByOwn, EqByOther, EqLevelsOf
<1>7. \A p, q \in Int : p * q \in Int /\ -p \in Int /\ -p * q = (-p) * q
  BY SMT
<1>6. \A k \in S : f[k] = down * r[k] /\ g[k] = (-dother) * w[k]
  <2> TAKE k \in S
  <2>1. /\ L[k].dtrap_own = down * Eq!Rates(d.Nt, t[k]).r1
        /\ L[k].dtrap_other = -dother * Eq!Rates(d.Nt, t[k]).r3
    BY <1>1 DEF EqLevelsOf, Eq!Level
  <2>2. f[k] = L[k].dtrap_own /\ g[k] = L[k].dtrap_other
    BY <1>1, <1>2 DEF EqByOwn, EqByOther, EqLevelsOf
  <2>3. r[k] = Eq!Rates(d.Nt, t[k]).r1 /\ w[k] = Eq!Rates(d.Nt, t[k]).r3
    BY <1>1, <1>3 DEF EqRate1, EqRate3
  <2>4. f[k] = down * r[k] /\ g[k] = -dother * w[k]
    BY <2>1, <2>2, <2>3, Zenon
  <2>5. w[k] \in Int
    BY <1>4
  <2> QED BY <1>7, <2>4, <2>5, Zenon
<1>8. \A k \in S : f[k] \in Int /\ g[k] \in Int
  <2> TAKE k \in S
  <2>1. r[k] \in Int /\ w[k] \in Int /\ -dother \in Int
    BY <1>4
  <2>2. down * r[k] \in Int /\ (-dother) * w[k] \in Int
    BY <1>7, <2>1
  <2>3. f[k] = down * r[k] /\ g[k] = (-dother) * w[k]
    BY <1>6
  <2> QED BY <2>2, <2>3, Zenon
<1>9. f \in [S -> Int] /\ g \in [S -> Int] /\ -dother \in Int
  BY <1>5, <1>8
<1>10. EqScaled(f, down, r, S) /\ EqScaled(g, -dother, w, S)
  BY <1>6, Zenon DEF EqScaled
<1>11. /\ SumFunctionOnSet(f, S) = down * SumFunctionOnSet(r, S)
       /\ SumFunctionOnSet(g, S) = (-dother) * SumFunctionOnSet(w, S)
  BY <1>4, <1>9, <1>10, EqSumScale
<1> QED BY <1>2, <1>3, <1>4, <1>5, <1>11, Zenon DEF EqTotal

\* The derivatives of a point's levels sum to these rates.
LEMMA EqTrapSlopes ==
  ASSUME NEW d \in Eq!Meshed, NEW v \in Eq!Solution(d), NEW y \in Eq!Points(d)
  PROVE  /\ EqTotal(EqByOwn(EqTrapsN(d, v, y))) = d.dn[y] * EqTake1(d, v.nt[y], d.ntrapnewton)
         /\ EqTotal(EqByOther(EqTrapsN(d, v, y))) = (-d.dp[y]) * EqTake3(d, v.nt[y], d.ntrapnewton)
         /\ EqTotal(EqByOwn(EqTrapsP(d, v, y))) = d.dp[y] * EqTake1(d, v.pt[y], d.ptrapnewton)
         /\ EqTotal(EqByOther(EqTrapsP(d, v, y))) = (-d.dn[y]) * EqTake3(d, v.pt[y], d.ptrapnewton)
<1>1. PICK nt, pt : nt = v.nt[y] /\ pt = v.pt[y]
  OBVIOUS
<1>2. nt \in [Eq!Bands(d) -> Int] /\ pt \in [Eq!Bands(d) -> Int]
  BY <1>1, EqProfile
<1>3. /\ d.dn[y] \in Int /\ d.dp[y] \in Int /\ v.n[y] \in Int /\ v.p[y] \in Int
      /\ d.dnt \in Int /\ d.dpt \in Int /\ d.ntlast \in Int /\ d.ptlast \in Int
      /\ d.ntrapnewton \in BOOLEAN /\ d.ptrapnewton \in BOOLEAN
  BY EqProfile, EqDevice
<1>4. /\ EqTotal(EqByOwn(EqLevelsN(d, v, y))) = d.dn[y] * EqTotal(EqRate1(d, nt))
      /\ EqTotal(EqByOther(EqLevelsN(d, v, y))) = (-d.dp[y]) * EqTotal(EqRate3(d, nt))
  <2>1. EqLevelsN(d, v, y) = EqLevelsOf(d, nt, d.dnt, d.ntlast, v.n[y], v.p[y], d.dn[y], d.dp[y], d.dnt)
    BY <1>1, Zenon DEF EqLevelsN, EqLevelsOf
  <2> QED BY <1>2, <1>3, <2>1, EqLevelSlopes
<1>5. /\ EqTotal(EqByOwn(EqLevelsP(d, v, y))) = d.dp[y] * EqTotal(EqRate1(d, pt))
      /\ EqTotal(EqByOther(EqLevelsP(d, v, y))) = (-d.dn[y]) * EqTotal(EqRate3(d, pt))
  <2>1. EqLevelsP(d, v, y) = EqLevelsOf(d, pt, d.dpt, d.ptlast, v.p[y], v.n[y], d.dp[y], d.dn[y], -d.dpt)
    BY <1>1, Zenon DEF EqLevelsP, EqLevelsOf
  <2> QED BY <1>2, <1>3, <2>1, EqLevelSlopes
<1>6. EqTotal(EqByOwn(<<>>)) = 0 /\ EqTotal(EqByOther(<<>>)) = 0
  <2>1. DOMAIN EqByOwn(<<>>) = {} /\ DOMAIN EqByOther(<<>>) = {}
    BY DEF EqByOwn, EqByOther
  <2> QED BY <2>1, SumEmpty DEF EqTotal
<1>7. \A x \in Int : x * 0 = 0 /\ (-x) * 0 = 0
  BY SMT
<1>8. /\ EqTotal(EqByOwn(EqTrapsN(d, v, y))) = d.dn[y] * EqTake1(d, nt, d.ntrapnewton)
      /\ EqTotal(EqByOther(EqTrapsN(d, v, y))) = (-d.dp[y]) * EqTake3(d, nt, d.ntrapnewton)
  <2>1. CASE d.ntrapnewton
    BY <1>4, <2>1, Zenon DEF EqTrapsN, EqTake1, EqTake3
  <2>2. CASE ~d.ntrapnewton
    BY <1>3, <1>6, <1>7, <2>2, Zenon DEF EqTrapsN, EqTake1, EqTake3
  <2> QED BY <2>1, <2>2
<1>9. /\ EqTotal(EqByOwn(EqTrapsP(d, v, y))) = d.dp[y] * EqTake1(d, pt, d.ptrapnewton)
      /\ EqTotal(EqByOther(EqTrapsP(d, v, y))) = (-d.dn[y]) * EqTake3(d, pt, d.ptrapnewton)
  <2>1. CASE d.ptrapnewton
    BY <1>5, <2>1, Zenon DEF EqTrapsP, EqTake1, EqTake3
  <2>2. CASE ~d.ptrapnewton
    BY <1>3, <1>6, <1>7, <2>2, Zenon DEF EqTrapsP, EqTake1, EqTake3
  <2> QED BY <2>1, <2>2
<1> QED BY <1>1, <1>8, <1>9, Zenon

-----------------------------------------------------------------------------

\* Recombination when one kind of carriers changes, of second degree in each.
LEMMA EqCommonPoly ==
  \A B, E, H, n, q, e, a \in Int :
    /\ (B + (E * (n + a) + H * q) + 0) * ((n + a) * q - e)
         - (B + (E * (n - a) + H * q) + 0) * ((n - a) * q - e)
         = 2 * (a * (B * q + E * (n * q - e) + (E * n + H * q) * q))
    /\ (B + (E * q + H * (n + a)) + 0) * (q * (n + a) - e)
         - (B + (E * q + H * (n - a)) + 0) * (q * (n - a) - e)
         = 2 * (a * (B * q + H * (q * n - e) + (E * q + H * n) * q))
    /\ (B + (E * (n + a) + H * q) + 0) * ((n + a) * q - e) \in Int
    /\ (B + (E * q + H * (n + a)) + 0) * (q * (n + a) - e) \in Int
BY SMTT(60)

\* the derivatives of it by the two
EqByN(d, v, y) ==
  d.B * v.p[y] + d.Cn * Eq!Pairs(d, v, y, y) + Eq!Augers(d, v, y) * v.p[y]
EqByP(d, v, y) ==
  d.B * v.n[y] + d.Cp * Eq!Pairs(d, v, y, y) + Eq!Augers(d, v, y) * v.n[y]

\* They are numbers.
LEMMA EqByType ==
  ASSUME NEW d \in Eq!Meshed, NEW v \in Eq!Solution(d), NEW y \in Eq!Points(d)
  PROVE  EqByN(d, v, y) \in Int /\ EqByP(d, v, y) \in Int
<1>1. \A p, q \in Int : p * q \in Int /\ p + q \in Int
  BY SMT
<1>2. /\ d.B \in Int /\ d.Cn \in Int /\ d.Cp \in Int /\ v.n[y] \in Int /\ v.p[y] \in Int
  BY EqDevice, EqProfile
<1>3. Eq!Pairs(d, v, y, y) \in Int
  BY EqAround, EqPairsInt
<1>4. Eq!Augers(d, v, y) \in Int
  BY <1>1, <1>2, Zenon DEF Eq!Augers
<1> QED BY <1>1, <1>2, <1>3, <1>4, Zenon DEF EqByN, EqByP

\* A move of one carrier changes the shared rates by these.
LEMMA EqCommonChange ==
  ASSUME NEW d \in Eq!Meshed, NEW v \in Eq!Solution(d), NEW y \in Eq!Points(d), ~d.ss_srh[y],
         NEW p, NEW m, NEW en, NEW ep, NEW ef, EqNudged(d, v, p, m, en, ep, ef),
         en[y] = 0 \/ ep[y] = 0
  PROVE  Eq!Common(d, p, y) - Eq!Common(d, m, y)
           = 2 * (en[y] * EqByN(d, v, y) + ep[y] * EqByP(d, v, y))
<1>1. y \in -1 .. d.ylen
  BY EqAround
<1>2. PICK B, E, H, n, q, e, a, c :
        /\ B = d.B /\ E = d.Cn /\ H = d.Cp /\ n = v.n[y] /\ q = v.p[y]
        /\ e = Eq!Neq(d, y) * Eq!Peq(d, y) /\ a = en[y] /\ c = ep[y]
  OBVIOUS
<1>3. /\ B \in Int /\ E \in Int /\ H \in Int /\ n \in Int /\ q \in Int /\ e \in Int
      /\ a \in Int /\ c \in Int
  <2>1. Eq!Neq(d, y) \in Int /\ Eq!Peq(d, y) \in Int
    BY <1>1, EqNumbers
  <2>2. e \in Int
    BY <1>2, <2>1
  <2>3. a \in Int /\ c \in Int
    BY <1>1, <1>2 DEF EqNudged
  <2>4. /\ B \in Int /\ E \in Int /\ H \in Int /\ n \in Int /\ q \in Int
    BY <1>2, EqDevice, EqProfile
  <2> QED BY <2>2, <2>3, <2>4
<1>4. /\ p.n[y] = n + a /\ m.n[y] = n - a /\ p.p[y] = q + c /\ m.p[y] = q - c
      /\ Eq!N(d, p, y) = n + a /\ Eq!N(d, m, y) = n - a
      /\ Eq!P(d, p, y) = q + c /\ Eq!P(d, m, y) = q - c
  BY <1>1, <1>2, EqHere DEF EqNudged
<1>5. /\ Eq!Common(d, p, y) = (B + (E * (n + a) + H * (q + c)) + 0) * ((n + a) * (q + c) - e)
      /\ Eq!Common(d, m, y) = (B + (E * (n - a) + H * (q - c)) + 0) * ((n - a) * (q - c) - e)
  BY <1>2, <1>4, Zenon DEF Eq!Common, Eq!Augers, Eq!Pairs
<1>6. /\ EqByN(d, v, y) = B * q + E * (n * q - e) + (E * n + H * q) * q
      /\ EqByP(d, v, y) = B * n + H * (n * q - e) + (E * n + H * q) * n
  BY <1>2, EqHere, Zenon DEF EqByN, EqByP, Eq!Augers, Eq!Pairs
<1>7. CASE c = 0
  <2>1. q + c = q /\ q - c = q
    BY <1>3, <1>7
  <2>2. Eq!Common(d, p, y) - Eq!Common(d, m, y)
          = 2 * (a * (B * q + E * (n * q - e) + (E * n + H * q) * q))
    <3>1. (B + (E * (n + a) + H * q) + 0) * ((n + a) * q - e)
            - (B + (E * (n - a) + H * q) + 0) * ((n - a) * q - e)
            = 2 * (a * (B * q + E * (n * q - e) + (E * n + H * q) * q))
      BY <1>3, EqCommonPoly
    <3> QED BY <1>5, <2>1, <3>1, Zenon
  <2>3. PICK k, l : k = EqByN(d, v, y) /\ l = EqByP(d, v, y)
    OBVIOUS
  <2>4. k \in Int /\ l \in Int
    BY <2>3, EqByType
  <2>5. a * k = a * k + c * l
    BY <1>3, <1>7, <2>4
  <2>6. Eq!Common(d, p, y) - Eq!Common(d, m, y) = 2 * (a * k)
    BY <1>6, <2>2, <2>3, Zenon
  <2> QED BY <1>2, <2>3, <2>5, <2>6, Zenon
<1>8. CASE a = 0
  <2>1. n + a = n /\ n - a = n
    BY <1>3, <1>8
  <2>2. Eq!Common(d, p, y) - Eq!Common(d, m, y)
          = 2 * (c * (B * n + H * (n * q - e) + (E * n + H * q) * n))
    <3>1. (B + (E * n + H * (q + c)) + 0) * (n * (q + c) - e)
            - (B + (E * n + H * (q - c)) + 0) * (n * (q - c) - e)
            = 2 * (c * (B * n + H * (n * q - e) + (E * n + H * q) * n))
      BY <1>3, EqCommonPoly
    <3> QED BY <1>5, <2>1, <3>1, Zenon
  <2>3. PICK k, l : k = EqByN(d, v, y) /\ l = EqByP(d, v, y)
    OBVIOUS
  <2>4. k \in Int /\ l \in Int
    BY <2>3, EqByType
  <2>5. c * l = a * k + c * l
    BY <1>3, <1>8, <2>4
  <2>6. Eq!Common(d, p, y) - Eq!Common(d, m, y) = 2 * (c * l)
    BY <1>6, <2>2, <2>3, Zenon
  <2> QED BY <1>2, <2>3, <2>5, <2>6, Zenon
<1> QED BY <1>2, <1>7, <1>8

\* No recombination without derivatives.
EqDerived(d) ==
  \A y \in Eq!Points(d) : d.interface_Gh[y] = 0 /\ d.interface_B[y] = 0 /\ ~d.ss_srh[y]

\* c, o and w are what recombines, change by 2x, 2q and 2r; s of n is stored.
LEMMA EqLocalPoly ==
  ASSUME NEW cp \in Int, NEW cm \in Int, NEW x \in Int, cp - cm = 2 * x,
         NEW op \in Int, NEW om \in Int, NEW q \in Int, op - om = 2 * q,
         NEW wp \in Int, NEW wm \in Int, NEW r \in Int, wp - wm = 2 * r,
         NEW s \in Int, NEW n \in Int, NEW a \in Int, NEW l \in Int, NEW g \in Int
  PROVE  /\ (cp + op + wp + 0 + s * ((n + a) - l) - g) - (cm + om + wm + 0 + s * ((n - a) - l) - g)
              = 2 * (x + q + r + s * a)
         /\ cp + op + wp + 0 + s * ((n + a) - l) - g \in Int
         /\ cm + om + wm + 0 + s * ((n - a) - l) - g \in Int
<1>1. s * ((n + a) - l) - s * ((n - a) - l) = 2 * (s * a)
  BY SMTT(30)
<1>2. s * ((n + a) - l) \in Int /\ s * ((n - a) - l) \in Int /\ s * a \in Int
  BY SMT
<1> QED BY <1>1, <1>2

\* The change of a residual from those of its terms, as numbers.
LEMMA EqBalancePolys ==
  ASSUME NEW fp \in Int, NEW fm \in Int, NEW J \in Int, fp - fm = 2 * J,
         NEW kp \in Int, NEW km \in Int, NEW K \in Int, kp - km = 2 * K,
         NEW h \in Int, NEW lp \in Int, NEW lm \in Int, NEW x \in Int, lp - lm = 2 * x
  PROVE  /\ (kp - fp - h * lp) - (km - fm - h * lm) = 2 * (K - J - h * x)
         /\ (kp - fp + h * lp) - (km - fm + h * lm) = 2 * (K - J + h * x)
<1>1. h * lp - h * lm = 2 * (h * x)
  <2>1. h * lp - h * lm = h * (lp - lm)
    BY SMT
  <2>2. h * (2 * x) = 2 * (h * x)
    BY SMT
  <2> QED BY <2>1, <2>2
<1>2. h * lp \in Int /\ h * lm \in Int /\ h * x \in Int
  BY SMT
<1> QED BY <1>1, <1>2

\* What changes of the carriers at y change of what recombines and is stored there.
EqLossN(d, v, y, en, ep) ==
  (en[y] * EqByN(d, v, y) + ep[y] * EqByP(d, v, y)) + en[y] * EqTake1(d, v.nt[y], d.ntrapnewton)
    + en[y] * EqTake3(d, v.pt[y], d.ptrapnewton) + Eq!Step(d) * en[y]
EqLossP(d, v, y, en, ep) ==
  (en[y] * EqByN(d, v, y) + ep[y] * EqByP(d, v, y)) + ep[y] * EqTake3(d, v.nt[y], d.ntrapnewton)
    + ep[y] * EqTake1(d, v.pt[y], d.ptrapnewton) + Eq!Step(d) * ep[y]

\* The change of the residuals with that of the fluxes.
LEMMA EqResidualChange ==
  ASSUME Eq!BernNumeric, NEW d \in Eq!Meshed, EqDerived(d), NEW v \in Eq!Solution(d),
         NEW y \in Eq!Points(d),
         NEW p, NEW m, NEW en, NEW ep, NEW ef, EqNudged(d, v, p, m, en, ep, ef),
         en[y] = 0 \/ ep[y] = 0
  PROVE  /\ \A J, K \in Int :
              /\ Eq!Flux_n(d, p, y) - Eq!Flux_n(d, m, y) = 2 * J
              /\ Eq!Flux_n(d, p, y + 1) - Eq!Flux_n(d, m, y + 1) = 2 * K
              => Eq!Fn(d, p, y) - Eq!Fn(d, m, y) = 2 * (K - J - d.h[y] * EqLossN(d, v, y, en, ep))
         /\ \A J, K \in Int :
              /\ Eq!Flux_p(d, p, y) - Eq!Flux_p(d, m, y) = 2 * J
              /\ Eq!Flux_p(d, p, y + 1) - Eq!Flux_p(d, m, y + 1) = 2 * K
              => Eq!Fp(d, p, y) - Eq!Fp(d, m, y) = 2 * (K - J + d.h[y] * EqLossP(d, v, y, en, ep))
<1>1. y \in -1 .. d.ylen /\ y \in 0 .. d.ylen /\ y + 1 \in 0 .. d.ylen /\ y - 1 \in -1 .. d.ylen
      /\ y + 1 \in -1 .. d.ylen /\ y \in Int
  BY EqAround
<1>2. p \in Eq!Solution(d) /\ m \in Eq!Solution(d)
  BY DEF EqNudged
<1>3. PICK n, q, a, e, s, h, nt, pt :
        /\ n = v.n[y] /\ q = v.p[y] /\ a = en[y] /\ e = ep[y] /\ s = Eq!Step(d) /\ h = d.h[y]
        /\ nt = v.nt[y] /\ pt = v.pt[y]
  OBVIOUS
<1>4. /\ n \in Int /\ q \in Int /\ a \in Int /\ e \in Int /\ s \in Int /\ h \in Int
      /\ nt \in [Eq!Bands(d) -> Int] /\ pt \in [Eq!Bands(d) -> Int]
  <2>1. n \in Int /\ q \in Int /\ nt \in [Eq!Bands(d) -> Int] /\ pt \in [Eq!Bands(d) -> Int]
    BY <1>3, EqProfile
  <2>2. a \in Int /\ e \in Int
    BY <1>1, <1>3 DEF EqNudged
  <2>3. s \in Int /\ h \in Int
    BY <1>3, EqDevice DEF Eq!Step
  <2> QED BY <2>1, <2>2, <2>3
<1>5. /\ p.n[y] = n + a /\ m.n[y] = n - a /\ p.p[y] = q + e /\ m.p[y] = q - e
      /\ p.nt[y] = nt /\ p.pt[y] = pt /\ m.nt[y] = nt /\ m.pt[y] = pt
  <2>1. /\ Eq!N(d, p, y) = Eq!N(d, v, y) + a /\ Eq!N(d, m, y) = Eq!N(d, v, y) - a
        /\ Eq!P(d, p, y) = Eq!P(d, v, y) + e /\ Eq!P(d, m, y) = Eq!P(d, v, y) - e
        /\ p.nt = v.nt /\ p.pt = v.pt /\ m.nt = v.nt /\ m.pt = v.pt
    BY <1>1, <1>3, Zenon DEF EqNudged
  <2> QED BY <1>3, <2>1, EqHere, Zenon
<1>6. /\ d.ntrapnewton \in BOOLEAN /\ d.ptrapnewton \in BOOLEAN /\ d.nlast \in Int /\ d.plast \in Int
      /\ d.Gn[y] \in Int /\ d.Gp[y] \in Int
  BY EqDevice
<1>7. PICK cp, cm, x : /\ cp = Eq!Common(d, p, y) /\ cm = Eq!Common(d, m, y)
                       /\ x = a * EqByN(d, v, y) + e * EqByP(d, v, y)
  OBVIOUS
<1>8. cp \in Int /\ cm \in Int /\ x \in Int /\ cp - cm = 2 * x
  <2>1. cp \in Int /\ cm \in Int
    BY <1>2, <1>7, EqCommonSum
  <2>2. x \in Int
    BY <1>4, <1>7, EqByType
  <2>3. ~d.ss_srh[y]
    BY DEF EqDerived
  <2>4. Eq!Common(d, p, y) - Eq!Common(d, m, y)
           = 2 * (en[y] * EqByN(d, v, y) + ep[y] * EqByP(d, v, y))
    BY <2>3, EqCommonChange
  <2> QED BY <1>3, <1>7, <2>1, <2>2, <2>4, Zenon
<1>9. PICK op, om, t1 :
        /\ op = EqCapturedOwn(d, nt, n + a, d.ntrapnewton)
        /\ om = EqCapturedOwn(d, nt, n - a, d.ntrapnewton)
        /\ t1 = a * EqTake1(d, nt, d.ntrapnewton)
  OBVIOUS
<1>10. PICK wp, wm, t3 :
        /\ wp = EqCapturedOther(d, pt, n + a, d.ptrapnewton)
        /\ wm = EqCapturedOther(d, pt, n - a, d.ptrapnewton)
        /\ t3 = a * EqTake3(d, pt, d.ptrapnewton)
  OBVIOUS
<1>11. PICK op2, om2, t12 :
        /\ op2 = EqCapturedOwn(d, pt, q + e, d.ptrapnewton)
        /\ om2 = EqCapturedOwn(d, pt, q - e, d.ptrapnewton)
        /\ t12 = e * EqTake1(d, pt, d.ptrapnewton)
  OBVIOUS
<1>12. PICK wp2, wm2, t32 :
        /\ wp2 = EqCapturedOther(d, nt, q + e, d.ntrapnewton)
        /\ wm2 = EqCapturedOther(d, nt, q - e, d.ntrapnewton)
        /\ t32 = e * EqTake3(d, nt, d.ntrapnewton)
  OBVIOUS
<1>13. /\ EqTake1(d, nt, d.ntrapnewton) \in Int /\ EqTake3(d, nt, d.ntrapnewton) \in Int
       /\ EqTake1(d, pt, d.ptrapnewton) \in Int /\ EqTake3(d, pt, d.ptrapnewton) \in Int
  BY <1>4, EqRateType
<1>28. /\ EqCaptures(d, nt, d.ntrapnewton, n, a) /\ EqCaptures(d, nt, d.ntrapnewton, q, e)
       /\ EqCaptures(d, pt, d.ptrapnewton, n, a) /\ EqCaptures(d, pt, d.ptrapnewton, q, e)
  BY <1>4, <1>6, EqCaptureChange
<1>14. /\ op \in Int /\ om \in Int /\ t1 \in Int /\ op - om = 2 * t1
       /\ wp2 \in Int /\ wm2 \in Int /\ t32 \in Int /\ wp2 - wm2 = 2 * t32
  <2>1. t1 \in Int /\ t32 \in Int
    BY <1>4, <1>9, <1>12, <1>13
  <2>2. /\ op - om = 2 * t1 /\ op \in Int /\ om \in Int
    BY <1>9, <1>28, Zenon DEF EqCaptures
  <2>3. /\ wp2 - wm2 = 2 * t32 /\ wp2 \in Int /\ wm2 \in Int
    BY <1>12, <1>28, Zenon DEF EqCaptures
  <2> QED BY <2>1, <2>2, <2>3
<1>15. /\ wp \in Int /\ wm \in Int /\ t3 \in Int /\ wp - wm = 2 * t3
       /\ op2 \in Int /\ om2 \in Int /\ t12 \in Int /\ op2 - om2 = 2 * t12
  <2>1. t3 \in Int /\ t12 \in Int
    BY <1>4, <1>10, <1>11, <1>13
  <2>2. /\ wp - wm = 2 * t3 /\ wp \in Int /\ wm \in Int
    BY <1>10, <1>28, Zenon DEF EqCaptures
  <2>3. /\ op2 - om2 = 2 * t12 /\ op2 \in Int /\ om2 \in Int
    BY <1>11, <1>28, Zenon DEF EqCaptures
  <2> QED BY <2>1, <2>2, <2>3
<1>16. /\ Eq!OfFace(d.interface_B, y - 1) = 0 /\ d.interface_B[y] = 0
       /\ \A z : z \in Int => 0 * z = 0
  <2>1. (IF y - 1 < 0 THEN 0 ELSE y - 1) \in Eq!Points(d)
    BY <1>1, EqDevice DEF Eq!Points
  <2>2. Eq!OfFace(d.interface_B, y - 1) = 0 /\ d.interface_B[y] = 0
    BY <2>1 DEF EqDerived, Eq!OfFace
  <2> QED BY <2>2
<1>17. /\ Eq!OfFace(d.interface_B, y - 1) * Eq!Pairs(d, p, y, y - 1) = 0
       /\ Eq!OfFace(d.interface_B, y - 1) * Eq!Pairs(d, m, y, y - 1) = 0
       /\ d.interface_B[y] * Eq!Pairs(d, p, y + 1, y) = 0
       /\ d.interface_B[y] * Eq!Pairs(d, m, y + 1, y) = 0
  <2>1. /\ Eq!Pairs(d, p, y, y - 1) \in Int /\ Eq!Pairs(d, m, y, y - 1) \in Int
        /\ Eq!Pairs(d, p, y + 1, y) \in Int /\ Eq!Pairs(d, m, y + 1, y) \in Int
    BY <1>1, <1>2, EqPairsInt
  <2> QED BY <1>16, <2>1, Zenon
<1>18. PICK lp, lm, x1 :
         /\ lp = cp + op + wp + 0 + s * ((n + a) - d.nlast) - d.Gn[y]
         /\ lm = cm + om + wm + 0 + s * ((n - a) - d.nlast) - d.Gn[y]
         /\ x1 = x + t1 + t3 + s * a
  OBVIOUS
<1>19. lp \in Int /\ lm \in Int /\ x1 \in Int /\ lp - lm = 2 * x1
  <2>1. x1 \in Int
    BY <1>4, <1>8, <1>14, <1>15, <1>18
  <2> QED BY <1>4, <1>6, <1>8, <1>14, <1>15, <1>18, <2>1, EqLocalPoly
<1>20. PICK lp2, lm2, x2 :
         /\ lp2 = cp + wp2 + op2 + 0 + s * ((q + e) - d.plast) - d.Gp[y]
         /\ lm2 = cm + wm2 + om2 + 0 + s * ((q - e) - d.plast) - d.Gp[y]
         /\ x2 = x + t32 + t12 + s * e
  OBVIOUS
<1>21. lp2 \in Int /\ lm2 \in Int /\ x2 \in Int /\ lp2 - lm2 = 2 * x2
  <2>1. x2 \in Int
    BY <1>4, <1>8, <1>14, <1>15, <1>20
  <2> QED BY <1>4, <1>6, <1>8, <1>14, <1>15, <1>20, <2>1, EqLocalPoly
<1>22. /\ Eq!Fn(d, p, y) = Eq!Flux_n(d, p, y + 1) - Eq!Flux_n(d, p, y) - h * lp
       /\ Eq!Fn(d, m, y) = Eq!Flux_n(d, m, y + 1) - Eq!Flux_n(d, m, y) - h * lm
  BY <1>3, <1>5, <1>7, <1>9, <1>10, <1>17, <1>18, Zenon DEF Eq!Fn, EqCapturedOwn, EqCapturedOther
<1>23. /\ Eq!Fp(d, p, y) = Eq!Flux_p(d, p, y + 1) - Eq!Flux_p(d, p, y) + h * lp2
       /\ Eq!Fp(d, m, y) = Eq!Flux_p(d, m, y + 1) - Eq!Flux_p(d, m, y) + h * lm2
  BY <1>3, <1>5, <1>7, <1>11, <1>12, <1>17, <1>20, Zenon DEF Eq!Fp, EqCapturedOwn, EqCapturedOther
<1>24. EqLossN(d, v, y, en, ep) = x1 /\ EqLossP(d, v, y, en, ep) = x2
  BY <1>3, <1>7, <1>9, <1>10, <1>11, <1>12, <1>18, <1>20, Zenon DEF EqLossN, EqLossP
<1>25. /\ Eq!Flux_n(d, p, y) \in Int /\ Eq!Flux_n(d, m, y) \in Int
       /\ Eq!Flux_n(d, p, y + 1) \in Int /\ Eq!Flux_n(d, m, y + 1) \in Int
       /\ Eq!Flux_p(d, p, y) \in Int /\ Eq!Flux_p(d, m, y) \in Int
       /\ Eq!Flux_p(d, p, y + 1) \in Int /\ Eq!Flux_p(d, m, y + 1) \in Int
  BY <1>1, <1>2, EqFluxInt
<1>26. ASSUME NEW J \in Int, NEW K \in Int,
              Eq!Flux_n(d, p, y) - Eq!Flux_n(d, m, y) = 2 * J,
              Eq!Flux_n(d, p, y + 1) - Eq!Flux_n(d, m, y + 1) = 2 * K
       PROVE  Eq!Fn(d, p, y) - Eq!Fn(d, m, y) = 2 * (K - J - d.h[y] * EqLossN(d, v, y, en, ep))
  <2>1. PICK fp, fm, kp, km : /\ fp = Eq!Flux_n(d, p, y) /\ fm = Eq!Flux_n(d, m, y)
                              /\ kp = Eq!Flux_n(d, p, y + 1) /\ km = Eq!Flux_n(d, m, y + 1)
    OBVIOUS
  <2>2. fp \in Int /\ fm \in Int /\ kp \in Int /\ km \in Int /\ fp - fm = 2 * J /\ kp - km = 2 * K
    BY <1>25, <1>26, <2>1
  <2>3. (kp - fp - h * lp) - (km - fm - h * lm) = 2 * (K - J - h * x1)
    BY <1>4, <1>19, <2>2, EqBalancePolys
  <2> QED BY <1>3, <1>22, <1>24, <2>1, <2>3, Zenon
<1>27. ASSUME NEW J \in Int, NEW K \in Int,
              Eq!Flux_p(d, p, y) - Eq!Flux_p(d, m, y) = 2 * J,
              Eq!Flux_p(d, p, y + 1) - Eq!Flux_p(d, m, y + 1) = 2 * K
       PROVE  Eq!Fp(d, p, y) - Eq!Fp(d, m, y) = 2 * (K - J + d.h[y] * EqLossP(d, v, y, en, ep))
  <2>1. PICK fp, fm, kp, km : /\ fp = Eq!Flux_p(d, p, y) /\ fm = Eq!Flux_p(d, m, y)
                              /\ kp = Eq!Flux_p(d, p, y + 1) /\ km = Eq!Flux_p(d, m, y + 1)
    OBVIOUS
  <2>2. fp \in Int /\ fm \in Int /\ kp \in Int /\ km \in Int /\ fp - fm = 2 * J /\ kp - km = 2 * K
    BY <1>25, <1>27, <2>1
  <2>3. (kp - fp + h * lp2) - (km - fm + h * lm2) = 2 * (K - J + h * x2)
    BY <1>4, <1>21, <2>2, EqBalancePolys
  <2> QED BY <1>3, <1>23, <1>24, <2>1, <2>3, Zenon
<1> QED BY <1>26, <1>27

\* The derivatives of the fluxes that fill_matrix has are those changes.
LEMMA EqSlopesOf ==
  ASSUME Eq!BernNumeric, NEW d \in Eq!Meshed, EqDerived(d), NEW v \in Eq!Solution(d),
         NEW y \in Eq!Points(d), NEW J, J = EqSlopes(d, v, y)
  PROVE  /\ J.nl_l = -(EqFromN(d, v, y) * Eq!Dn(d, y - 1)) /\ J.nl_c = EqIntoN(d, v, y) * d.dn[y]
         /\ J.nr_c = -(EqFromN(d, v, y + 1) * d.dn[y])
         /\ J.nr_r = EqIntoN(d, v, y + 1) * Eq!Dn(d, y + 1)
         /\ J.nl_phi = EqSlopeN(d, v, y) /\ J.nr_phi = EqSlopeN(d, v, y + 1)
         /\ J.pl_l = EqIntoP(d, v, y) * Eq!Dp(d, y - 1) /\ J.pl_c = -(EqFromP(d, v, y) * d.dp[y])
         /\ J.pr_c = EqIntoP(d, v, y + 1) * d.dp[y]
         /\ J.pr_r = -(EqFromP(d, v, y + 1) * Eq!Dp(d, y + 1))
         /\ J.pl_phi = EqSlopeP(d, v, y) /\ J.pr_phi = EqSlopeP(d, v, y + 1)
<1>1. /\ y \in 0 .. d.ylen /\ y + 1 \in 0 .. d.ylen /\ (y + 1) - 1 = y /\ ~(y < 0)
      /\ y - 1 \in -1 .. d.ylen /\ y + 1 \in -1 .. d.ylen
  BY EqAround, EqDevice DEF Eq!Points
<1>2. PICK D, D1, k, l, k1, l1, g, g1, x, x0, x1 :
        /\ D = d.Dn[y] /\ D1 = d.Dn[y + 1]
        /\ k = Eq!XiFace(d, v, y).neg /\ l = Eq!XiFace(d, v, y).plus
        /\ k1 = Eq!XiFace(d, v, y + 1).neg /\ l1 = Eq!XiFace(d, v, y + 1).plus
        /\ g = Eq!GeLeft(d, y) /\ g1 = d.interface_Ge[y]
        /\ x = d.dn[y] /\ x0 = Eq!Dn(d, y - 1) /\ x1 = Eq!Dn(d, y + 1)
  OBVIOUS
<1>3. PICK E, E1, m, o, m1, o1, z, z0, z1 :
        /\ E = d.Dp[y] /\ E1 = d.Dp[y + 1]
        /\ m = Eq!XipFace(d, v, y).neg /\ o = Eq!XipFace(d, v, y).plus
        /\ m1 = Eq!XipFace(d, v, y + 1).neg /\ o1 = Eq!XipFace(d, v, y + 1).plus
        /\ z = d.dp[y] /\ z0 = Eq!Dp(d, y - 1) /\ z1 = Eq!Dp(d, y + 1)
  OBVIOUS
<1>4. /\ Eq!OfFace(d.interface_Ge, y - 1) = g /\ Eq!OfFace(d.interface_Ge, y) = g1
  BY <1>1, <1>2, Zenon DEF Eq!GeLeft, Eq!OfFace
<1>5. /\ Eq!OfFace(d.interface_Gh, y - 1) = 0 /\ Eq!OfFace(d.interface_Gh, y) = 0
      /\ Eq!GhLeft(d, y) = 0 /\ d.interface_Gh[y] = 0
  <2>1. (IF y - 1 < 0 THEN 0 ELSE y - 1) \in Eq!Points(d)
    BY <1>1, EqDevice DEF Eq!Points
  <2>2. d.interface_Gh[y] = 0 /\ Eq!OfFace(d.interface_Gh, y - 1) = 0
    BY <2>1 DEF EqDerived, Eq!OfFace
  <2>3. Eq!OfFace(d.interface_Gh, y) = 0
    BY <1>1, <2>2 DEF Eq!OfFace
  <2> QED BY <2>2, <2>3 DEF Eq!GhLeft
<1>6. /\ D \in Int /\ D1 \in Int /\ k \in Int /\ l \in Int /\ k1 \in Int /\ l1 \in Int
      /\ g \in Int /\ g1 \in Int
  <2>1. /\ D \in Int /\ k \in Int /\ l \in Int /\ g \in Int
    BY <1>1, <1>2, <1>4, EqFaceConstants
  <2>2. /\ D1 \in Int /\ k1 \in Int /\ l1 \in Int
    BY <1>1, <1>2, EqFaceConstants
  <2>3. g1 \in Int
    BY <1>2, EqDevice
  <2> QED BY <2>1, <2>2, <2>3
<1>7. /\ E \in Int /\ E1 \in Int /\ m \in Int /\ o \in Int /\ m1 \in Int /\ o1 \in Int
  <2>1. /\ E \in Int /\ m \in Int /\ o \in Int
    BY <1>1, <1>3, EqFaceConstants
  <2>2. /\ E1 \in Int /\ m1 \in Int /\ o1 \in Int
    BY <1>1, <1>3, EqFaceConstants
  <2> QED BY <2>1, <2>2
<1>8. /\ x \in Int /\ x0 \in Int /\ x1 \in Int /\ z \in Int /\ z0 \in Int /\ z1 \in Int
  <2>1. x \in Int /\ z \in Int
    BY <1>2, <1>3, EqDevice
  <2>2. x0 \in Int /\ x1 \in Int /\ z0 \in Int /\ z1 \in Int
    BY <1>1, <1>2, <1>3, EqNumbers
  <2> QED BY <2>1, <2>2
<1>9. /\ J.nl_l = -D * l * x0 - g * x0 /\ J.nl_c = D * k * x + g * x
      /\ J.nr_c = -D1 * l1 * x - g1 * x /\ J.nr_r = D1 * k1 * x1 + g1 * x1
  BY <1>2, Zenon DEF EqSlopes, EqDrift
<1>10. /\ J.pl_l = E * m * z0 + 0 * z0 /\ J.pl_c = -E * o * z - 0 * z
       /\ J.pr_c = E1 * m1 * z + 0 * z /\ J.pr_r = -E1 * o1 * z1 - 0 * z1
  BY <1>3, <1>5, Zenon DEF EqSlopes, EqDrift
<1>11. /\ EqFromN(d, v, y) = D * l + g /\ EqIntoN(d, v, y) = D * k + g
       /\ EqFromN(d, v, y + 1) = D1 * l1 + g1 /\ EqIntoN(d, v, y + 1) = D1 * k1 + g1
       /\ EqFromP(d, v, y) = E * o + 0 /\ EqIntoP(d, v, y) = E * m + 0
       /\ EqFromP(d, v, y + 1) = E1 * o1 + 0 /\ EqIntoP(d, v, y + 1) = E1 * m1 + 0
  BY <1>1, <1>2, <1>3, <1>4, <1>5, Zenon DEF EqFromN, EqIntoN, EqFromP, EqIntoP
<1>12. /\ -D * l * x0 - g * x0 = -((D * l + g) * x0) /\ D * k * x + g * x = (D * k + g) * x
       /\ -D1 * l1 * x - g1 * x = -((D1 * l1 + g1) * x)
       /\ D1 * k1 * x1 + g1 * x1 = (D1 * k1 + g1) * x1
  BY <1>6, <1>8, SMT
<1>13. /\ E * m * z0 + 0 * z0 = (E * m + 0) * z0 /\ -E * o * z - 0 * z = -((E * o + 0) * z)
       /\ E1 * m1 * z + 0 * z = (E1 * m1 + 0) * z
       /\ -E1 * o1 * z1 - 0 * z1 = -((E1 * o1 + 0) * z1)
  BY <1>7, <1>8, SMT
<1>16. /\ J.nl_l = -(EqFromN(d, v, y) * x0) /\ J.nl_c = EqIntoN(d, v, y) * x
       /\ J.nr_c = -(EqFromN(d, v, y + 1) * x) /\ J.nr_r = EqIntoN(d, v, y + 1) * x1
  BY <1>9, <1>11, <1>12, Zenon
<1>17. /\ J.pl_l = EqIntoP(d, v, y) * z0 /\ J.pl_c = -(EqFromP(d, v, y) * z)
       /\ J.pr_c = EqIntoP(d, v, y + 1) * z /\ J.pr_r = -(EqFromP(d, v, y + 1) * z1)
  BY <1>10, <1>11, <1>13, Zenon
<1>14. /\ Eq!N(d, v, y) = v.n[y] /\ Eq!P(d, v, y) = v.p[y]
  BY EqHere
<1>15. /\ J.nl_phi = EqSlopeN(d, v, y) /\ J.nr_phi = EqSlopeN(d, v, y + 1)
       /\ J.pl_phi = EqSlopeP(d, v, y) /\ J.pr_phi = EqSlopeP(d, v, y + 1)
  BY <1>1, <1>14, Zenon DEF EqSlopes, EqDrift, EqSlopeN, EqSlopeP
<1> QED BY <1>2, <1>3, <1>15, <1>16, <1>17, Zenon

\* The rows before the traps, with recombination as a slope.
LEMMA EqRecombinePoly ==
  \A B, C, g, n, p, q, h, s, t \in Int :
    /\ B * n * p + C * n * q + g * n * p = n * (B * p + C * q + g * p)
    /\ B * p * n + C * n * q + g * p * n = n * (B * p + C * q + g * p)
    /\ -h * n = -(h * n) /\ -h * t = -(h * t)
BY SMTT(30)

\* The row before the traps, from those derivatives.
LEMMA EqRow0Slopes ==
  ASSUME Eq!BernNumeric, NEW d \in Eq!Meshed, NEW v \in Eq!Solution(d), NEW y \in Eq!Points(d),
         NEW r, r = EqRow0(d, v, y), NEW J, J = EqSlopes(d, v, y)
  PROVE  /\ r.dphidxic = d.h[y] * d.dn[y] /\ r.dphidxipc = -(d.h[y] * d.dp[y])
         /\ r.dJdxil = -J.nl_l /\ r.dJdxir = J.nr_r
         /\ r.dJdxic = J.nr_c - J.nl_c - d.h[y] * (d.dn[y] * EqByN(d, v, y) + Eq!Step(d) * d.dn[y])
         /\ r.dJdxipc = -(d.h[y] * (d.dp[y] * EqByP(d, v, y)))
         /\ r.dJpdxipl = -J.pl_l /\ r.dJpdxipr = J.pr_r
         /\ r.dJpdxipc = J.pr_c - J.pl_c + d.h[y] * (d.dp[y] * EqByP(d, v, y) + Eq!Step(d) * d.dp[y])
         /\ r.dJpdxic = d.h[y] * (d.dn[y] * EqByN(d, v, y))
         /\ r.dJdphil = J.nl_phi /\ r.dJdphir = J.nr_phi
         /\ r.dJpdphil = J.pl_phi /\ r.dJpdphir = J.pr_phi
<1>1. PICK B, C, H, g, n, p, x, z, q, h, t, w, s :
        /\ B = d.B /\ C = d.Cn /\ H = d.Cp /\ g = Eq!Augers(d, v, y) /\ n = d.dn[y] /\ p = v.p[y]
        /\ x = d.dp[y] /\ z = v.n[y] /\ q = Eq!Pairs(d, v, y, y) /\ h = d.h[y]
        /\ t = n * EqByN(d, v, y) /\ w = x * EqByP(d, v, y) /\ s = Eq!Step(d)
  OBVIOUS
<1>2. /\ B \in Int /\ C \in Int /\ H \in Int /\ n \in Int /\ p \in Int /\ x \in Int /\ z \in Int
      /\ h \in Int
  BY <1>1, EqDevice, EqProfile
<1>3. g \in Int /\ q \in Int /\ s \in Int
  BY <1>1, EqSideNumbers
<1>4. t \in Int /\ w \in Int
  BY <1>1, <1>2, EqByType
<1>5. B * n * p + C * n * q + g * n * p = t
  <2>1. t = n * (B * p + C * q + g * p)
    BY <1>1, Zenon DEF EqByN
  <2>2. B * n * p + C * n * q + g * n * p = n * (B * p + C * q + g * p)
    BY <1>2, <1>3, EqRecombinePoly
  <2> QED BY <2>1, <2>2, Zenon
<1>6. B * z * x + H * x * q + g * z * x = w
  <2>1. w = x * (B * z + H * q + g * z)
    BY <1>1, Zenon DEF EqByP
  <2>2. B * z * x + H * x * q + g * z * x = x * (B * z + H * q + g * z)
    BY <1>2, <1>3, EqRecombinePoly
  <2> QED BY <2>1, <2>2, Zenon
<1>7. /\ -h * x = -(h * x) /\ -h * w = -(h * w)
  BY <1>2, <1>4
<1>8. /\ r.dphidxic = h * n /\ r.dphidxipc = -h * x
      /\ r.dJdxil = -J.nl_l /\ r.dJdxir = J.nr_r /\ r.dJpdxipl = -J.pl_l /\ r.dJpdxipr = J.pr_r
      /\ r.dJdphil = J.nl_phi /\ r.dJdphir = J.nr_phi
      /\ r.dJpdphil = J.pl_phi /\ r.dJpdphir = J.pr_phi
  BY <1>1, Zenon DEF EqRow0
<1>9. /\ r.dJdxic = J.nr_c - J.nl_c - h * ((B * n * p + C * n * q + g * n * p) + s * n)
      /\ r.dJpdxic = h * (B * n * p + C * n * q + g * n * p)
  BY <1>1, Zenon DEF EqRow0, Eq!Step
<1>10. /\ r.dJdxipc = -h * (B * z * x + H * x * q + g * z * x)
       /\ r.dJpdxipc = J.pr_c - J.pl_c + h * ((B * z * x + H * x * q + g * z * x) + s * x)
  BY <1>1, Zenon DEF EqRow0, Eq!Step
<1>11. /\ r.dJdxic = J.nr_c - J.nl_c - h * (t + s * n) /\ r.dJpdxic = h * t
       /\ r.dJdxipc = -(h * w) /\ r.dJpdxipc = J.pr_c - J.pl_c + h * (w + s * x)
  BY <1>5, <1>6, <1>7, <1>9, <1>10, Zenon
<1> QED BY <1>1, <1>7, <1>8, <1>11, Zenon

\* in the columns of the potential, without free-to-free recombination
LEMMA EqRow0Own ==
  ASSUME Eq!BernNumeric, NEW d \in Eq!Meshed, NEW v \in Eq!Solution(d), NEW y \in Eq!Points(d),
         NEW r, r = EqRow0(d, v, y), NEW J, J = EqSlopes(d, v, y), d.B = 0,
         J.nl_phi \in Int, J.nr_phi \in Int, J.pl_phi \in Int, J.pr_phi \in Int
  PROVE  /\ r.dJdphic = -J.nl_phi - J.nr_phi /\ r.dJpdphic = -J.pl_phi - J.pr_phi
<1>1. PICK n, p, x, z, h :
        n = d.dn[y] /\ p = v.p[y] /\ x = d.dp[y] /\ z = v.n[y] /\ h = d.h[y]
  OBVIOUS
<1>2. /\ n \in Int /\ p \in Int /\ x \in Int /\ z \in Int /\ h \in Int
  BY <1>1, EqDevice, EqProfile
<1>3. /\ r.dJdphic = -J.nl_phi - J.nr_phi - h * 0 * n * p
      /\ r.dJpdphic = -J.pl_phi - J.pr_phi + h * 0 * z * x
  BY <1>1, Zenon DEF EqRow0
<1>4. h * 0 * n * p = 0 /\ h * 0 * z * x = 0
  BY <1>2, SMT
<1>5. /\ -J.nl_phi - J.nr_phi - 0 = -J.nl_phi - J.nr_phi
      /\ -J.pl_phi - J.pr_phi + 0 = -J.pl_phi - J.pr_phi
  BY SMT
<1> QED BY <1>3, <1>4, <1>5, Zenon

\* what the traps add to a row
LEMMA EqRowTraps ==
  ASSUME NEW d \in Eq!Meshed, NEW v \in Eq!Solution(d), NEW y \in Eq!Points(d),
         NEW r, r = EqRow0(d, v, y), NEW a, a = EqRow(d, v, y),
         r.dJdxic \in Int, r.dJpdxipc \in Int
  PROVE  /\ \A f \in EqFields \ {"dJdxic", "dJpdxipc", "ntrap", "ptrap"} : a[f] = r[f]
         /\ a.dJdxic = r.dJdxic - d.h[y] * EqTotal(EqByOwn(EqTrapsN(d, v, y)))
                         + d.h[y] * EqTotal(EqByOther(EqTrapsP(d, v, y)))
         /\ a.dJpdxipc = r.dJpdxipc - d.h[y] * EqTotal(EqByOther(EqTrapsN(d, v, y)))
                           + d.h[y] * EqTotal(EqByOwn(EqTrapsP(d, v, y)))
<1>1. PICK n : n = EqRowN(d, v, y)
  OBVIOUS
<1>2. PICK h, no, nt, po, pt :
        /\ h = d.h[y]
        /\ no = EqTotal(EqByOwn(EqTrapsN(d, v, y))) /\ nt = EqTotal(EqByOther(EqTrapsN(d, v, y)))
        /\ po = EqTotal(EqByOwn(EqTrapsP(d, v, y))) /\ pt = EqTotal(EqByOther(EqTrapsP(d, v, y)))
  OBVIOUS
<1>3. EqTotal(EqByOwn(<<>>)) = 0 /\ EqTotal(EqByOther(<<>>)) = 0
  <2>1. DOMAIN EqByOwn(<<>>) = {} /\ DOMAIN EqByOther(<<>>) = {}
    BY DEF EqByOwn, EqByOther
  <2> QED BY <2>1, SumEmpty DEF EqTotal
<1>4. h \in Int /\ no \in Int /\ nt \in Int /\ po \in Int /\ pt \in Int
  <2>1. d.dn[y] \in Int /\ d.dp[y] \in Int /\ h \in Int
    BY <1>2, EqDevice
  <2>2. v.nt[y] \in [Eq!Bands(d) -> Int] /\ v.pt[y] \in [Eq!Bands(d) -> Int]
    BY EqProfile
  <2>3. /\ EqTake1(d, v.nt[y], d.ntrapnewton) \in Int /\ EqTake3(d, v.nt[y], d.ntrapnewton) \in Int
        /\ EqTake1(d, v.pt[y], d.ptrapnewton) \in Int /\ EqTake3(d, v.pt[y], d.ptrapnewton) \in Int
    BY <2>2, EqRateType
  <2>4. \A k, l \in Int : k * l \in Int /\ (-k) * l \in Int
    BY SMT
  <2> QED BY <1>2, <2>1, <2>3, <2>4, EqTrapSlopes
<1>5. \A x \in Int : x - h * 0 = x /\ x + h * 0 = x
  BY <1>4
<1>6. /\ \A f \in EqFields \ {"dJdxic", "dJpdxipc", "ntrap", "ptrap"} : n[f] = r[f]
      /\ n.dJdxic = r.dJdxic - h * no /\ n.dJpdxipc = r.dJpdxipc - h * nt
  <2>1. CASE d.ntrapnewton
    <3>1. EqTrapsN(d, v, y) = EqLevelsN(d, v, y)
      BY <2>1 DEF EqTrapsN
    <3>2. n = [f \in EqFields |->
                 IF f = "dJdxic" THEN r.dJdxic - h * no
                 ELSE IF f = "dJpdxipc" THEN r.dJpdxipc - h * nt
                 ELSE IF f = "ntrap" THEN EqLevelsN(d, v, y) ELSE r[f]]
      BY <1>1, <1>2, <2>1, <3>1 DEF EqRowN
    <3>3. "dJdxic" \in EqFields /\ "dJpdxipc" \in EqFields
      BY DEF EqFields
    <3> QED BY <3>2, <3>3
  <2>2. CASE ~d.ntrapnewton
    <3>1. no = 0 /\ nt = 0
      BY <1>2, <1>3, <2>2, Zenon DEF EqTrapsN
    <3>2. n = r
      BY <1>1, <2>2 DEF EqRowN
    <3>3. r.dJdxic - h * 0 = r.dJdxic /\ r.dJpdxipc - h * 0 = r.dJpdxipc
      BY <1>5
    <3> QED BY <3>1, <3>2, <3>3, Zenon
  <2> QED BY <2>1, <2>2
<1>7. n.dJdxic \in Int /\ n.dJpdxipc \in Int
  <2>1. \A x, z, w \in Int : x - z * w \in Int
    BY SMT
  <2>2. r.dJdxic - h * no \in Int /\ r.dJpdxipc - h * nt \in Int
    BY <1>4, <2>1
  <2> QED BY <1>6, <2>2, Zenon
<1>8. /\ \A f \in EqFields \ {"dJdxic", "dJpdxipc", "ntrap", "ptrap"} : a[f] = n[f]
      /\ a.dJdxic = n.dJdxic + h * pt /\ a.dJpdxipc = n.dJpdxipc + h * po
  <2>1. CASE d.ptrapnewton
    <3>1. EqTrapsP(d, v, y) = EqLevelsP(d, v, y)
      BY <2>1 DEF EqTrapsP
    <3>2. a = [f \in EqFields |->
                 IF f = "dJpdxipc" THEN n.dJpdxipc + h * po
                 ELSE IF f = "dJdxic" THEN n.dJdxic + h * pt
                 ELSE IF f = "ptrap" THEN EqLevelsP(d, v, y) ELSE n[f]]
      BY <1>1, <1>2, <2>1, <3>1 DEF EqRow
    <3>3. "dJdxic" \in EqFields /\ "dJpdxipc" \in EqFields
      BY DEF EqFields
    <3> QED BY <3>2, <3>3
  <2>2. CASE ~d.ptrapnewton
    <3>1. po = 0 /\ pt = 0
      BY <1>2, <1>3, <2>2, Zenon DEF EqTrapsP
    <3>2. a = n
      BY <1>1, <2>2 DEF EqRow
    <3>3. n.dJdxic + h * 0 = n.dJdxic /\ n.dJpdxipc + h * 0 = n.dJpdxipc
      BY <1>5, <1>7
    <3> QED BY <3>1, <3>2, <3>3, Zenon
  <2> QED BY <2>1, <2>2
<1>9. \A f \in EqFields \ {"dJdxic", "dJpdxipc", "ntrap", "ptrap"} : a[f] = r[f]
  BY <1>6, <1>8
<1>10. a.dJdxic = r.dJdxic - h * no + h * pt /\ a.dJpdxipc = r.dJpdxipc - h * nt + h * po
  BY <1>6, <1>8, Zenon
<1> QED BY <1>2, <1>9, <1>10, Zenon

\* The rates through a point's faces are integers.
LEMMA EqRatesInt ==
  ASSUME Eq!BernNumeric, NEW d \in Eq!Meshed, NEW v \in Eq!Solution(d), NEW y \in 0 .. d.ylen
  PROVE  /\ EqFromN(d, v, y) \in Int /\ EqIntoN(d, v, y) \in Int
         /\ EqFromP(d, v, y) \in Int /\ EqIntoP(d, v, y) \in Int
         /\ EqSlopeN(d, v, y) \in Int /\ EqSlopeP(d, v, y) \in Int
<1>1. \A p, q \in Int : p * q \in Int /\ p + q \in Int
  BY SMT
<1> QED BY <1>1, EqFaceConstants, Zenon
        DEF EqFromN, EqIntoN, EqFromP, EqIntoP, EqSlopeN, EqSlopeP

\* The diagonal of a row, as numbers.
LEMMA EqOwnRowPoly ==
  \A F, I, n, k, s, h, t, w \in Int :
    /\ -(F * n) - I * n - h * (n * k + s * n) - h * (n * t) + h * ((-n) * w)
         = -(F * n) - I * n - h * (n * k + n * t + n * w + s * n)
    /\ (I * n - (-(F * n)) + h * (n * k + s * n)) - h * ((-n) * t) + h * (n * w)
         = I * n + F * n + h * (n * k + n * t + n * w + s * n)
    /\ -(F * n) - I * n - h * (n * k + s * n) \in Int
    /\ I * n - (-(F * n)) + h * (n * k + s * n) \in Int
    /\ -(-(F * n)) = F * n
BY SMTT(60)

\* The coefficients of a row, as rates.
LEMMA EqRowSlopes ==
  ASSUME Eq!BernNumeric, NEW d \in Eq!Meshed, EqDerived(d), NEW v \in Eq!Solution(d),
         NEW y \in Eq!Points(d), NEW a, a = EqRow(d, v, y)
  PROVE  /\ a.dphidxic = d.h[y] * d.dn[y] /\ a.dphidxipc = -(d.h[y] * d.dp[y])
         /\ a.dJdxil = EqFromN(d, v, y) * Eq!Dn(d, y - 1)
         /\ a.dJdxir = EqIntoN(d, v, y + 1) * Eq!Dn(d, y + 1)
         /\ a.dJdxic = -(EqFromN(d, v, y + 1) * d.dn[y]) - EqIntoN(d, v, y) * d.dn[y]
              - d.h[y] * (d.dn[y] * EqByN(d, v, y) + d.dn[y] * EqTake1(d, v.nt[y], d.ntrapnewton)
                            + d.dn[y] * EqTake3(d, v.pt[y], d.ptrapnewton) + Eq!Step(d) * d.dn[y])
         /\ a.dJdxipc = -(d.h[y] * (d.dp[y] * EqByP(d, v, y)))
         /\ a.dJpdxipl = -(EqIntoP(d, v, y) * Eq!Dp(d, y - 1))
         /\ a.dJpdxipr = -(EqFromP(d, v, y + 1) * Eq!Dp(d, y + 1))
         /\ a.dJpdxipc = EqIntoP(d, v, y + 1) * d.dp[y] + EqFromP(d, v, y) * d.dp[y]
              + d.h[y] * (d.dp[y] * EqByP(d, v, y) + d.dp[y] * EqTake3(d, v.nt[y], d.ntrapnewton)
                            + d.dp[y] * EqTake1(d, v.pt[y], d.ptrapnewton) + Eq!Step(d) * d.dp[y])
         /\ a.dJpdxic = d.h[y] * (d.dn[y] * EqByN(d, v, y))
         /\ a.dJdphil = EqSlopeN(d, v, y) /\ a.dJdphir = EqSlopeN(d, v, y + 1)
         /\ a.dJpdphil = EqSlopeP(d, v, y) /\ a.dJpdphir = EqSlopeP(d, v, y + 1)
         /\ d.B = 0 => /\ a.dJdphic = -EqSlopeN(d, v, y) - EqSlopeN(d, v, y + 1)
                       /\ a.dJpdphic = -EqSlopeP(d, v, y) - EqSlopeP(d, v, y + 1)
<1>1. y \in 0 .. d.ylen /\ y + 1 \in 0 .. d.ylen /\ y - 1 \in -1 .. d.ylen /\ y + 1 \in -1 .. d.ylen
  BY EqAround
<1>2. PICK r, J : r = EqRow0(d, v, y) /\ J = EqSlopes(d, v, y)
  OBVIOUS
<1>3. PICK n, p, h, s, k, w :
        /\ n = d.dn[y] /\ p = d.dp[y] /\ h = d.h[y] /\ s = Eq!Step(d)
        /\ k = EqByN(d, v, y) /\ w = EqByP(d, v, y)
  OBVIOUS
<1>4. /\ n \in Int /\ p \in Int /\ h \in Int /\ s \in Int /\ k \in Int /\ w \in Int
  <2>1. n \in Int /\ p \in Int
    BY <1>3, EqDevice
  <2>2. h \in Int /\ s \in Int
    BY <1>3, EqSideNumbers
  <2> QED BY <1>3, <2>1, <2>2, EqByType
<1>5. PICK F, I, G, K : /\ F = EqFromN(d, v, y + 1) /\ I = EqIntoN(d, v, y)
                        /\ G = EqFromP(d, v, y) /\ K = EqIntoP(d, v, y + 1)
  OBVIOUS
<1>6. F \in Int /\ I \in Int /\ G \in Int /\ K \in Int
  BY <1>1, <1>5, EqRatesInt
<1>7. PICK t1, t3, o1, o3 :
        /\ t1 = EqTake1(d, v.nt[y], d.ntrapnewton) /\ t3 = EqTake3(d, v.nt[y], d.ntrapnewton)
        /\ o1 = EqTake1(d, v.pt[y], d.ptrapnewton) /\ o3 = EqTake3(d, v.pt[y], d.ptrapnewton)
  OBVIOUS
<1>8. t1 \in Int /\ t3 \in Int /\ o1 \in Int /\ o3 \in Int
  <2>1. v.nt[y] \in [Eq!Bands(d) -> Int] /\ v.pt[y] \in [Eq!Bands(d) -> Int]
    BY EqProfile
  <2> QED BY <1>7, <2>1, EqRateType
<1>9. /\ J.nl_l = -(EqFromN(d, v, y) * Eq!Dn(d, y - 1)) /\ J.nl_c = I * n
      /\ J.nr_c = -(F * n) /\ J.nr_r = EqIntoN(d, v, y + 1) * Eq!Dn(d, y + 1)
      /\ J.nl_phi = EqSlopeN(d, v, y) /\ J.nr_phi = EqSlopeN(d, v, y + 1)
      /\ J.pl_l = EqIntoP(d, v, y) * Eq!Dp(d, y - 1) /\ J.pl_c = -(G * p)
      /\ J.pr_c = K * p /\ J.pr_r = -(EqFromP(d, v, y + 1) * Eq!Dp(d, y + 1))
      /\ J.pl_phi = EqSlopeP(d, v, y) /\ J.pr_phi = EqSlopeP(d, v, y + 1)
  BY <1>2, <1>3, <1>5, EqSlopesOf
<1>10. /\ r.dphidxic = h * n /\ r.dphidxipc = -(h * p)
       /\ r.dJdxil = -J.nl_l /\ r.dJdxir = J.nr_r
       /\ r.dJdxic = J.nr_c - J.nl_c - h * (n * k + s * n)
       /\ r.dJdxipc = -(h * (p * w))
       /\ r.dJpdxipl = -J.pl_l /\ r.dJpdxipr = J.pr_r
       /\ r.dJpdxipc = J.pr_c - J.pl_c + h * (p * w + s * p)
       /\ r.dJpdxic = h * (n * k)
       /\ r.dJdphil = J.nl_phi /\ r.dJdphir = J.nr_phi
       /\ r.dJpdphil = J.pl_phi /\ r.dJpdphir = J.pr_phi
  <2>1. /\ r.dphidxic = d.h[y] * d.dn[y] /\ r.dphidxipc = -(d.h[y] * d.dp[y])
         /\ r.dJdxil = -J.nl_l /\ r.dJdxir = J.nr_r
         /\ r.dJdxic = J.nr_c - J.nl_c - d.h[y] * (d.dn[y] * EqByN(d, v, y) + Eq!Step(d) * d.dn[y])
         /\ r.dJdxipc = -(d.h[y] * (d.dp[y] * EqByP(d, v, y)))
         /\ r.dJpdxipl = -J.pl_l /\ r.dJpdxipr = J.pr_r
         /\ r.dJpdxipc = J.pr_c - J.pl_c + d.h[y] * (d.dp[y] * EqByP(d, v, y) + Eq!Step(d) * d.dp[y])
         /\ r.dJpdxic = d.h[y] * (d.dn[y] * EqByN(d, v, y))
         /\ r.dJdphil = J.nl_phi /\ r.dJdphir = J.nr_phi
         /\ r.dJpdphil = J.pl_phi /\ r.dJpdphir = J.pr_phi
    BY <1>2, EqRow0Slopes
  <2> QED BY <1>3, <2>1, Zenon
<1>11. /\ r.dJdxic = -(F * n) - I * n - h * (n * k + s * n)
       /\ r.dJpdxipc = K * p - (-(G * p)) + h * (p * w + s * p)
  BY <1>9, <1>10, Zenon
<1>12. r.dJdxic \in Int /\ r.dJpdxipc \in Int
  <2>1. -(F * n) - I * n - h * (n * k + s * n) \in Int
    BY <1>4, <1>6, EqOwnRowPoly
  <2>2. K * p - (-(G * p)) + h * (p * w + s * p) \in Int
    BY <1>4, <1>6, EqOwnRowPoly
  <2> QED BY <1>11, <2>1, <2>2, Zenon
<1>13. /\ \A f \in EqFields \ {"dJdxic", "dJpdxipc", "ntrap", "ptrap"} : a[f] = r[f]
       /\ a.dJdxic = r.dJdxic - h * (n * t1) + h * ((-n) * o3)
       /\ a.dJpdxipc = r.dJpdxipc - h * ((-p) * t3) + h * (p * o1)
  <2>1. /\ \A f \in EqFields \ {"dJdxic", "dJpdxipc", "ntrap", "ptrap"} : a[f] = r[f]
        /\ a.dJdxic = r.dJdxic - d.h[y] * EqTotal(EqByOwn(EqTrapsN(d, v, y)))
                         + d.h[y] * EqTotal(EqByOther(EqTrapsP(d, v, y)))
        /\ a.dJpdxipc = r.dJpdxipc - d.h[y] * EqTotal(EqByOther(EqTrapsN(d, v, y)))
                           + d.h[y] * EqTotal(EqByOwn(EqTrapsP(d, v, y)))
    BY <1>2, <1>12, EqRowTraps
  <2> QED BY <1>3, <1>7, <2>1, EqTrapSlopes, Zenon
<1>14. /\ a.dphidxic = r.dphidxic /\ a.dphidxipc = r.dphidxipc
       /\ a.dJdxil = r.dJdxil /\ a.dJdxir = r.dJdxir /\ a.dJdxipc = r.dJdxipc
       /\ a.dJpdxipl = r.dJpdxipl /\ a.dJpdxipr = r.dJpdxipr /\ a.dJpdxic = r.dJpdxic
       /\ a.dJdphil = r.dJdphil /\ a.dJdphir = r.dJdphir /\ a.dJdphic = r.dJdphic
       /\ a.dJpdphil = r.dJpdphil /\ a.dJpdphir = r.dJpdphir /\ a.dJpdphic = r.dJpdphic
  BY <1>13 DEF EqFields
<1>15. a.dJdxic = -(F * n) - I * n - h * (n * k + n * t1 + n * o3 + s * n)
  <2>1. -(F * n) - I * n - h * (n * k + s * n) - h * (n * t1) + h * ((-n) * o3)
          = -(F * n) - I * n - h * (n * k + n * t1 + n * o3 + s * n)
    BY <1>4, <1>6, <1>8, EqOwnRowPoly
  <2> QED BY <1>11, <1>13, <2>1, Zenon
<1>16. a.dJpdxipc = K * p + G * p + h * (p * w + p * t3 + p * o1 + s * p)
  <2>1. (K * p - (-(G * p)) + h * (p * w + s * p)) - h * ((-p) * t3) + h * (p * o1)
          = K * p + G * p + h * (p * w + p * t3 + p * o1 + s * p)
    BY <1>4, <1>6, <1>8, EqOwnRowPoly
  <2> QED BY <1>11, <1>13, <2>1, Zenon
<1>17. a.dJdxil = EqFromN(d, v, y) * Eq!Dn(d, y - 1)
  <2>1. EqFromN(d, v, y) \in Int /\ Eq!Dn(d, y - 1) \in Int
    BY <1>1, EqRatesInt, EqNumbers
  <2>2. -(-(EqFromN(d, v, y) * Eq!Dn(d, y - 1))) = EqFromN(d, v, y) * Eq!Dn(d, y - 1)
    BY <1>4, <2>1, EqOwnRowPoly
  <2> QED BY <1>9, <1>10, <1>14, <2>2, Zenon
<1>18. d.B = 0 => /\ a.dJdphic = -EqSlopeN(d, v, y) - EqSlopeN(d, v, y + 1)
                  /\ a.dJpdphic = -EqSlopeP(d, v, y) - EqSlopeP(d, v, y + 1)
  <2> HAVE d.B = 0
  <2>1. J.nl_phi \in Int /\ J.nr_phi \in Int /\ J.pl_phi \in Int /\ J.pr_phi \in Int
    BY <1>1, <1>9, EqRatesInt
  <2>2. /\ r.dJdphic = -J.nl_phi - J.nr_phi /\ r.dJpdphic = -J.pl_phi - J.pr_phi
    BY <1>2, <2>1, EqRow0Own
  <2> QED BY <1>9, <1>14, <2>2, Zenon
<1>19. /\ a.dphidxic = h * n /\ a.dphidxipc = -(h * p)
       /\ a.dJdxir = EqIntoN(d, v, y + 1) * Eq!Dn(d, y + 1) /\ a.dJdxipc = -(h * (p * w))
       /\ a.dJpdxipl = -(EqIntoP(d, v, y) * Eq!Dp(d, y - 1))
       /\ a.dJpdxipr = -(EqFromP(d, v, y + 1) * Eq!Dp(d, y + 1)) /\ a.dJpdxic = h * (n * k)
       /\ a.dJdphil = EqSlopeN(d, v, y) /\ a.dJdphir = EqSlopeN(d, v, y + 1)
       /\ a.dJpdphil = EqSlopeP(d, v, y) /\ a.dJpdphir = EqSlopeP(d, v, y + 1)
  BY <1>9, <1>10, <1>14, Zenon
<1> QED BY <1>3, <1>5, <1>7, <1>15, <1>16, <1>17, <1>18, <1>19, Zenon

\* how much of a carrier's change en comes into point y through its left face, and
\* through its right face
EqInflowN(d, v, y, en) == EqIntoN(d, v, y) * en[y] - EqFromN(d, v, y) * en[y - 1]
EqInflowP(d, v, y, ep) == EqIntoP(d, v, y) * ep[y - 1] - EqFromP(d, v, y) * ep[y]

\* The residuals of point y when carriers change.
LEMMA EqCarrierChange ==
  ASSUME Eq!BernNumeric, NEW d \in Eq!Meshed, EqDerived(d), NEW v \in Eq!Solution(d),
         NEW y \in Eq!Points(d),
         NEW p, NEW m, NEW en, NEW ep, NEW ef, EqNudged(d, v, p, m, en, ep, ef),
         en[y] = 0 \/ ep[y] = 0, ef[y - 1] = 0, ef[y] = 0, ef[y + 1] = 0
  PROVE  /\ Eq!Fn(d, p, y) - Eq!Fn(d, m, y)
              = 2 * (EqInflowN(d, v, y + 1, en) - EqInflowN(d, v, y, en)
                       - d.h[y] * EqLossN(d, v, y, en, ep))
         /\ Eq!Fp(d, p, y) - Eq!Fp(d, m, y)
              = 2 * (EqInflowP(d, v, y + 1, ep) - EqInflowP(d, v, y, ep)
                       + d.h[y] * EqLossP(d, v, y, en, ep))
<1>1. /\ y \in 0 .. d.ylen /\ y + 1 \in 0 .. d.ylen /\ (y + 1) - 1 = y
      /\ y - 1 \in -1 .. d.ylen /\ y \in -1 .. d.ylen /\ y + 1 \in -1 .. d.ylen
  BY EqAround
<1>2. PICK J, K, L, M0 :
        /\ J = EqInflowN(d, v, y, en) /\ K = EqInflowN(d, v, y + 1, en)
        /\ L = EqInflowP(d, v, y, ep) /\ M0 = EqInflowP(d, v, y + 1, ep)
  OBVIOUS
<1>3. \A k, l, g, h \in Int : k * l - g * h \in Int
  BY SMT
<1>4. J \in Int /\ K \in Int /\ L \in Int /\ M0 \in Int
  <2>1. /\ en[y] \in Int /\ en[y - 1] \in Int /\ en[y + 1] \in Int
        /\ ep[y] \in Int /\ ep[y - 1] \in Int /\ ep[y + 1] \in Int
    BY <1>1 DEF EqNudged
  <2>2. /\ EqFromN(d, v, y) \in Int /\ EqIntoN(d, v, y) \in Int
        /\ EqFromP(d, v, y) \in Int /\ EqIntoP(d, v, y) \in Int
        /\ EqFromN(d, v, y + 1) \in Int /\ EqIntoN(d, v, y + 1) \in Int
        /\ EqFromP(d, v, y + 1) \in Int /\ EqIntoP(d, v, y + 1) \in Int
    BY <1>1, EqRatesInt
  <2>3. J \in Int /\ L \in Int
    BY <1>2, <1>3, <2>1, <2>2, Zenon DEF EqInflowN, EqInflowP
  <2>4. K \in Int /\ M0 \in Int
    BY <1>1, <1>2, <1>3, <2>1, <2>2, Zenon DEF EqInflowN, EqInflowP
  <2> QED BY <2>3, <2>4
<1>5. /\ Eq!Flux_n(d, p, y) - Eq!Flux_n(d, m, y) = 2 * J
      /\ Eq!Flux_p(d, p, y) - Eq!Flux_p(d, m, y) = 2 * L
  <2>1. /\ Eq!Flux_n(d, p, y) - Eq!Flux_n(d, m, y)
             = 2 * (EqIntoN(d, v, y) * en[y] - EqFromN(d, v, y) * en[y - 1])
        /\ Eq!Flux_p(d, p, y) - Eq!Flux_p(d, m, y)
             = 2 * (EqIntoP(d, v, y) * ep[y - 1] - EqFromP(d, v, y) * ep[y])
    BY <1>1, EqFluxChange
  <2> QED BY <1>2, <2>1, Zenon DEF EqInflowN, EqInflowP
<1>6. /\ Eq!Flux_n(d, p, y + 1) - Eq!Flux_n(d, m, y + 1) = 2 * K
      /\ Eq!Flux_p(d, p, y + 1) - Eq!Flux_p(d, m, y + 1) = 2 * M0
  <2>1. PICK w : w = y + 1
    OBVIOUS
  <2>2. w \in 0 .. d.ylen /\ ef[w] = 0 /\ ef[w - 1] = 0
    BY <1>1, <2>1
  <2>3. /\ Eq!Flux_n(d, p, w) - Eq!Flux_n(d, m, w)
             = 2 * (EqIntoN(d, v, w) * en[w] - EqFromN(d, v, w) * en[w - 1])
        /\ Eq!Flux_p(d, p, w) - Eq!Flux_p(d, m, w)
             = 2 * (EqIntoP(d, v, w) * ep[w - 1] - EqFromP(d, v, w) * ep[w])
    BY <2>2, EqFluxChange
  <2> QED BY <1>2, <2>1, <2>3, Zenon DEF EqInflowN, EqInflowP
<1>7. /\ Eq!Fn(d, p, y) - Eq!Fn(d, m, y) = 2 * (K - J - d.h[y] * EqLossN(d, v, y, en, ep))
      /\ Eq!Fp(d, p, y) - Eq!Fp(d, m, y) = 2 * (M0 - L + d.h[y] * EqLossP(d, v, y, en, ep))
  BY <1>4, <1>5, <1>6, EqResidualChange
<1> QED BY <1>2, <1>7, Zenon

\* The residuals of point y when the potential changes.
LEMMA EqPotentialChange ==
  ASSUME Eq!BernNumeric, Eq!BernOfSecondDegree, NEW d \in Eq!Meshed, EqDerived(d),
         NEW v \in Eq!Solution(d), NEW y \in Eq!Points(d),
         NEW p, NEW m, NEW en, NEW ep, NEW ef, EqNudged(d, v, p, m, en, ep, ef),
         en[y - 1] = 0, en[y] = 0, en[y + 1] = 0, ep[y - 1] = 0, ep[y] = 0, ep[y + 1] = 0,
         NEW s \in {-1, 0, 1}, ef[y] - ef[y - 1] = s,
         NEW t \in {-1, 0, 1}, ef[y + 1] - ef[y] = t
  PROVE  /\ Eq!Fn(d, p, y) - Eq!Fn(d, m, y)
              = 2 * (t * EqSlopeN(d, v, y + 1) - s * EqSlopeN(d, v, y))
         /\ Eq!Fp(d, p, y) - Eq!Fp(d, m, y)
              = 2 * (t * EqSlopeP(d, v, y + 1) - s * EqSlopeP(d, v, y))
<1>1. y \in 0 .. d.ylen /\ y + 1 \in 0 .. d.ylen /\ (y + 1) - 1 = y
  BY EqAround
<1>2. PICK J, K, L, M0 :
        /\ J = s * EqSlopeN(d, v, y) /\ K = t * EqSlopeN(d, v, y + 1)
        /\ L = s * EqSlopeP(d, v, y) /\ M0 = t * EqSlopeP(d, v, y + 1)
  OBVIOUS
<1>3. J \in Int /\ K \in Int /\ L \in Int /\ M0 \in Int
  <2>1. /\ EqSlopeN(d, v, y) \in Int /\ EqSlopeN(d, v, y + 1) \in Int
        /\ EqSlopeP(d, v, y) \in Int /\ EqSlopeP(d, v, y + 1) \in Int
    BY <1>1, EqRatesInt
  <2>2. s \in Int /\ t \in Int
    OBVIOUS
  <2>3. \A k, l \in Int : k * l \in Int
    BY SMT
  <2> QED BY <1>2, <2>1, <2>2, <2>3, Zenon
<1>4. /\ Eq!Flux_n(d, p, y) - Eq!Flux_n(d, m, y) = 2 * J
      /\ Eq!Flux_p(d, p, y) - Eq!Flux_p(d, m, y) = 2 * L
  <2>1. /\ Eq!Flux_n(d, p, y) - Eq!Flux_n(d, m, y) = 2 * (s * EqSlopeN(d, v, y))
        /\ Eq!Flux_p(d, p, y) - Eq!Flux_p(d, m, y) = 2 * (s * EqSlopeP(d, v, y))
    BY <1>1, EqFluxShift
  <2> QED BY <1>2, <2>1, Zenon
<1>5. /\ Eq!Flux_n(d, p, y + 1) - Eq!Flux_n(d, m, y + 1) = 2 * K
      /\ Eq!Flux_p(d, p, y + 1) - Eq!Flux_p(d, m, y + 1) = 2 * M0
  <2>1. PICK w : w = y + 1
    OBVIOUS
  <2>2. /\ w \in 0 .. d.ylen /\ ef[w] - ef[w - 1] = t
        /\ en[w] = 0 /\ en[w - 1] = 0 /\ ep[w] = 0 /\ ep[w - 1] = 0
    BY <1>1, <2>1
  <2>3. /\ Eq!Flux_n(d, p, w) - Eq!Flux_n(d, m, w) = 2 * (t * EqSlopeN(d, v, w))
        /\ Eq!Flux_p(d, p, w) - Eq!Flux_p(d, m, w) = 2 * (t * EqSlopeP(d, v, w))
    BY <2>2, EqFluxShift
  <2> QED BY <1>2, <2>1, <2>3, Zenon
<1>6. EqLossN(d, v, y, en, ep) = 0 /\ EqLossP(d, v, y, en, ep) = 0
  <2>1. /\ EqByN(d, v, y) \in Int /\ EqByP(d, v, y) \in Int /\ Eq!Step(d) \in Int
    BY EqByType, EqSideNumbers
  <2>2. /\ v.nt[y] \in [Eq!Bands(d) -> Int] /\ v.pt[y] \in [Eq!Bands(d) -> Int]
    BY EqProfile
  <2>3. /\ EqTake1(d, v.nt[y], d.ntrapnewton) \in Int /\ EqTake3(d, v.nt[y], d.ntrapnewton) \in Int
        /\ EqTake1(d, v.pt[y], d.ptrapnewton) \in Int /\ EqTake3(d, v.pt[y], d.ptrapnewton) \in Int
    BY <2>2, EqRateType
  <2>4. \A k \in Int : 0 * k = 0 /\ k * 0 = 0
    BY SMT
  <2>5. /\ 0 * EqByN(d, v, y) = 0 /\ 0 * EqByP(d, v, y) = 0 /\ Eq!Step(d) * 0 = 0
        /\ 0 * EqTake1(d, v.nt[y], d.ntrapnewton) = 0 /\ 0 * EqTake3(d, v.nt[y], d.ntrapnewton) = 0
        /\ 0 * EqTake1(d, v.pt[y], d.ptrapnewton) = 0 /\ 0 * EqTake3(d, v.pt[y], d.ptrapnewton) = 0
    BY <2>1, <2>3, <2>4, Zenon
  <2>6. (0 + 0) + 0 + 0 + 0 = 0
    BY SMT
  <2> QED BY <2>5, <2>6, Zenon DEF EqLossN, EqLossP
<1>7. /\ Eq!Fn(d, p, y) - Eq!Fn(d, m, y) = 2 * (K - J - d.h[y] * EqLossN(d, v, y, en, ep))
      /\ Eq!Fp(d, p, y) - Eq!Fp(d, m, y) = 2 * (M0 - L + d.h[y] * EqLossP(d, v, y, en, ep))
  BY <1>3, <1>4, <1>5, EqResidualChange
<1>8. K - J - d.h[y] * 0 = K - J /\ M0 - L + d.h[y] * 0 = M0 - L
  BY <1>3, EqSideNumbers
<1> QED BY <1>2, <1>6, <1>7, <1>8, Zenon

\* Poisson's equation is linear.
LEMMA EqPoissonPoly ==
  \A e, g, h, f, l, r, p, n, a, t, df, dl, dr, dp, dn \in Int :
    (e * ((f + df) - (l + dl)) - g * ((r + dr) - (f + df)) - h * ((p + dp) - (n + dn) + a + t))
      - (e * ((f - df) - (l - dl)) - g * ((r - dr) - (f - df)) - h * ((p - dp) - (n - dn) + a + t))
      = 2 * (e * (df - dl) - g * (dr - df) - h * (dp - dn))
BY SMTT(60)

\* A move changes the residual of Poisson's equation by this.
LEMMA EqPoissonChange ==
  ASSUME NEW d \in Eq!Meshed, NEW v \in Eq!Solution(d), NEW y \in Eq!Points(d),
         NEW p, NEW m, NEW en, NEW ep, NEW ef, EqNudged(d, v, p, m, en, ep, ef)
  PROVE  Eq!Fphi(d, p, y) - Eq!Fphi(d, m, y)
           = 2 * (d.e[y] * (ef[y] - ef[y - 1]) - d.e[y + 1] * (ef[y + 1] - ef[y])
                    - d.h[y] * (ep[y] - en[y]))
<1>1. /\ y \in 0 .. d.ylen /\ y + 1 \in 0 .. d.ylen
      /\ y - 1 \in -1 .. d.ylen /\ y \in -1 .. d.ylen /\ y + 1 \in -1 .. d.ylen
  BY EqAround
<1>2. PICK e, g, h, f, l, r :
        /\ e = d.e[y] /\ g = d.e[y + 1] /\ h = d.h[y]
        /\ f = v.phi[y] /\ l = Eq!Phi(d, v, y - 1) /\ r = Eq!Phi(d, v, y + 1)
  OBVIOUS
<1>3. PICK q, n, a, t :
        /\ q = v.p[y] /\ n = v.n[y] /\ a = d.Nad[y]
        /\ t = Eq!Sum([k \in Eq!Bands(d) |-> v.pt[y][k] - v.nt[y][k]], Eq!Bands(d))
  OBVIOUS
<1>4. PICK df, dl, dr, dp, dn :
        df = ef[y] /\ dl = ef[y - 1] /\ dr = ef[y + 1] /\ dp = ep[y] /\ dn = en[y]
  OBVIOUS
<1>5. /\ e \in Int /\ g \in Int /\ h \in Int
  BY <1>1, <1>2, EqDevice
<1>6. /\ f \in Int /\ l \in Int /\ r \in Int /\ q \in Int /\ n \in Int /\ a \in Int
  <2>1. f \in Int /\ q \in Int /\ n \in Int /\ a \in Int
    BY <1>2, <1>3, EqDevice, EqProfile
  <2> QED BY <1>1, <1>2, <2>1, EqNumbers
<1>7. t \in Int
  <2>1. PICK w : w = [k \in Eq!Bands(d) |-> v.pt[y][k] - v.nt[y][k]]
    OBVIOUS
  <2>2. \A k \in Eq!Bands(d) : v.nt[y][k] \in Int /\ v.pt[y][k] \in Int
    BY EqProfile
  <2>3. w \in [Eq!Bands(d) -> Int] /\ Eq!Bands(d) \in SUBSET Eq!Bands(d)
    BY <2>1, <2>2
  <2>4. Eq!Sum(w, Eq!Bands(d)) \in Int
    BY <2>3, EqSum, EqLevelsType, SumSplit
  <2> QED BY <1>3, <2>1, <2>4
<1>8. df \in Int /\ dl \in Int /\ dr \in Int /\ dp \in Int /\ dn \in Int
  BY <1>1, <1>4 DEF EqNudged
<1>9. /\ Eq!Phi(d, p, y) = Eq!Phi(d, v, y) + df /\ Eq!Phi(d, m, y) = Eq!Phi(d, v, y) - df
      /\ Eq!Phi(d, p, y - 1) = l + dl /\ Eq!Phi(d, m, y - 1) = l - dl
      /\ Eq!Phi(d, p, y + 1) = r + dr /\ Eq!Phi(d, m, y + 1) = r - dr
      /\ Eq!N(d, p, y) = Eq!N(d, v, y) + dn /\ Eq!N(d, m, y) = Eq!N(d, v, y) - dn
      /\ Eq!P(d, p, y) = Eq!P(d, v, y) + dp /\ Eq!P(d, m, y) = Eq!P(d, v, y) - dp
      /\ p.nt = v.nt /\ m.nt = v.nt /\ p.pt = v.pt /\ m.pt = v.pt
  BY <1>1, <1>2, <1>4, Zenon DEF EqNudged
<1>10. /\ p.phi[y] = f + df /\ m.phi[y] = f - df /\ p.n[y] = n + dn /\ m.n[y] = n - dn
       /\ p.p[y] = q + dp /\ m.p[y] = q - dp
  BY <1>2, <1>3, <1>9, EqHere, Zenon
<1>11. /\ Eq!Charge(d, p, y) = (q + dp) - (n + dn) + a + t
       /\ Eq!Charge(d, m, y) = (q - dp) - (n - dn) + a + t
  BY <1>3, <1>9, <1>10, Zenon DEF Eq!Charge
<1>12. /\ Eq!Fphi(d, p, y) = e * ((f + df) - (l + dl)) - g * ((r + dr) - (f + df))
                              - h * ((q + dp) - (n + dn) + a + t)
       /\ Eq!Fphi(d, m, y) = e * ((f - df) - (l - dl)) - g * ((r - dr) - (f - df))
                              - h * ((q - dp) - (n - dn) + a + t)
  BY <1>2, <1>9, <1>10, <1>11, Zenon DEF Eq!Fphi
<1>13. (e * ((f + df) - (l + dl)) - g * ((r + dr) - (f + df)) - h * ((q + dp) - (n + dn) + a + t))
        - (e * ((f - df) - (l - dl)) - g * ((r - dr) - (f - df)) - h * ((q - dp) - (n - dn) + a + t))
        = 2 * (e * (df - dl) - g * (dr - df) - h * (dp - dn))
  BY <1>5, <1>6, <1>7, <1>8, EqPoissonPoly
<1> QED BY <1>2, <1>4, <1>12, <1>13, Zenon

\* One number of one point.
LEMMA EqOnlyAt ==
  ASSUME NEW d \in Eq!Meshed, NEW y \in Eq!Points(d), NEW s \in Int
  PROVE  /\ EqOnly(d, y, s)[y] = s /\ EqOnly(d, y, s)[y - 1] = 0 /\ EqOnly(d, y, s)[y + 1] = 0
         /\ EqOnly(d, y - 1, s)[y] = 0 /\ EqOnly(d, y - 1, s)[y - 1] = s
         /\ EqOnly(d, y - 1, s)[y + 1] = 0
         /\ EqOnly(d, y + 1, s)[y] = 0 /\ EqOnly(d, y + 1, s)[y - 1] = 0
         /\ EqOnly(d, y + 1, s)[y + 1] = s
BY EqAround DEF EqOnly

\* Most terms of a change vanish.
LEMMA EqFewPoly ==
  ASSUME NEW k \in Int, NEW l \in Int, NEW s \in Int
  PROVE  /\ k * s - l * 0 = k * s /\ k * 0 - l * s = -(l * s) /\ k * 0 - l * 0 = 0
BY SMT

\* A point's fluxes, when a carrier changes there or beside it.
LEMMA EqInflows ==
  ASSUME Eq!BernNumeric, NEW d \in Eq!Meshed, NEW v \in Eq!Solution(d), NEW y \in Eq!Points(d),
         NEW s \in Int
  PROVE  /\ EqInflowN(d, v, y, EqOnly(d, y, s)) = EqIntoN(d, v, y) * s
         /\ EqInflowN(d, v, y + 1, EqOnly(d, y, s)) = -(EqFromN(d, v, y + 1) * s)
         /\ EqInflowN(d, v, y, EqOnly(d, y - 1, s)) = -(EqFromN(d, v, y) * s)
         /\ EqInflowN(d, v, y + 1, EqOnly(d, y - 1, s)) = 0
         /\ EqInflowN(d, v, y, EqOnly(d, y + 1, s)) = 0
         /\ EqInflowN(d, v, y + 1, EqOnly(d, y + 1, s)) = EqIntoN(d, v, y + 1) * s
         /\ EqInflowP(d, v, y, EqOnly(d, y, s)) = -(EqFromP(d, v, y) * s)
         /\ EqInflowP(d, v, y + 1, EqOnly(d, y, s)) = EqIntoP(d, v, y + 1) * s
         /\ EqInflowP(d, v, y, EqOnly(d, y - 1, s)) = EqIntoP(d, v, y) * s
         /\ EqInflowP(d, v, y + 1, EqOnly(d, y - 1, s)) = 0
         /\ EqInflowP(d, v, y, EqOnly(d, y + 1, s)) = 0
         /\ EqInflowP(d, v, y + 1, EqOnly(d, y + 1, s)) = -(EqFromP(d, v, y + 1) * s)
<1>1. y \in 0 .. d.ylen /\ y + 1 \in 0 .. d.ylen /\ (y + 1) - 1 = y
  BY EqAround
<1>2. PICK I, F, I1, F1, G, K, G1, K1 :
        /\ I = EqIntoN(d, v, y) /\ F = EqFromN(d, v, y)
        /\ I1 = EqIntoN(d, v, y + 1) /\ F1 = EqFromN(d, v, y + 1)
        /\ K = EqIntoP(d, v, y) /\ G = EqFromP(d, v, y)
        /\ K1 = EqIntoP(d, v, y + 1) /\ G1 = EqFromP(d, v, y + 1)
  OBVIOUS
<1>3. /\ I \in Int /\ F \in Int /\ I1 \in Int /\ F1 \in Int
      /\ G \in Int /\ K \in Int /\ G1 \in Int /\ K1 \in Int
  <2>1. I \in Int /\ F \in Int /\ G \in Int /\ K \in Int
    BY <1>1, <1>2, EqRatesInt
  <2>2. I1 \in Int /\ F1 \in Int /\ G1 \in Int /\ K1 \in Int
    BY <1>1, <1>2, EqRatesInt
  <2> QED BY <2>1, <2>2
<1>4. /\ I * s - F * 0 = I * s /\ I1 * 0 - F1 * s = -(F1 * s) /\ I * 0 - F * s = -(F * s)
      /\ I1 * 0 - F1 * 0 = 0 /\ I * 0 - F * 0 = 0 /\ I1 * s - F1 * 0 = I1 * s
  BY <1>3, EqFewPoly
<1>5. /\ K * 0 - G * s = -(G * s) /\ K1 * s - G1 * 0 = K1 * s /\ K * s - G * 0 = K * s
      /\ K1 * 0 - G1 * 0 = 0 /\ K * 0 - G * 0 = 0 /\ K1 * 0 - G1 * s = -(G1 * s)
  BY <1>3, EqFewPoly
<1>6. \A o : /\ EqInflowN(d, v, y, o) = I * o[y] - F * o[y - 1]
             /\ EqInflowN(d, v, y + 1, o) = I1 * o[y + 1] - F1 * o[y]
             /\ EqInflowP(d, v, y, o) = K * o[y - 1] - G * o[y]
             /\ EqInflowP(d, v, y + 1, o) = K1 * o[y] - G1 * o[y + 1]
  BY <1>1, <1>2, Zenon DEF EqInflowN, EqInflowP
<1>7. PICK a, q, c : a = EqOnly(d, y, s) /\ q = EqOnly(d, y - 1, s) /\ c = EqOnly(d, y + 1, s)
  OBVIOUS
<1>8. /\ a[y] = s /\ a[y - 1] = 0 /\ a[y + 1] = 0
      /\ q[y] = 0 /\ q[y - 1] = s /\ q[y + 1] = 0
      /\ c[y] = 0 /\ c[y - 1] = 0 /\ c[y + 1] = s
  BY <1>7, EqOnlyAt
<1>9. /\ EqInflowN(d, v, y, a) = I * s /\ EqInflowN(d, v, y + 1, a) = -(F1 * s)
      /\ EqInflowP(d, v, y, a) = -(G * s) /\ EqInflowP(d, v, y + 1, a) = K1 * s
  BY <1>4, <1>5, <1>6, <1>8, Zenon
<1>10. /\ EqInflowN(d, v, y, q) = -(F * s) /\ EqInflowN(d, v, y + 1, q) = 0
       /\ EqInflowP(d, v, y, q) = K * s /\ EqInflowP(d, v, y + 1, q) = 0
  BY <1>4, <1>5, <1>6, <1>8, Zenon
<1>11. /\ EqInflowN(d, v, y, c) = 0 /\ EqInflowN(d, v, y + 1, c) = I1 * s
       /\ EqInflowP(d, v, y, c) = 0 /\ EqInflowP(d, v, y + 1, c) = -(G1 * s)
  BY <1>4, <1>5, <1>6, <1>8, Zenon
<1> QED BY <1>2, <1>7, <1>9, <1>10, <1>11, Zenon

\* What is lost there.
LEMMA EqLosses ==
  ASSUME Eq!BernNumeric, NEW d \in Eq!Meshed, NEW v \in Eq!Solution(d), NEW y \in Eq!Points(d),
         NEW s \in Int
  PROVE  /\ \A e, o : e[y] = s /\ o[y] = 0 =>
              /\ EqLossN(d, v, y, e, o)
                   = s * EqByN(d, v, y) + s * EqTake1(d, v.nt[y], d.ntrapnewton)
                       + s * EqTake3(d, v.pt[y], d.ptrapnewton) + Eq!Step(d) * s
              /\ EqLossP(d, v, y, e, o) = s * EqByN(d, v, y)
         /\ \A e, o : e[y] = 0 /\ o[y] = s =>
              /\ EqLossP(d, v, y, e, o)
                   = s * EqByP(d, v, y) + s * EqTake3(d, v.nt[y], d.ntrapnewton)
                       + s * EqTake1(d, v.pt[y], d.ptrapnewton) + Eq!Step(d) * s
              /\ EqLossN(d, v, y, e, o) = s * EqByP(d, v, y)
<1>1. PICK k, l, f, g, h, q, r :
        /\ k = EqByN(d, v, y) /\ l = EqByP(d, v, y) /\ r = Eq!Step(d)
        /\ f = EqTake1(d, v.nt[y], d.ntrapnewton) /\ g = EqTake3(d, v.nt[y], d.ntrapnewton)
        /\ h = EqTake1(d, v.pt[y], d.ptrapnewton) /\ q = EqTake3(d, v.pt[y], d.ptrapnewton)
  OBVIOUS
<1>2. k \in Int /\ l \in Int /\ r \in Int
  BY <1>1, EqByType, EqSideNumbers
<1>3. f \in Int /\ g \in Int /\ h \in Int /\ q \in Int
  <2>1. v.nt[y] \in [Eq!Bands(d) -> Int] /\ v.pt[y] \in [Eq!Bands(d) -> Int]
    BY EqProfile
  <2> QED BY <1>1, <2>1, EqRateType
<1>4. /\ (s * k + 0 * l) + s * f + s * q + r * s = s * k + s * f + s * q + r * s
      /\ (s * k + 0 * l) + 0 * g + 0 * h + r * 0 = s * k
  BY <1>2, <1>3, SMT
<1>5. /\ (0 * k + s * l) + s * g + s * h + r * s = s * l + s * g + s * h + r * s
      /\ (0 * k + s * l) + 0 * f + 0 * q + r * 0 = s * l
  BY <1>2, <1>3, SMT
<1>6. \A e, o : e[y] = s /\ o[y] = 0 =>
         /\ EqLossN(d, v, y, e, o) = s * k + s * f + s * q + r * s
         /\ EqLossP(d, v, y, e, o) = s * k
  BY <1>1, <1>4, Zenon DEF EqLossN, EqLossP
<1>7. \A e, o : e[y] = 0 /\ o[y] = s =>
         /\ EqLossP(d, v, y, e, o) = s * l + s * g + s * h + r * s
         /\ EqLossN(d, v, y, e, o) = s * l
  BY <1>1, <1>5, Zenon DEF EqLossN, EqLossP
<1> QED BY <1>1, <1>6, <1>7, Zenon

\* What does not move changes no flux.
LEMMA EqNoInflow ==
  ASSUME Eq!BernNumeric, NEW d \in Eq!Meshed, NEW v \in Eq!Solution(d), NEW y \in Eq!Points(d),
         NEW z
  PROVE  /\ EqInflowN(d, v, y, EqOnly(d, z, 0)) = 0 /\ EqInflowN(d, v, y + 1, EqOnly(d, z, 0)) = 0
         /\ EqInflowP(d, v, y, EqOnly(d, z, 0)) = 0 /\ EqInflowP(d, v, y + 1, EqOnly(d, z, 0)) = 0
         /\ EqOnly(d, z, 0)[y] = 0 /\ EqOnly(d, z, 0)[y - 1] = 0 /\ EqOnly(d, z, 0)[y + 1] = 0
<1>1. /\ y \in 0 .. d.ylen /\ y + 1 \in 0 .. d.ylen /\ (y + 1) - 1 = y
      /\ y \in -1 .. d.ylen /\ y - 1 \in -1 .. d.ylen /\ y + 1 \in -1 .. d.ylen
  BY EqAround
<1>2. PICK o : o = EqOnly(d, z, 0)
  OBVIOUS
<1>3. o[y] = 0 /\ o[y - 1] = 0 /\ o[y + 1] = 0
  BY <1>1, <1>2, EqOnlyType
<1>4. \A k, l \in Int : k * 0 - l * 0 = 0
  BY SMT
<1>5. /\ EqFromN(d, v, y) \in Int /\ EqIntoN(d, v, y) \in Int
      /\ EqFromP(d, v, y) \in Int /\ EqIntoP(d, v, y) \in Int
      /\ EqFromN(d, v, y + 1) \in Int /\ EqIntoN(d, v, y + 1) \in Int
      /\ EqFromP(d, v, y + 1) \in Int /\ EqIntoP(d, v, y + 1) \in Int
  BY <1>1, EqRatesInt
<1>6. /\ EqInflowN(d, v, y, o) = 0 /\ EqInflowN(d, v, y + 1, o) = 0
      /\ EqInflowP(d, v, y, o) = 0 /\ EqInflowP(d, v, y + 1, o) = 0
  <2>1. /\ EqIntoN(d, v, y) * 0 - EqFromN(d, v, y) * 0 = 0
        /\ EqIntoN(d, v, y + 1) * 0 - EqFromN(d, v, y + 1) * 0 = 0
        /\ EqIntoP(d, v, y) * 0 - EqFromP(d, v, y) * 0 = 0
        /\ EqIntoP(d, v, y + 1) * 0 - EqFromP(d, v, y + 1) * 0 = 0
    BY <1>4, <1>5, Zenon
  <2> QED BY <1>1, <1>3, <2>1, Zenon DEF EqInflowN, EqInflowP
<1> QED BY <1>2, <1>3, <1>6, Zenon

\* The continuity equations when electrons change at z.
LEMMA EqElectronChange ==
  ASSUME Eq!BernNumeric, NEW d \in Eq!Meshed, EqDerived(d), NEW v \in Eq!Solution(d),
         NEW y \in Eq!Points(d), NEW z \in Eq!Points(d), NEW s \in Int,
         NEW o, o = EqOnly(d, z, s), NEW e, e = EqOnly(d, z, 0)
  PROVE  /\ Eq!Fn(d, EqUp(v, "n", z, s), y) - Eq!Fn(d, EqDown(v, "n", z, s), y)
              = 2 * (EqInflowN(d, v, y + 1, o) - EqInflowN(d, v, y, o)
                       - d.h[y] * EqLossN(d, v, y, o, e))
         /\ Eq!Fp(d, EqUp(v, "n", z, s), y) - Eq!Fp(d, EqDown(v, "n", z, s), y)
              = 2 * (0 - 0 + d.h[y] * EqLossP(d, v, y, o, e))
         /\ Eq!Fphi(d, EqUp(v, "n", z, s), y) - Eq!Fphi(d, EqDown(v, "n", z, s), y)
              = 2 * (d.e[y] * (0 - 0) - d.e[y + 1] * (0 - 0) - d.h[y] * (0 - o[y]))
<1>1. PICK p, m : p = EqUp(v, "n", z, s) /\ m = EqDown(v, "n", z, s)
  OBVIOUS
<1>2. EqNudged(d, v, p, m, o, e, e)
  BY <1>1, EqNudgeN
<1>3. e[y] = 0 /\ e[y - 1] = 0 /\ e[y + 1] = 0
  BY EqNoInflow
<1>4. EqInflowP(d, v, y, e) = 0 /\ EqInflowP(d, v, y + 1, e) = 0
  BY EqNoInflow
<1>5. /\ Eq!Fn(d, p, y) - Eq!Fn(d, m, y)
           = 2 * (EqInflowN(d, v, y + 1, o) - EqInflowN(d, v, y, o)
                    - d.h[y] * EqLossN(d, v, y, o, e))
      /\ Eq!Fp(d, p, y) - Eq!Fp(d, m, y)
           = 2 * (EqInflowP(d, v, y + 1, e) - EqInflowP(d, v, y, e)
                    + d.h[y] * EqLossP(d, v, y, o, e))
  BY <1>2, <1>3, EqCarrierChange
<1>6. Eq!Fphi(d, p, y) - Eq!Fphi(d, m, y)
        = 2 * (d.e[y] * (e[y] - e[y - 1]) - d.e[y + 1] * (e[y + 1] - e[y])
                 - d.h[y] * (e[y] - o[y]))
  BY <1>2, EqPoissonChange
<1> QED BY <1>1, <1>3, <1>4, <1>5, <1>6, Zenon

\* The same for holes.
LEMMA EqHoleChange ==
  ASSUME Eq!BernNumeric, NEW d \in Eq!Meshed, EqDerived(d), NEW v \in Eq!Solution(d),
         NEW y \in Eq!Points(d), NEW z \in Eq!Points(d), NEW s \in Int,
         NEW o, o = EqOnly(d, z, s), NEW e, e = EqOnly(d, z, 0)
  PROVE  /\ Eq!Fn(d, EqUp(v, "p", z, s), y) - Eq!Fn(d, EqDown(v, "p", z, s), y)
              = 2 * (0 - 0 - d.h[y] * EqLossN(d, v, y, e, o))
         /\ Eq!Fp(d, EqUp(v, "p", z, s), y) - Eq!Fp(d, EqDown(v, "p", z, s), y)
              = 2 * (EqInflowP(d, v, y + 1, o) - EqInflowP(d, v, y, o)
                       + d.h[y] * EqLossP(d, v, y, e, o))
         /\ Eq!Fphi(d, EqUp(v, "p", z, s), y) - Eq!Fphi(d, EqDown(v, "p", z, s), y)
              = 2 * (d.e[y] * (0 - 0) - d.e[y + 1] * (0 - 0) - d.h[y] * (o[y] - 0))
<1>1. PICK p, m : p = EqUp(v, "p", z, s) /\ m = EqDown(v, "p", z, s)
  OBVIOUS
<1>2. EqNudged(d, v, p, m, e, o, e)
  BY <1>1, EqNudgeP
<1>3. e[y] = 0 /\ e[y - 1] = 0 /\ e[y + 1] = 0
  BY EqNoInflow
<1>4. EqInflowN(d, v, y, e) = 0 /\ EqInflowN(d, v, y + 1, e) = 0
  BY EqNoInflow
<1>5. /\ Eq!Fn(d, p, y) - Eq!Fn(d, m, y)
           = 2 * (EqInflowN(d, v, y + 1, e) - EqInflowN(d, v, y, e)
                    - d.h[y] * EqLossN(d, v, y, e, o))
      /\ Eq!Fp(d, p, y) - Eq!Fp(d, m, y)
           = 2 * (EqInflowP(d, v, y + 1, o) - EqInflowP(d, v, y, o)
                    + d.h[y] * EqLossP(d, v, y, e, o))
  BY <1>2, <1>3, EqCarrierChange
<1>6. Eq!Fphi(d, p, y) - Eq!Fphi(d, m, y)
        = 2 * (d.e[y] * (e[y] - e[y - 1]) - d.e[y + 1] * (e[y + 1] - e[y])
                 - d.h[y] * (o[y] - e[y]))
  BY <1>2, EqPoissonChange
<1> QED BY <1>1, <1>3, <1>4, <1>5, <1>6, Zenon

\* A row against twice the change of the residuals of point y.
EqFnRow(d, v, y, var, f, l, c, r) ==
  /\ 2 * c = Eq!Fn(d, EqUp(v, var, y, f[y]), y) - Eq!Fn(d, EqDown(v, var, y, f[y]), y)
  /\ y > 0 => 2 * l = Eq!Fn(d, EqUp(v, var, y - 1, f[y - 1]), y)
                        - Eq!Fn(d, EqDown(v, var, y - 1, f[y - 1]), y)
  /\ y < d.ylen - 1 => 2 * r = Eq!Fn(d, EqUp(v, var, y + 1, f[y + 1]), y)
                                 - Eq!Fn(d, EqDown(v, var, y + 1, f[y + 1]), y)
EqFpRow(d, v, y, var, f, l, c, r) ==
  /\ 2 * c = Eq!Fp(d, EqUp(v, var, y, f[y]), y) - Eq!Fp(d, EqDown(v, var, y, f[y]), y)
  /\ y > 0 => 2 * l = Eq!Fp(d, EqUp(v, var, y - 1, f[y - 1]), y)
                        - Eq!Fp(d, EqDown(v, var, y - 1, f[y - 1]), y)
  /\ y < d.ylen - 1 => 2 * r = Eq!Fp(d, EqUp(v, var, y + 1, f[y + 1]), y)
                                 - Eq!Fp(d, EqDown(v, var, y + 1, f[y + 1]), y)
EqFphiRow(d, v, y, var, f, l, c, r) ==
  /\ 2 * c = Eq!Fphi(d, EqUp(v, var, y, f[y]), y) - Eq!Fphi(d, EqDown(v, var, y, f[y]), y)
  /\ y > 0 => 2 * l = Eq!Fphi(d, EqUp(v, var, y - 1, f[y - 1]), y)
                        - Eq!Fphi(d, EqDown(v, var, y - 1, f[y - 1]), y)
  /\ y < d.ylen - 1 => 2 * r = Eq!Fphi(d, EqUp(v, var, y + 1, f[y + 1]), y)
                                 - Eq!Fphi(d, EqDown(v, var, y + 1, f[y + 1]), y)

\* They are the rows of NewtonStepExact.
LEMMA EqRowsAre ==
  /\ \A y, var, f, l, c, r :
       /\ EqFnRow(dev, u, y, var, f, l, c, r) => Eq!RowOf(Eq!Fn, y, var, f, l, c, r)
       /\ EqFpRow(dev, u, y, var, f, l, c, r) => Eq!RowOf(Eq!Fp, y, var, f, l, c, r)
       /\ EqFphiRow(dev, u, y, var, f, l, c, r) => Eq!RowOf(Eq!Fphi, y, var, f, l, c, r)
BY DEF EqFnRow, EqFpRow, EqFphiRow, EqUp, EqDown, Eq!RowOf, Eq!Twice

\* The changes that are left, as numbers.
LEMMA EqZeroPoly ==
  ASSUME NEW e \in Int, NEW g \in Int, NEW h \in Int, NEW s \in Int, NEW w \in Int, NEW x \in Int
  PROVE  /\ 2 * (e * (0 - 0) - g * (0 - 0) - h * (0 - s)) = 2 * (h * s)
         /\ 2 * (e * (0 - 0) - g * (0 - 0) - h * (s - 0)) = 2 * (-(h * s))
         /\ 2 * (e * (0 - 0) - g * (0 - 0) - h * (0 - 0)) = 2 * 0
         /\ 2 * (0 - 0 - h * 0) = 2 * 0 /\ 2 * (0 - 0 + h * 0) = 2 * 0
         /\ 2 * (0 - 0 - h * w) = 2 * (-(h * w)) /\ 2 * (0 - 0 + h * w) = 2 * (h * w)
         /\ 2 * (x - 0 - h * 0) = 2 * x /\ 2 * (x - 0 + h * 0) = 2 * x
         /\ 2 * (0 - (-x) - h * 0) = 2 * x /\ 2 * (0 - x + h * 0) = 2 * (-x)
BY SMTT(30)

\* What one electron more or less at y or beside it changes.
EqElectronsMove(d, v, y, z, s) ==
  /\ z = y =>
       /\ Eq!Fn(d, EqUp(v, "n", z, s), y) - Eq!Fn(d, EqDown(v, "n", z, s), y)
           = 2 * (-(EqFromN(d, v, y + 1) * s) - EqIntoN(d, v, y) * s
                    - d.h[y] * (s * EqByN(d, v, y) + s * EqTake1(d, v.nt[y], d.ntrapnewton)
                                  + s * EqTake3(d, v.pt[y], d.ptrapnewton) + Eq!Step(d) * s))
       /\ Eq!Fp(d, EqUp(v, "n", z, s), y) - Eq!Fp(d, EqDown(v, "n", z, s), y)
           = 2 * (d.h[y] * (s * EqByN(d, v, y)))
       /\ Eq!Fphi(d, EqUp(v, "n", z, s), y) - Eq!Fphi(d, EqDown(v, "n", z, s), y)
           = 2 * (d.h[y] * s)
  /\ z = y - 1 \/ z = y + 1 =>
       /\ Eq!Fp(d, EqUp(v, "n", z, s), y) - Eq!Fp(d, EqDown(v, "n", z, s), y) = 2 * 0
       /\ Eq!Fphi(d, EqUp(v, "n", z, s), y) - Eq!Fphi(d, EqDown(v, "n", z, s), y) = 2 * 0
  /\ z = y - 1 =>
       Eq!Fn(d, EqUp(v, "n", z, s), y) - Eq!Fn(d, EqDown(v, "n", z, s), y)
         = 2 * (EqFromN(d, v, y) * s)
  /\ z = y + 1 =>
       Eq!Fn(d, EqUp(v, "n", z, s), y) - Eq!Fn(d, EqDown(v, "n", z, s), y)
         = 2 * (EqIntoN(d, v, y + 1) * s)

\* The changes when one point's electrons move: in its own equations and in its neighbours'.
LEMMA EqElectronsAt ==
  ASSUME Eq!BernNumeric, NEW d \in Eq!Meshed, EqDerived(d), NEW v \in Eq!Solution(d),
         NEW y \in Eq!Points(d), NEW z \in Eq!Points(d), NEW s \in Int
  PROVE  EqElectronsMove(d, v, y, z, s)
<1>1. PICK o, e, h, g, f :
        /\ o = EqOnly(d, z, s) /\ e = EqOnly(d, z, 0) /\ h = d.h[y] /\ g = d.e[y] /\ f = d.e[y + 1]
  OBVIOUS
<1>2. PICK N, P, C :
        /\ N = Eq!Fn(d, EqUp(v, "n", z, s), y) - Eq!Fn(d, EqDown(v, "n", z, s), y)
        /\ P = Eq!Fp(d, EqUp(v, "n", z, s), y) - Eq!Fp(d, EqDown(v, "n", z, s), y)
        /\ C = Eq!Fphi(d, EqUp(v, "n", z, s), y) - Eq!Fphi(d, EqDown(v, "n", z, s), y)
  OBVIOUS
<1>3. /\ N = 2 * (EqInflowN(d, v, y + 1, o) - EqInflowN(d, v, y, o) - h * EqLossN(d, v, y, o, e))
      /\ P = 2 * (0 - 0 + h * EqLossP(d, v, y, o, e))
      /\ C = 2 * (g * (0 - 0) - f * (0 - 0) - h * (0 - o[y]))
  <2>1. /\ Eq!Fn(d, EqUp(v, "n", z, s), y) - Eq!Fn(d, EqDown(v, "n", z, s), y)
             = 2 * (EqInflowN(d, v, y + 1, o) - EqInflowN(d, v, y, o)
                      - d.h[y] * EqLossN(d, v, y, o, e))
        /\ Eq!Fp(d, EqUp(v, "n", z, s), y) - Eq!Fp(d, EqDown(v, "n", z, s), y)
             = 2 * (0 - 0 + d.h[y] * EqLossP(d, v, y, o, e))
        /\ Eq!Fphi(d, EqUp(v, "n", z, s), y) - Eq!Fphi(d, EqDown(v, "n", z, s), y)
             = 2 * (d.e[y] * (0 - 0) - d.e[y + 1] * (0 - 0) - d.h[y] * (0 - o[y]))
    BY <1>1, EqElectronChange
  <2> QED BY <1>1, <1>2, <2>1, Zenon
<1>4. /\ h \in Int /\ g \in Int /\ f \in Int
  BY <1>1, EqAround, EqDevice
<1>5. e[y] = 0
  BY <1>1, EqNoInflow
<1>6. PICK k, w, F, I, F0, I1 :
        /\ k = s * EqByN(d, v, y) + s * EqTake1(d, v.nt[y], d.ntrapnewton)
                 + s * EqTake3(d, v.pt[y], d.ptrapnewton) + Eq!Step(d) * s
        /\ w = s * EqByN(d, v, y)
        /\ F = EqFromN(d, v, y + 1) * s /\ I = EqIntoN(d, v, y) * s
        /\ F0 = EqFromN(d, v, y) * s /\ I1 = EqIntoN(d, v, y + 1) * s
  OBVIOUS
<1>7. w \in Int /\ F0 \in Int /\ I1 \in Int
  <2>1. /\ EqFromN(d, v, y) \in Int /\ EqIntoN(d, v, y + 1) \in Int /\ EqByN(d, v, y) \in Int
    BY EqAround, EqRatesInt, EqByType
  <2>2. \A p, q \in Int : p * q \in Int
    BY SMT
  <2> QED BY <1>6, <2>1, <2>2, Zenon
<1>8. ASSUME z = y
      PROVE  /\ N = 2 * (-F - I - h * k) /\ P = 2 * (h * w) /\ C = 2 * (h * s)
  <2>1. o[y] = s /\ o = EqOnly(d, y, s)
    BY <1>1, <1>8, EqOnlyAt
  <2>2. EqInflowN(d, v, y, o) = I /\ EqInflowN(d, v, y + 1, o) = -F
    BY <1>6, <2>1, EqInflows
  <2>3. EqLossN(d, v, y, o, e) = k /\ EqLossP(d, v, y, o, e) = w
    BY <1>5, <1>6, <2>1, EqLosses
  <2>4. /\ N = 2 * (-F - I - h * k) /\ P = 2 * (0 - 0 + h * w)
        /\ C = 2 * (g * (0 - 0) - f * (0 - 0) - h * (0 - s))
    BY <1>3, <2>1, <2>2, <2>3, Zenon
  <2>5. /\ 2 * (0 - 0 + h * w) = 2 * (h * w)
        /\ 2 * (g * (0 - 0) - f * (0 - 0) - h * (0 - s)) = 2 * (h * s)
    BY <1>4, <1>7, EqZeroPoly
  <2> QED BY <2>4, <2>5, Zenon
<1>9. ASSUME z = y - 1 \/ z = y + 1
      PROVE  /\ EqLossN(d, v, y, o, e) = 0 /\ P = 2 * 0 /\ C = 2 * 0
  <2>1. o[y] = 0
    BY <1>1, <1>9, EqOnlyAt
  <2>2. EqLossN(d, v, y, o, e) = 0 /\ EqLossP(d, v, y, o, e) = 0
    <3>1. EqLossN(d, v, y, o, e) = 0 * EqByP(d, v, y)
      BY <1>5, <2>1, EqLosses
    <3>2. EqLossP(d, v, y, o, e) = 0 * EqByN(d, v, y)
      BY <1>5, <2>1, EqLosses
    <3>3. 0 * EqByN(d, v, y) = 0 /\ 0 * EqByP(d, v, y) = 0
      BY EqByType
    <3> QED BY <3>1, <3>2, <3>3, Zenon
  <2>3. P = 2 * (0 - 0 + h * 0) /\ C = 2 * (g * (0 - 0) - f * (0 - 0) - h * (0 - 0))
    BY <1>3, <2>1, <2>2, Zenon
  <2>4. /\ 2 * (0 - 0 + h * 0) = 2 * 0
        /\ 2 * (g * (0 - 0) - f * (0 - 0) - h * (0 - 0)) = 2 * 0
    BY <1>4, <1>7, EqZeroPoly
  <2> QED BY <2>2, <2>3, <2>4, Zenon
<1>10. ASSUME z = y - 1 PROVE N = 2 * F0
  <2>1. EqInflowN(d, v, y, o) = -F0 /\ EqInflowN(d, v, y + 1, o) = 0
    BY <1>1, <1>6, <1>10, EqInflows
  <2>2. N = 2 * (0 - (-F0) - h * 0)
    BY <1>3, <1>9, <1>10, <2>1, Zenon
  <2>3. 2 * (0 - (-F0) - h * 0) = 2 * F0
    BY <1>4, <1>7, EqZeroPoly
  <2> QED BY <2>2, <2>3, Zenon
<1>11. ASSUME z = y + 1 PROVE N = 2 * I1
  <2>1. EqInflowN(d, v, y, o) = 0 /\ EqInflowN(d, v, y + 1, o) = I1
    BY <1>1, <1>6, <1>11, EqInflows
  <2>2. N = 2 * (I1 - 0 - h * 0)
    BY <1>3, <1>9, <1>11, <2>1, Zenon
  <2>3. 2 * (I1 - 0 - h * 0) = 2 * I1
    BY <1>4, <1>7, EqZeroPoly
  <2> QED BY <2>2, <2>3, Zenon
<1> QED BY <1>1, <1>2, <1>6, <1>8, <1>9, <1>10, <1>11, Zenon DEF EqElectronsMove

\* The same for holes.
EqHolesMove(d, v, y, z, s) ==
  /\ z = y =>
       /\ Eq!Fn(d, EqUp(v, "p", z, s), y) - Eq!Fn(d, EqDown(v, "p", z, s), y)
           = 2 * (-(d.h[y] * (s * EqByP(d, v, y))))
       /\ Eq!Fp(d, EqUp(v, "p", z, s), y) - Eq!Fp(d, EqDown(v, "p", z, s), y)
           = 2 * (EqIntoP(d, v, y + 1) * s - (-(EqFromP(d, v, y) * s))
                    + d.h[y] * (s * EqByP(d, v, y) + s * EqTake3(d, v.nt[y], d.ntrapnewton)
                                  + s * EqTake1(d, v.pt[y], d.ptrapnewton) + Eq!Step(d) * s))
       /\ Eq!Fphi(d, EqUp(v, "p", z, s), y) - Eq!Fphi(d, EqDown(v, "p", z, s), y)
           = 2 * (-(d.h[y] * s))
  /\ z = y - 1 \/ z = y + 1 =>
       /\ Eq!Fn(d, EqUp(v, "p", z, s), y) - Eq!Fn(d, EqDown(v, "p", z, s), y) = 2 * 0
       /\ Eq!Fphi(d, EqUp(v, "p", z, s), y) - Eq!Fphi(d, EqDown(v, "p", z, s), y) = 2 * 0
  /\ z = y - 1 =>
       Eq!Fp(d, EqUp(v, "p", z, s), y) - Eq!Fp(d, EqDown(v, "p", z, s), y)
         = 2 * (-(EqIntoP(d, v, y) * s))
  /\ z = y + 1 =>
       Eq!Fp(d, EqUp(v, "p", z, s), y) - Eq!Fp(d, EqDown(v, "p", z, s), y)
         = 2 * (-(EqFromP(d, v, y + 1) * s))

\* The changes when one point's holes move.
LEMMA EqHolesAt ==
  ASSUME Eq!BernNumeric, NEW d \in Eq!Meshed, EqDerived(d), NEW v \in Eq!Solution(d),
         NEW y \in Eq!Points(d), NEW z \in Eq!Points(d), NEW s \in Int
  PROVE  EqHolesMove(d, v, y, z, s)
<1>1. PICK o, e, h, g, f :
        /\ o = EqOnly(d, z, s) /\ e = EqOnly(d, z, 0) /\ h = d.h[y] /\ g = d.e[y] /\ f = d.e[y + 1]
  OBVIOUS
<1>2. PICK N, P, C :
        /\ N = Eq!Fn(d, EqUp(v, "p", z, s), y) - Eq!Fn(d, EqDown(v, "p", z, s), y)
        /\ P = Eq!Fp(d, EqUp(v, "p", z, s), y) - Eq!Fp(d, EqDown(v, "p", z, s), y)
        /\ C = Eq!Fphi(d, EqUp(v, "p", z, s), y) - Eq!Fphi(d, EqDown(v, "p", z, s), y)
  OBVIOUS
<1>3. /\ N = 2 * (0 - 0 - h * EqLossN(d, v, y, e, o))
      /\ P = 2 * (EqInflowP(d, v, y + 1, o) - EqInflowP(d, v, y, o) + h * EqLossP(d, v, y, e, o))
      /\ C = 2 * (g * (0 - 0) - f * (0 - 0) - h * (o[y] - 0))
  <2>1. /\ Eq!Fn(d, EqUp(v, "p", z, s), y) - Eq!Fn(d, EqDown(v, "p", z, s), y)
             = 2 * (0 - 0 - d.h[y] * EqLossN(d, v, y, e, o))
        /\ Eq!Fp(d, EqUp(v, "p", z, s), y) - Eq!Fp(d, EqDown(v, "p", z, s), y)
             = 2 * (EqInflowP(d, v, y + 1, o) - EqInflowP(d, v, y, o)
                      + d.h[y] * EqLossP(d, v, y, e, o))
        /\ Eq!Fphi(d, EqUp(v, "p", z, s), y) - Eq!Fphi(d, EqDown(v, "p", z, s), y)
             = 2 * (d.e[y] * (0 - 0) - d.e[y + 1] * (0 - 0) - d.h[y] * (o[y] - 0))
    BY <1>1, EqHoleChange
  <2> QED BY <1>1, <1>2, <2>1, Zenon
<1>4. /\ h \in Int /\ g \in Int /\ f \in Int
  BY <1>1, EqAround, EqDevice
<1>5. e[y] = 0
  BY <1>1, EqNoInflow
<1>6. PICK k, w, G, K, G1, K0 :
        /\ k = s * EqByP(d, v, y) + s * EqTake3(d, v.nt[y], d.ntrapnewton)
                 + s * EqTake1(d, v.pt[y], d.ptrapnewton) + Eq!Step(d) * s
        /\ w = s * EqByP(d, v, y)
        /\ G = EqFromP(d, v, y) * s /\ K = EqIntoP(d, v, y + 1) * s
        /\ G1 = EqFromP(d, v, y + 1) * s /\ K0 = EqIntoP(d, v, y) * s
  OBVIOUS
<1>7. w \in Int /\ G1 \in Int /\ K0 \in Int
  <2>1. /\ EqFromP(d, v, y + 1) \in Int /\ EqIntoP(d, v, y) \in Int /\ EqByP(d, v, y) \in Int
    BY EqAround, EqRatesInt, EqByType
  <2>2. \A p, q \in Int : p * q \in Int
    BY SMT
  <2> QED BY <1>6, <2>1, <2>2, Zenon
<1>8. ASSUME z = y
      PROVE  /\ N = 2 * (-(h * w)) /\ P = 2 * (K - (-G) + h * k) /\ C = 2 * (-(h * s))
  <2>1. o[y] = s /\ o = EqOnly(d, y, s)
    BY <1>1, <1>8, EqOnlyAt
  <2>2. EqInflowP(d, v, y, o) = -G /\ EqInflowP(d, v, y + 1, o) = K
    BY <1>6, <2>1, EqInflows
  <2>3. EqLossP(d, v, y, e, o) = k /\ EqLossN(d, v, y, e, o) = w
    BY <1>5, <1>6, <2>1, EqLosses
  <2>4. /\ P = 2 * (K - (-G) + h * k) /\ N = 2 * (0 - 0 - h * w)
        /\ C = 2 * (g * (0 - 0) - f * (0 - 0) - h * (s - 0))
    BY <1>3, <2>1, <2>2, <2>3, Zenon
  <2>5. /\ 2 * (0 - 0 - h * w) = 2 * (-(h * w))
        /\ 2 * (g * (0 - 0) - f * (0 - 0) - h * (s - 0)) = 2 * (-(h * s))
    BY <1>4, <1>7, EqZeroPoly
  <2> QED BY <2>4, <2>5, Zenon
<1>9. ASSUME z = y - 1 \/ z = y + 1
      PROVE  /\ EqLossP(d, v, y, e, o) = 0 /\ N = 2 * 0 /\ C = 2 * 0
  <2>1. o[y] = 0
    BY <1>1, <1>9, EqOnlyAt
  <2>2. EqLossN(d, v, y, e, o) = 0 /\ EqLossP(d, v, y, e, o) = 0
    <3>1. EqLossN(d, v, y, e, o) = 0 * EqByP(d, v, y)
      BY <1>5, <2>1, EqLosses
    <3>2. EqLossP(d, v, y, e, o) = 0 * EqByN(d, v, y)
      BY <1>5, <2>1, EqLosses
    <3>3. 0 * EqByN(d, v, y) = 0 /\ 0 * EqByP(d, v, y) = 0
      BY EqByType
    <3> QED BY <3>1, <3>2, <3>3, Zenon
  <2>3. N = 2 * (0 - 0 - h * 0) /\ C = 2 * (g * (0 - 0) - f * (0 - 0) - h * (0 - 0))
    BY <1>3, <2>1, <2>2, Zenon
  <2>4. /\ 2 * (0 - 0 - h * 0) = 2 * 0
        /\ 2 * (g * (0 - 0) - f * (0 - 0) - h * (0 - 0)) = 2 * 0
    BY <1>4, <1>7, EqZeroPoly
  <2> QED BY <2>2, <2>3, <2>4, Zenon
<1>10. ASSUME z = y - 1 PROVE P = 2 * (-K0)
  <2>1. EqInflowP(d, v, y, o) = K0 /\ EqInflowP(d, v, y + 1, o) = 0
    BY <1>1, <1>6, <1>10, EqInflows
  <2>2. P = 2 * (0 - K0 + h * 0)
    BY <1>3, <1>9, <1>10, <2>1, Zenon
  <2>3. 2 * (0 - K0 + h * 0) = 2 * (-K0)
    BY <1>4, <1>7, EqZeroPoly
  <2> QED BY <2>2, <2>3, Zenon
<1>11. ASSUME z = y + 1 PROVE P = 2 * (-G1)
  <2>1. EqInflowP(d, v, y, o) = 0 /\ EqInflowP(d, v, y + 1, o) = -G1
    BY <1>1, <1>6, <1>11, EqInflows
  <2>2. P = 2 * (-G1 - 0 + h * 0)
    BY <1>3, <1>9, <1>11, <2>1, Zenon
  <2>3. 2 * (-G1 - 0 + h * 0) = 2 * (-G1)
    BY <1>4, <1>7
  <2> QED BY <2>2, <2>3, Zenon
<1> QED BY <1>1, <1>2, <1>6, <1>8, <1>9, <1>10, <1>11, Zenon DEF EqHolesMove

\* What a unit of potential more or less at y or beside it changes.
LEMMA EqPotentialAt ==
  ASSUME Eq!BernNumeric, Eq!BernOfSecondDegree, NEW d \in Eq!Meshed, EqDerived(d),
         NEW v \in Eq!Solution(d), NEW y \in Eq!Points(d), NEW z \in Eq!Points(d),
         NEW p, p = EqUp(v, "phi", z, 1), NEW m, m = EqDown(v, "phi", z, 1)
  PROVE  /\ z = y =>
              /\ Eq!Fn(d, p, y) - Eq!Fn(d, m, y) = 2 * (-EqSlopeN(d, v, y) - EqSlopeN(d, v, y + 1))
              /\ Eq!Fp(d, p, y) - Eq!Fp(d, m, y) = 2 * (-EqSlopeP(d, v, y) - EqSlopeP(d, v, y + 1))
         /\ z = y - 1 =>
              /\ Eq!Fn(d, p, y) - Eq!Fn(d, m, y) = 2 * EqSlopeN(d, v, y)
              /\ Eq!Fp(d, p, y) - Eq!Fp(d, m, y) = 2 * EqSlopeP(d, v, y)
         /\ z = y + 1 =>
              /\ Eq!Fn(d, p, y) - Eq!Fn(d, m, y) = 2 * EqSlopeN(d, v, y + 1)
              /\ Eq!Fp(d, p, y) - Eq!Fp(d, m, y) = 2 * EqSlopeP(d, v, y + 1)
<1>1. PICK o, e : o = EqOnly(d, z, 1) /\ e = EqOnly(d, z, 0)
  OBVIOUS
<1>2. EqNudged(d, v, p, m, e, e, o)
  BY <1>1, EqNudgePhi
<1>3. e[y] = 0 /\ e[y - 1] = 0 /\ e[y + 1] = 0
  BY <1>1, EqNoInflow
<1>4. PICK j, k, l, q : /\ j = EqSlopeN(d, v, y) /\ k = EqSlopeN(d, v, y + 1)
                        /\ l = EqSlopeP(d, v, y) /\ q = EqSlopeP(d, v, y + 1)
  OBVIOUS
<1>5. j \in Int /\ k \in Int /\ l \in Int /\ q \in Int
  BY <1>4, EqAround, EqRatesInt
<1>6. \A s, t \in {-1, 0, 1} : o[y] - o[y - 1] = s /\ o[y + 1] - o[y] = t =>
        /\ Eq!Fn(d, p, y) - Eq!Fn(d, m, y) = 2 * (t * k - s * j)
        /\ Eq!Fp(d, p, y) - Eq!Fp(d, m, y) = 2 * (t * q - s * l)
  BY <1>2, <1>3, <1>4, EqPotentialChange
<1>7. ASSUME z = y
      PROVE  /\ Eq!Fn(d, p, y) - Eq!Fn(d, m, y) = 2 * (-j - k)
             /\ Eq!Fp(d, p, y) - Eq!Fp(d, m, y) = 2 * (-l - q)
  <2>1. o[y] - o[y - 1] = 1 /\ o[y + 1] - o[y] = -1
    BY <1>1, <1>7, EqOnlyAt
  <2>2. /\ Eq!Fn(d, p, y) - Eq!Fn(d, m, y) = 2 * ((-1) * k - 1 * j)
        /\ Eq!Fp(d, p, y) - Eq!Fp(d, m, y) = 2 * ((-1) * q - 1 * l)
    BY <1>6, <2>1
  <2>3. 2 * ((-1) * k - 1 * j) = 2 * (-j - k) /\ 2 * ((-1) * q - 1 * l) = 2 * (-l - q)
    BY <1>5
  <2> QED BY <2>2, <2>3, Zenon
<1>8. ASSUME z = y - 1
      PROVE  /\ Eq!Fn(d, p, y) - Eq!Fn(d, m, y) = 2 * j
             /\ Eq!Fp(d, p, y) - Eq!Fp(d, m, y) = 2 * l
  <2>1. o[y] - o[y - 1] = -1 /\ o[y + 1] - o[y] = 0
    BY <1>1, <1>8, EqOnlyAt
  <2>2. /\ Eq!Fn(d, p, y) - Eq!Fn(d, m, y) = 2 * (0 * k - (-1) * j)
        /\ Eq!Fp(d, p, y) - Eq!Fp(d, m, y) = 2 * (0 * q - (-1) * l)
    BY <1>6, <2>1
  <2>3. 2 * (0 * k - (-1) * j) = 2 * j /\ 2 * (0 * q - (-1) * l) = 2 * l
    BY <1>5
  <2> QED BY <2>2, <2>3, Zenon
<1>9. ASSUME z = y + 1
      PROVE  /\ Eq!Fn(d, p, y) - Eq!Fn(d, m, y) = 2 * k
             /\ Eq!Fp(d, p, y) - Eq!Fp(d, m, y) = 2 * q
  <2>1. o[y] - o[y - 1] = 0 /\ o[y + 1] - o[y] = 1
    BY <1>1, <1>9, EqOnlyAt
  <2>2. /\ Eq!Fn(d, p, y) - Eq!Fn(d, m, y) = 2 * (1 * k - 0 * j)
        /\ Eq!Fp(d, p, y) - Eq!Fp(d, m, y) = 2 * (1 * q - 0 * l)
    BY <1>6, <2>1
  <2>3. 2 * (1 * k - 0 * j) = 2 * k /\ 2 * (1 * q - 0 * l) = 2 * q
    BY <1>5
  <2> QED BY <2>2, <2>3, Zenon
<1> QED BY <1>4, <1>7, <1>8, <1>9, Zenon

\* Poisson's equation there.
LEMMA EqPoissonAt ==
  ASSUME NEW d \in Eq!Meshed, NEW v \in Eq!Solution(d), NEW y \in Eq!Points(d),
         NEW z \in Eq!Points(d),
         NEW p, p = EqUp(v, "phi", z, 1), NEW m, m = EqDown(v, "phi", z, 1)
  PROVE  /\ z = y => Eq!Fphi(d, p, y) - Eq!Fphi(d, m, y) = 2 * (d.e[y] + d.e[y + 1])
         /\ z = y - 1 => Eq!Fphi(d, p, y) - Eq!Fphi(d, m, y) = 2 * (-d.e[y])
         /\ z = y + 1 => Eq!Fphi(d, p, y) - Eq!Fphi(d, m, y) = 2 * (-d.e[y + 1])
<1>1. PICK o, e : o = EqOnly(d, z, 1) /\ e = EqOnly(d, z, 0)
  OBVIOUS
<1>2. EqNudged(d, v, p, m, e, e, o)
  BY <1>1, EqNudgePhi
<1>3. e[y] = 0
  BY <1>1, EqOnlyType, EqAround
<1>4. PICK f, g, h : f = d.e[y] /\ g = d.e[y + 1] /\ h = d.h[y]
  OBVIOUS
<1>5. f \in Int /\ g \in Int /\ h \in Int
  BY <1>4, EqAround, EqDevice
<1>6. Eq!Fphi(d, p, y) - Eq!Fphi(d, m, y)
        = 2 * (f * (o[y] - o[y - 1]) - g * (o[y + 1] - o[y]) - h * (0 - 0))
  <2>1. Eq!Fphi(d, p, y) - Eq!Fphi(d, m, y)
          = 2 * (d.e[y] * (o[y] - o[y - 1]) - d.e[y + 1] * (o[y + 1] - o[y])
                   - d.h[y] * (e[y] - e[y]))
    BY <1>2, EqPoissonChange
  <2> QED BY <1>3, <1>4, <2>1, Zenon
<1>7. ASSUME z = y PROVE Eq!Fphi(d, p, y) - Eq!Fphi(d, m, y) = 2 * (f + g)
  <2>1. o[y] = 1 /\ o[y - 1] = 0 /\ o[y + 1] = 0
    BY <1>1, <1>7, EqOnlyAt
  <2>2. 2 * (f * (1 - 0) - g * (0 - 1) - h * (0 - 0)) = 2 * (f + g)
    BY <1>5
  <2> QED BY <1>6, <2>1, <2>2, Zenon
<1>8. ASSUME z = y - 1 PROVE Eq!Fphi(d, p, y) - Eq!Fphi(d, m, y) = 2 * (-f)
  <2>1. o[y] = 0 /\ o[y - 1] = 1 /\ o[y + 1] = 0
    BY <1>1, <1>8, EqOnlyAt
  <2>2. 2 * (f * (0 - 1) - g * (0 - 0) - h * (0 - 0)) = 2 * (-f)
    BY <1>5
  <2> QED BY <1>6, <2>1, <2>2, Zenon
<1>9. ASSUME z = y + 1 PROVE Eq!Fphi(d, p, y) - Eq!Fphi(d, m, y) = 2 * (-g)
  <2>1. o[y] = 0 /\ o[y - 1] = 0 /\ o[y + 1] = 1
    BY <1>1, <1>9, EqOnlyAt
  <2>2. 2 * (f * (0 - 0) - g * (1 - 0) - h * (0 - 0)) = 2 * (-g)
    BY <1>5
  <2> QED BY <1>6, <2>1, <2>2, Zenon
<1> QED BY <1>4, <1>7, <1>8, <1>9, Zenon

-----------------------------------------------------------------------------

\* neighbours that are points have their own slope
LEMMA EqNeighbour ==
  ASSUME NEW d \in Eq!Meshed, NEW y \in Eq!Points(d)
  PROVE  /\ y > 0 => /\ y - 1 \in Eq!Points(d) /\ d.dn[y - 1] \in Int /\ d.dp[y - 1] \in Int
                     /\ Eq!Dn(d, y - 1) = d.dn[y - 1] /\ Eq!Dp(d, y - 1) = d.dp[y - 1]
         /\ y < d.ylen - 1 =>
              /\ y + 1 \in Eq!Points(d) /\ d.dn[y + 1] \in Int /\ d.dp[y + 1] \in Int
              /\ Eq!Dn(d, y + 1) = d.dn[y + 1] /\ Eq!Dp(d, y + 1) = d.dp[y + 1]
<1>1. d.ylen \in Nat \ {0} /\ y \in Int /\ y >= 0 /\ y < d.ylen
  BY EqDevice DEF Eq!Points
<1>2. d.dn \in [Eq!Points(d) -> Int] /\ d.dp \in [Eq!Points(d) -> Int]
  BY EqDevice
<1>3. y > 0 => y - 1 \in Eq!Points(d) /\ ~(y - 1 < 0) /\ y - 1 # d.ylen
  BY <1>1 DEF Eq!Points
<1>4. y < d.ylen - 1 => y + 1 \in Eq!Points(d) /\ ~(y + 1 < 0) /\ y + 1 # d.ylen
  BY <1>1 DEF Eq!Points
<1> QED BY <1>2, <1>3, <1>4 DEF Eq!Dn, Eq!Dp, Eq!At

\* The rows of a point's own system, in the columns of the electrons,
LEMMA EqElectronColumns ==
  ASSUME Eq!BernNumeric, NEW d \in Eq!Meshed, EqDerived(d), NEW v \in Eq!Solution(d),
         NEW y \in Eq!Points(d), NEW a, a = EqRow(d, v, y)
  PROVE  /\ EqFphiRow(d, v, y, "n", d.dn, 0, a.dphidxic, 0)
         /\ EqFnRow(d, v, y, "n", d.dn, a.dJdxil, a.dJdxic, a.dJdxir)
         /\ EqFpRow(d, v, y, "n", d.dn, 0, a.dJpdxic, 0)
<1>1. d.dn[y] \in Int /\ d.dp[y] \in Int
  BY EqDevice
<1>2. /\ 2 * a.dphidxic = Eq!Fphi(d, EqUp(v, "n", y, d.dn[y]), y) - Eq!Fphi(d, EqDown(v, "n", y, d.dn[y]), y)
      /\ 2 * a.dJdxic = Eq!Fn(d, EqUp(v, "n", y, d.dn[y]), y) - Eq!Fn(d, EqDown(v, "n", y, d.dn[y]), y)
      /\ 2 * a.dJpdxic = Eq!Fp(d, EqUp(v, "n", y, d.dn[y]), y) - Eq!Fp(d, EqDown(v, "n", y, d.dn[y]), y)
  <2>1. PICK s : s = d.dn[y]
    OBVIOUS
  <2>2. /\ a.dphidxic = d.h[y] * s
        /\ a.dJdxic = -(EqFromN(d, v, y + 1) * s) - EqIntoN(d, v, y) * s
             - d.h[y] * (s * EqByN(d, v, y) + s * EqTake1(d, v.nt[y], d.ntrapnewton)
                           + s * EqTake3(d, v.pt[y], d.ptrapnewton) + Eq!Step(d) * s)
        /\ a.dJpdxic = d.h[y] * (s * EqByN(d, v, y))
    BY <2>1, EqRowSlopes
  <2>3. /\ Eq!Fn(d, EqUp(v, "n", y, s), y) - Eq!Fn(d, EqDown(v, "n", y, s), y)
                  = 2 * (-(EqFromN(d, v, y + 1) * s) - EqIntoN(d, v, y) * s
                           - d.h[y] * (s * EqByN(d, v, y) + s * EqTake1(d, v.nt[y], d.ntrapnewton)
                                         + s * EqTake3(d, v.pt[y], d.ptrapnewton) + Eq!Step(d) * s))
        /\ Eq!Fp(d, EqUp(v, "n", y, s), y) - Eq!Fp(d, EqDown(v, "n", y, s), y)
                  = 2 * (d.h[y] * (s * EqByN(d, v, y)))
        /\ Eq!Fphi(d, EqUp(v, "n", y, s), y) - Eq!Fphi(d, EqDown(v, "n", y, s), y)
                  = 2 * (d.h[y] * s)
    <3>1. EqElectronsMove(d, v, y, y, s)
      BY <1>1, <2>1, EqElectronsAt
    <3> QED BY <3>1, Zenon DEF EqElectronsMove
  <2> QED BY <2>1, <2>2, <2>3, Zenon
<1>3. ASSUME y > 0
      PROVE  /\ 2 * 0 = Eq!Fphi(d, EqUp(v, "n", y - 1, d.dn[y - 1]), y) - Eq!Fphi(d, EqDown(v, "n", y - 1, d.dn[y - 1]), y)
             /\ 2 * a.dJdxil = Eq!Fn(d, EqUp(v, "n", y - 1, d.dn[y - 1]), y) - Eq!Fn(d, EqDown(v, "n", y - 1, d.dn[y - 1]), y)
             /\ 2 * 0 = Eq!Fp(d, EqUp(v, "n", y - 1, d.dn[y - 1]), y) - Eq!Fp(d, EqDown(v, "n", y - 1, d.dn[y - 1]), y)
  <2>1. PICK z, s : z = y - 1 /\ s = d.dn[z]
    OBVIOUS
  <2>2. z \in Eq!Points(d) /\ s \in Int /\ Eq!Dn(d, z) = s
    BY <1>3, <2>1, EqNeighbour
  <2>3. a.dJdxil = EqFromN(d, v, y) * s
    <3>1. a.dJdxil = EqFromN(d, v, y) * Eq!Dn(d, y - 1)
      BY EqRowSlopes
    <3> QED BY <2>1, <2>2, <3>1, Zenon
  <2>6. EqElectronsMove(d, v, y, z, s)
    BY <2>2, EqElectronsAt
  <2>4. Eq!Fn(d, EqUp(v, "n", z, s), y) - Eq!Fn(d, EqDown(v, "n", z, s), y)
          = 2 * (EqFromN(d, v, y) * s)
    BY <2>1, <2>6, Zenon DEF EqElectronsMove
  <2>5. /\ Eq!Fp(d, EqUp(v, "n", z, s), y) - Eq!Fp(d, EqDown(v, "n", z, s), y) = 2 * 0
        /\ Eq!Fphi(d, EqUp(v, "n", z, s), y) - Eq!Fphi(d, EqDown(v, "n", z, s), y) = 2 * 0
    BY <2>1, <2>6, Zenon DEF EqElectronsMove
  <2> QED BY <2>1, <2>3, <2>4, <2>5, Zenon
<1>4. ASSUME y < d.ylen - 1
      PROVE  /\ 2 * 0 = Eq!Fphi(d, EqUp(v, "n", y + 1, d.dn[y + 1]), y) - Eq!Fphi(d, EqDown(v, "n", y + 1, d.dn[y + 1]), y)
             /\ 2 * a.dJdxir = Eq!Fn(d, EqUp(v, "n", y + 1, d.dn[y + 1]), y) - Eq!Fn(d, EqDown(v, "n", y + 1, d.dn[y + 1]), y)
             /\ 2 * 0 = Eq!Fp(d, EqUp(v, "n", y + 1, d.dn[y + 1]), y) - Eq!Fp(d, EqDown(v, "n", y + 1, d.dn[y + 1]), y)
  <2>1. PICK z, s : z = y + 1 /\ s = d.dn[z]
    OBVIOUS
  <2>2. z \in Eq!Points(d) /\ s \in Int /\ Eq!Dn(d, z) = s
    BY <1>4, <2>1, EqNeighbour
  <2>3. a.dJdxir = EqIntoN(d, v, y + 1) * s
    <3>1. a.dJdxir = EqIntoN(d, v, y + 1) * Eq!Dn(d, y + 1)
      BY EqRowSlopes
    <3> QED BY <2>1, <2>2, <3>1, Zenon
  <2>6. EqElectronsMove(d, v, y, z, s)
    BY <2>2, EqElectronsAt
  <2>4. Eq!Fn(d, EqUp(v, "n", z, s), y) - Eq!Fn(d, EqDown(v, "n", z, s), y)
          = 2 * (EqIntoN(d, v, y + 1) * s)
    BY <2>1, <2>6, Zenon DEF EqElectronsMove
  <2>5. /\ Eq!Fp(d, EqUp(v, "n", z, s), y) - Eq!Fp(d, EqDown(v, "n", z, s), y) = 2 * 0
        /\ Eq!Fphi(d, EqUp(v, "n", z, s), y) - Eq!Fphi(d, EqDown(v, "n", z, s), y) = 2 * 0
    BY <2>1, <2>6, Zenon DEF EqElectronsMove
  <2> QED BY <2>1, <2>3, <2>4, <2>5, Zenon
<1> QED BY <1>2, <1>3, <1>4, Zenon DEF EqFnRow, EqFpRow, EqFphiRow

\* of the holes,
LEMMA EqHoleColumns ==
  ASSUME Eq!BernNumeric, NEW d \in Eq!Meshed, EqDerived(d), NEW v \in Eq!Solution(d),
         NEW y \in Eq!Points(d), NEW a, a = EqRow(d, v, y)
  PROVE  /\ EqFphiRow(d, v, y, "p", d.dp, 0, a.dphidxipc, 0)
         /\ EqFnRow(d, v, y, "p", d.dp, 0, a.dJdxipc, 0)
         /\ EqFpRow(d, v, y, "p", d.dp, a.dJpdxipl, a.dJpdxipc, a.dJpdxipr)
<1>1. d.dn[y] \in Int /\ d.dp[y] \in Int
  BY EqDevice
<1>2. /\ 2 * a.dphidxipc = Eq!Fphi(d, EqUp(v, "p", y, d.dp[y]), y) - Eq!Fphi(d, EqDown(v, "p", y, d.dp[y]), y)
      /\ 2 * a.dJdxipc = Eq!Fn(d, EqUp(v, "p", y, d.dp[y]), y) - Eq!Fn(d, EqDown(v, "p", y, d.dp[y]), y)
      /\ 2 * a.dJpdxipc = Eq!Fp(d, EqUp(v, "p", y, d.dp[y]), y) - Eq!Fp(d, EqDown(v, "p", y, d.dp[y]), y)
  <2>1. PICK s, K, G : s = d.dp[y] /\ K = EqIntoP(d, v, y + 1) * s /\ G = EqFromP(d, v, y) * s
    OBVIOUS
  <2>2. /\ a.dphidxipc = -(d.h[y] * s)
        /\ a.dJpdxipc = EqIntoP(d, v, y + 1) * s + EqFromP(d, v, y) * s
             + d.h[y] * (s * EqByP(d, v, y) + s * EqTake3(d, v.nt[y], d.ntrapnewton)
                           + s * EqTake1(d, v.pt[y], d.ptrapnewton) + Eq!Step(d) * s)
        /\ a.dJdxipc = -(d.h[y] * (s * EqByP(d, v, y)))
    BY <2>1, EqRowSlopes
  <2>3. /\ Eq!Fn(d, EqUp(v, "p", y, s), y) - Eq!Fn(d, EqDown(v, "p", y, s), y)
                  = 2 * (-(d.h[y] * (s * EqByP(d, v, y))))
        /\ Eq!Fp(d, EqUp(v, "p", y, s), y) - Eq!Fp(d, EqDown(v, "p", y, s), y)
                  = 2 * (EqIntoP(d, v, y + 1) * s - (-(EqFromP(d, v, y) * s))
                           + d.h[y] * (s * EqByP(d, v, y) + s * EqTake3(d, v.nt[y], d.ntrapnewton)
                                         + s * EqTake1(d, v.pt[y], d.ptrapnewton) + Eq!Step(d) * s))
        /\ Eq!Fphi(d, EqUp(v, "p", y, s), y) - Eq!Fphi(d, EqDown(v, "p", y, s), y)
                  = 2 * (-(d.h[y] * s))
    <3>1. EqHolesMove(d, v, y, y, s)
      BY <1>1, <2>1, EqHolesAt
    <3> QED BY <3>1, Zenon DEF EqHolesMove
  <2>4. K - (-G) = K + G
    <3>1. EqIntoP(d, v, y + 1) \in Int /\ EqFromP(d, v, y) \in Int /\ s \in Int
      BY <1>1, <2>1, EqAround, EqRatesInt
    <3>2. \A k, l \in Int : k * l \in Int /\ k - (-l) = k + l
      BY SMT
    <3>3. K \in Int /\ G \in Int
      BY <2>1, <3>1, <3>2
    <3> QED BY <3>2, <3>3
  <2> QED BY <2>1, <2>2, <2>3, <2>4, Zenon
<1>3. ASSUME y > 0
      PROVE  /\ 2 * 0 = Eq!Fphi(d, EqUp(v, "p", y - 1, d.dp[y - 1]), y) - Eq!Fphi(d, EqDown(v, "p", y - 1, d.dp[y - 1]), y)
             /\ 2 * 0 = Eq!Fn(d, EqUp(v, "p", y - 1, d.dp[y - 1]), y) - Eq!Fn(d, EqDown(v, "p", y - 1, d.dp[y - 1]), y)
             /\ 2 * a.dJpdxipl = Eq!Fp(d, EqUp(v, "p", y - 1, d.dp[y - 1]), y) - Eq!Fp(d, EqDown(v, "p", y - 1, d.dp[y - 1]), y)
  <2>1. PICK z, s : z = y - 1 /\ s = d.dp[z]
    OBVIOUS
  <2>2. z \in Eq!Points(d) /\ s \in Int /\ Eq!Dp(d, z) = s
    BY <1>3, <2>1, EqNeighbour
  <2>3. a.dJpdxipl = -(EqIntoP(d, v, y) * s)
    <3>1. a.dJpdxipl = -(EqIntoP(d, v, y) * Eq!Dp(d, y - 1))
      BY EqRowSlopes
    <3> QED BY <2>1, <2>2, <3>1, Zenon
  <2>6. EqHolesMove(d, v, y, z, s)
    BY <2>2, EqHolesAt
  <2>4. Eq!Fp(d, EqUp(v, "p", z, s), y) - Eq!Fp(d, EqDown(v, "p", z, s), y)
          = 2 * (-(EqIntoP(d, v, y) * s))
    BY <2>1, <2>6, Zenon DEF EqHolesMove
  <2>5. /\ Eq!Fn(d, EqUp(v, "p", z, s), y) - Eq!Fn(d, EqDown(v, "p", z, s), y) = 2 * 0
        /\ Eq!Fphi(d, EqUp(v, "p", z, s), y) - Eq!Fphi(d, EqDown(v, "p", z, s), y) = 2 * 0
    BY <2>1, <2>6, Zenon DEF EqHolesMove
  <2> QED BY <2>1, <2>3, <2>4, <2>5, Zenon
<1>4. ASSUME y < d.ylen - 1
      PROVE  /\ 2 * 0 = Eq!Fphi(d, EqUp(v, "p", y + 1, d.dp[y + 1]), y) - Eq!Fphi(d, EqDown(v, "p", y + 1, d.dp[y + 1]), y)
             /\ 2 * 0 = Eq!Fn(d, EqUp(v, "p", y + 1, d.dp[y + 1]), y) - Eq!Fn(d, EqDown(v, "p", y + 1, d.dp[y + 1]), y)
             /\ 2 * a.dJpdxipr = Eq!Fp(d, EqUp(v, "p", y + 1, d.dp[y + 1]), y) - Eq!Fp(d, EqDown(v, "p", y + 1, d.dp[y + 1]), y)
  <2>1. PICK z, s : z = y + 1 /\ s = d.dp[z]
    OBVIOUS
  <2>2. z \in Eq!Points(d) /\ s \in Int /\ Eq!Dp(d, z) = s
    BY <1>4, <2>1, EqNeighbour
  <2>3. a.dJpdxipr = -(EqFromP(d, v, y + 1) * s)
    <3>1. a.dJpdxipr = -(EqFromP(d, v, y + 1) * Eq!Dp(d, y + 1))
      BY EqRowSlopes
    <3> QED BY <2>1, <2>2, <3>1, Zenon
  <2>6. EqHolesMove(d, v, y, z, s)
    BY <2>2, EqHolesAt
  <2>4. Eq!Fp(d, EqUp(v, "p", z, s), y) - Eq!Fp(d, EqDown(v, "p", z, s), y)
          = 2 * (-(EqFromP(d, v, y + 1) * s))
    BY <2>1, <2>6, Zenon DEF EqHolesMove
  <2>5. /\ Eq!Fn(d, EqUp(v, "p", z, s), y) - Eq!Fn(d, EqDown(v, "p", z, s), y) = 2 * 0
        /\ Eq!Fphi(d, EqUp(v, "p", z, s), y) - Eq!Fphi(d, EqDown(v, "p", z, s), y) = 2 * 0
    BY <2>1, <2>6, Zenon DEF EqHolesMove
  <2> QED BY <2>1, <2>3, <2>4, <2>5, Zenon
<1> QED BY <1>2, <1>3, <1>4, Zenon DEF EqFnRow, EqFpRow, EqFphiRow

\* a unit everywhere
EqUnits(d) == [y \in Eq!Points(d) |-> 1]

\* It is a unit at a point and at its neighbours.
LEMMA EqUnitsAt ==
  ASSUME NEW d \in Eq!Meshed, NEW y \in Eq!Points(d)
  PROVE  /\ EqUnits(d)[y] = 1
         /\ y > 0 => y - 1 \in Eq!Points(d) /\ EqUnits(d)[y - 1] = 1
         /\ y < d.ylen - 1 => y + 1 \in Eq!Points(d) /\ EqUnits(d)[y + 1] = 1
BY EqNeighbour DEF EqUnits

\* and of the potential.
LEMMA EqPoissonColumn ==
  ASSUME NEW d \in Eq!Meshed, NEW v \in Eq!Solution(d),
         NEW y \in Eq!Points(d), NEW a, a = EqRow(d, v, y)
  PROVE  EqFphiRow(d, v, y, "phi", EqUnits(d), a.dphil, a.dphic, a.dphir)
<1>1. a.dphil = -d.e[y] /\ a.dphic = d.e[y] + d.e[y + 1] /\ a.dphir = -d.e[y + 1]
  BY EqRowParts
<1>2. Eq!Fphi(d, EqUp(v, "phi", y, 1), y) - Eq!Fphi(d, EqDown(v, "phi", y, 1), y)
        = 2 * (d.e[y] + d.e[y + 1])
  BY EqPoissonAt
<1>3. ASSUME y > 0
      PROVE  Eq!Fphi(d, EqUp(v, "phi", y - 1, 1), y) - Eq!Fphi(d, EqDown(v, "phi", y - 1, 1), y)
               = 2 * (-d.e[y])
  <2>1. y - 1 \in Eq!Points(d)
    BY <1>3, EqUnitsAt
  <2> QED BY <2>1, EqPoissonAt
<1>4. ASSUME y < d.ylen - 1
      PROVE  Eq!Fphi(d, EqUp(v, "phi", y + 1, 1), y) - Eq!Fphi(d, EqDown(v, "phi", y + 1, 1), y)
               = 2 * (-d.e[y + 1])
  <2>1. y + 1 \in Eq!Points(d)
    BY <1>4, EqUnitsAt
  <2> QED BY <2>1, EqPoissonAt
<1>5. /\ EqUnits(d)[y] = 1 /\ (y > 0 => EqUnits(d)[y - 1] = 1)
      /\ (y < d.ylen - 1 => EqUnits(d)[y + 1] = 1)
  BY EqUnitsAt
<1> QED BY <1>1, <1>2, <1>3, <1>4, <1>5, Zenon DEF EqFphiRow

\* and of the potential in the carriers' equations.
LEMMA EqPotentialColumns ==
  ASSUME Eq!BernNumeric, Eq!BernOfSecondDegree, NEW d \in Eq!Meshed, EqDerived(d), d.B = 0,
         NEW v \in Eq!Solution(d), NEW y \in Eq!Points(d), NEW a, a = EqRow(d, v, y)
  PROVE  /\ EqFnRow(d, v, y, "phi", EqUnits(d), a.dJdphil, a.dJdphic, a.dJdphir)
         /\ EqFpRow(d, v, y, "phi", EqUnits(d), a.dJpdphil, a.dJpdphic, a.dJpdphir)
<1>1. /\ a.dJdphil = EqSlopeN(d, v, y) /\ a.dJdphir = EqSlopeN(d, v, y + 1)
      /\ a.dJpdphil = EqSlopeP(d, v, y) /\ a.dJpdphir = EqSlopeP(d, v, y + 1)
      /\ a.dJdphic = -EqSlopeN(d, v, y) - EqSlopeN(d, v, y + 1)
      /\ a.dJpdphic = -EqSlopeP(d, v, y) - EqSlopeP(d, v, y + 1)
  BY EqRowSlopes
<1>2. /\ Eq!Fn(d, EqUp(v, "phi", y, 1), y) - Eq!Fn(d, EqDown(v, "phi", y, 1), y)
            = 2 * (-EqSlopeN(d, v, y) - EqSlopeN(d, v, y + 1))
      /\ Eq!Fp(d, EqUp(v, "phi", y, 1), y) - Eq!Fp(d, EqDown(v, "phi", y, 1), y)
            = 2 * (-EqSlopeP(d, v, y) - EqSlopeP(d, v, y + 1))
  BY EqPotentialAt
<1>3. ASSUME y > 0
      PROVE  /\ Eq!Fn(d, EqUp(v, "phi", y - 1, 1), y) - Eq!Fn(d, EqDown(v, "phi", y - 1, 1), y)
                  = 2 * EqSlopeN(d, v, y)
             /\ Eq!Fp(d, EqUp(v, "phi", y - 1, 1), y) - Eq!Fp(d, EqDown(v, "phi", y - 1, 1), y)
                  = 2 * EqSlopeP(d, v, y)
  <2>1. y - 1 \in Eq!Points(d)
    BY <1>3, EqUnitsAt
  <2> QED BY <2>1, EqPotentialAt
<1>4. ASSUME y < d.ylen - 1
      PROVE  /\ Eq!Fn(d, EqUp(v, "phi", y + 1, 1), y) - Eq!Fn(d, EqDown(v, "phi", y + 1, 1), y)
                  = 2 * EqSlopeN(d, v, y + 1)
             /\ Eq!Fp(d, EqUp(v, "phi", y + 1, 1), y) - Eq!Fp(d, EqDown(v, "phi", y + 1, 1), y)
                  = 2 * EqSlopeP(d, v, y + 1)
  <2>1. y + 1 \in Eq!Points(d)
    BY <1>4, EqUnitsAt
  <2> QED BY <2>1, EqPotentialAt
<1>5. /\ EqUnits(d)[y] = 1 /\ (y > 0 => EqUnits(d)[y - 1] = 1)
      /\ (y < d.ylen - 1 => EqUnits(d)[y + 1] = 1)
  BY EqUnitsAt
<1> QED BY <1>1, <1>2, <1>3, <1>4, <1>5, Zenon DEF EqFnRow, EqFpRow

-----------------------------------------------------------------------------

\* f and g are the same but at k
EqSameBut(f, g, S, k) == \A x \in S \ {k} : f[x] = g[x]

\* Sums of functions that differ at one index differ by what they have there.
LEMMA EqSumOne ==
  ASSUME NEW S, IsFiniteSet(S), NEW f \in [S -> Int], NEW g \in [S -> Int], NEW k \in S,
         EqSameBut(f, g, S, k)
  PROVE  SumFunctionOnSet(f, S) - SumFunctionOnSet(g, S) = f[k] - g[k]
<1>1. PICK s : s = S \ {k}
  OBVIOUS
<1>2. s \in SUBSET S /\ S \in SUBSET S /\ s \in SUBSET (S \cap S) /\ IsFiniteSet(s)
  BY <1>1, FS_Subset
<1>3. \A x \in s : f[x] = g[x]
  BY <1>1, Zenon DEF EqSameBut
<1>4. SumFunctionOnSet(f, s) = SumFunctionOnSet(g, s)
  BY <1>2, <1>3, SumAgree
<1>5. /\ SumFunctionOnSet(f, S) = f[k] + SumFunctionOnSet(f, S \ {k})
      /\ SumFunctionOnSet(g, S) = g[k] + SumFunctionOnSet(g, S \ {k})
  BY <1>2, SumSplit
<1>6. SumFunctionOnSet(f, s) \in Int /\ f[k] \in Int /\ g[k] \in Int
  BY <1>2, SumSplit
<1>7. PICK x, y, z : x = f[k] /\ y = g[k] /\ z = SumFunctionOnSet(f, s)
  OBVIOUS
<1>8. (x + z) - (y + z) = x - y
  BY <1>6, <1>7
<1> QED BY <1>1, <1>4, <1>5, <1>7, <1>8, Zenon

\* the level k holds s more and less
EqFuller(t, k, s) == [t EXCEPT ![k] = @ + s]
EqEmptier(t, k, s) == [t EXCEPT ![k] = @ - s]
\* The changes of net capture when level k moves by s.
EqLevelMoves(d, t, c, k, s) ==
  /\ EqCapturedOwn(d, EqFuller(t, k, s), c, TRUE) - EqCapturedOwn(d, EqEmptier(t, k, s), c, TRUE)
       = 2 * Eq!Own(Eq!dRates(s), c)
  /\ EqCapturedOther(d, EqFuller(t, k, s), c, TRUE) - EqCapturedOther(d, EqEmptier(t, k, s), c, TRUE)
       = 2 * Eq!Other(Eq!dRates(s), c)
  /\ EqCapturedOwn(d, EqFuller(t, k, s), c, TRUE) \in Int
  /\ EqCapturedOwn(d, EqEmptier(t, k, s), c, TRUE) \in Int
  /\ EqCapturedOther(d, EqFuller(t, k, s), c, TRUE) \in Int
  /\ EqCapturedOther(d, EqEmptier(t, k, s), c, TRUE) \in Int

\* The change of a rate with the occupation, as numbers.
LEMMA EqRatePolys ==
  ASSUME NEW l \in Int, NEW x \in Int, NEW s \in Int, NEW c \in Int
  PROVE  /\ (c * (2 * (l - (x + s))) - (x + s)) - (c * (2 * (l - (x - s))) - (x - s))
              = 2 * (c * (-2 * s) - s)
         /\ (c * (3 * (x + s)) - (l - (x + s))) - (c * (3 * (x - s)) - (l - (x - s)))
              = 2 * (c * (3 * s) - (-s))
         /\ c * (2 * (l - x)) - x \in Int /\ c * (3 * x) - (l - x) \in Int
<1>1. /\ c * (2 * (l - (x + s))) - c * (2 * (l - (x - s))) = 2 * (c * (-2 * s))
      /\ c * (3 * (x + s)) - c * (3 * (x - s)) = 2 * (c * (3 * s))
  BY SMTT(30)
<1>2. /\ c * (2 * (l - (x + s))) \in Int /\ c * (2 * (l - (x - s))) \in Int /\ c * (-2 * s) \in Int
      /\ c * (3 * (x + s)) \in Int /\ c * (3 * (x - s)) \in Int /\ c * (3 * s) \in Int
      /\ c * (2 * (l - x)) \in Int /\ c * (3 * x) \in Int
  BY SMT
<1> QED BY <1>1, <1>2

\* Net capture changes with a level's occupation by that level's derivatives.
LEMMA EqCaptureStep ==
  ASSUME NEW d \in Eq!Meshed, NEW t \in [Eq!Bands(d) -> Int], NEW k \in Eq!Bands(d),
         NEW c \in Int, NEW s \in Int
  PROVE  EqLevelMoves(d, t, c, k, s)
<1>1. PICK S, l, p, m : /\ S = Eq!Bands(d) /\ l = d.Nt
                        /\ p = EqFuller(t, k, s) /\ m = EqEmptier(t, k, s)
  OBVIOUS
<1>2. IsFiniteSet(S) /\ l \in Int /\ S \in SUBSET S /\ k \in S
  BY <1>1, EqRateType, EqDevice
<1>3. /\ p \in [S -> Int] /\ m \in [S -> Int] /\ p[k] = t[k] + s /\ m[k] = t[k] - s
      /\ \A x \in S \ {k} : p[x] = m[x]
  BY <1>1 DEF EqFuller, EqEmptier
<1>4. PICK f, g : /\ f = [x \in Eq!Bands(d) |-> Eq!Own(Eq!Rates(d.Nt, p[x]), c)]
                  /\ g = [x \in Eq!Bands(d) |-> Eq!Own(Eq!Rates(d.Nt, m[x]), c)]
  OBVIOUS
<1>5. PICK e, h : /\ e = [x \in Eq!Bands(d) |-> Eq!Other(Eq!Rates(d.Nt, p[x]), c)]
                  /\ h = [x \in Eq!Bands(d) |-> Eq!Other(Eq!Rates(d.Nt, m[x]), c)]
  OBVIOUS
<1>6. \A x \in S : /\ f[x] = c * (2 * (l - p[x])) - p[x] /\ g[x] = c * (2 * (l - m[x])) - m[x]
                   /\ e[x] = c * (3 * p[x]) - (l - p[x]) /\ h[x] = c * (3 * m[x]) - (l - m[x])
  BY <1>1, <1>4, <1>5 DEF Eq!Own, Eq!Other, Eq!Rates
<1>7. \A x \in S : f[x] \in Int /\ g[x] \in Int /\ e[x] \in Int /\ h[x] \in Int
  <2> TAKE x \in S
  <2>1. p[x] \in Int /\ m[x] \in Int
    BY <1>3
  <2>2. /\ c * (2 * (l - p[x])) - p[x] \in Int /\ c * (2 * (l - m[x])) - m[x] \in Int
        /\ c * (3 * p[x]) - (l - p[x]) \in Int /\ c * (3 * m[x]) - (l - m[x]) \in Int
    BY <1>2, <2>1, EqRatePolys
  <2> QED BY <1>6, <2>2, Zenon
<1>8. f \in [S -> Int] /\ g \in [S -> Int] /\ e \in [S -> Int] /\ h \in [S -> Int]
  BY <1>1, <1>4, <1>5, <1>7
<1>9. EqSameBut(f, g, S, k) /\ EqSameBut(e, h, S, k)
  BY <1>3, <1>6 DEF EqSameBut
<1>10. /\ SumFunctionOnSet(f, S) - SumFunctionOnSet(g, S) = f[k] - g[k]
       /\ SumFunctionOnSet(e, S) - SumFunctionOnSet(h, S) = e[k] - h[k]
  BY <1>2, <1>8, <1>9, EqSumOne
<1>11. /\ SumFunctionOnSet(f, S) \in Int /\ SumFunctionOnSet(g, S) \in Int
       /\ SumFunctionOnSet(e, S) \in Int /\ SumFunctionOnSet(h, S) \in Int
  BY <1>2, <1>8, SumSplit
<1>12. /\ f[k] - g[k] = 2 * Eq!Own(Eq!dRates(s), c) /\ e[k] - h[k] = 2 * Eq!Other(Eq!dRates(s), c)
  <2>1. PICK x : x = t[k]
    OBVIOUS
  <2>2. x \in Int
    BY <2>1
  <2>3. /\ f[k] = c * (2 * (l - (x + s))) - (x + s) /\ g[k] = c * (2 * (l - (x - s))) - (x - s)
        /\ e[k] = c * (3 * (x + s)) - (l - (x + s)) /\ h[k] = c * (3 * (x - s)) - (l - (x - s))
    BY <1>2, <1>3, <1>6, <2>1, Zenon
  <2>4. /\ Eq!Own(Eq!dRates(s), c) = c * (-2 * s) - s
        /\ Eq!Other(Eq!dRates(s), c) = c * (3 * s) - (-s)
    BY DEF Eq!Own, Eq!Other, Eq!dRates
  <2>5. /\ (c * (2 * (l - (x + s))) - (x + s)) - (c * (2 * (l - (x - s))) - (x - s))
             = 2 * (c * (-2 * s) - s)
        /\ (c * (3 * (x + s)) - (l - (x + s))) - (c * (3 * (x - s)) - (l - (x - s)))
             = 2 * (c * (3 * s) - (-s))
    BY <1>2, <2>2, EqRatePolys
  <2> QED BY <2>3, <2>4, <2>5, Zenon
<1>13. /\ EqCapturedOwn(d, p, c, TRUE) = SumFunctionOnSet(f, S)
       /\ EqCapturedOwn(d, m, c, TRUE) = SumFunctionOnSet(g, S)
       /\ EqCapturedOther(d, p, c, TRUE) = SumFunctionOnSet(e, S)
       /\ EqCapturedOther(d, m, c, TRUE) = SumFunctionOnSet(h, S)
  BY <1>1, <1>4, <1>5, EqSum, Zenon DEF EqCapturedOwn, EqCapturedOther, Eq!Captured
<1> QED BY <1>1, <1>10, <1>11, <1>12, <1>13, Zenon DEF EqLevelMoves

\* level k of point y holds s more and less
EqTrapUp(v, var, y, k, s) == [v EXCEPT ![var][y][k] = @ + s]
EqTrapDown(v, var, y, k, s) == [v EXCEPT ![var][y][k] = @ - s]

\* p is v but for its traps
EqSameCarriers(p, v) == p.n = v.n /\ p.p = v.p /\ p.phi = v.phi

\* A move of one level changes that level's occupation only.
LEMMA EqTrapFields ==
  ASSUME NEW d \in Eq!Meshed, NEW v \in Eq!Solution(d), NEW y \in Eq!Points(d),
         NEW k \in Eq!Bands(d), NEW s \in Int
  PROVE  /\ EqSameCarriers(EqTrapUp(v, "nt", y, k, s), v)
         /\ EqSameCarriers(EqTrapDown(v, "nt", y, k, s), v)
         /\ EqTrapUp(v, "nt", y, k, s).pt = v.pt /\ EqTrapDown(v, "nt", y, k, s).pt = v.pt
         /\ EqTrapUp(v, "nt", y, k, s).nt[y] = EqFuller(v.nt[y], k, s)
         /\ EqTrapDown(v, "nt", y, k, s).nt[y] = EqEmptier(v.nt[y], k, s)
         /\ EqSameCarriers(EqTrapUp(v, "pt", y, k, s), v)
         /\ EqSameCarriers(EqTrapDown(v, "pt", y, k, s), v)
         /\ EqTrapUp(v, "pt", y, k, s).nt = v.nt /\ EqTrapDown(v, "pt", y, k, s).nt = v.nt
         /\ EqTrapUp(v, "pt", y, k, s).pt[y] = EqFuller(v.pt[y], k, s)
         /\ EqTrapDown(v, "pt", y, k, s).pt[y] = EqEmptier(v.pt[y], k, s)
BY DEF EqTrapUp, EqTrapDown, EqSameCarriers, EqFuller, EqEmptier, Eq!Solution

\* The level holds more or less by s.
LEMMA EqLevelHolds ==
  ASSUME NEW d \in Eq!Meshed, NEW t \in [Eq!Bands(d) -> Int], NEW k \in Eq!Bands(d), NEW s \in Int
  PROVE  EqFuller(t, k, s)[k] = t[k] + s /\ EqEmptier(t, k, s)[k] = t[k] - s
BY DEF EqFuller, EqEmptier

\* what does not depend on the traps
LEMMA EqTrapKeeps ==
  ASSUME NEW d, NEW v, NEW p, EqSameCarriers(p, v)
  PROVE  \A z : /\ Eq!Flux_n(d, p, z) = Eq!Flux_n(d, v, z) /\ Eq!Flux_p(d, p, z) = Eq!Flux_p(d, v, z)
                /\ Eq!Common(d, p, z) = Eq!Common(d, v, z)
                /\ \A x : Eq!Pairs(d, p, z, x) = Eq!Pairs(d, v, z, x)
<1>1. \A z : /\ Eq!N(d, p, z) = Eq!N(d, v, z) /\ Eq!P(d, p, z) = Eq!P(d, v, z)
             /\ Eq!Phi(d, p, z) = Eq!Phi(d, v, z)
  BY Zenon DEF EqSameCarriers, Eq!N, Eq!P, Eq!Phi
<1>2. \A z : Eq!Ec(d, p, z) = Eq!Ec(d, v, z) /\ Eq!Ev(d, p, z) = Eq!Ev(d, v, z)
  BY <1>1, Zenon DEF Eq!Ec, Eq!Ev
<1>3. ASSUME NEW z
      PROVE  /\ Eq!XiFace(d, p, z) = Eq!XiFace(d, v, z) /\ Eq!XipFace(d, p, z) = Eq!XipFace(d, v, z)
             /\ Eq!En(d, p, z) = Eq!En(d, v, z) /\ Eq!Ep(d, p, z) = Eq!Ep(d, v, z)
             /\ Eq!Augers(d, p, z) = Eq!Augers(d, v, z)
             /\ \A x : Eq!Pairs(d, p, z, x) = Eq!Pairs(d, v, z, x)
  <2>1. Eq!XiFace(d, p, z) = Eq!XiFace(d, v, z) /\ Eq!XipFace(d, p, z) = Eq!XipFace(d, v, z)
    <3>1. /\ Eq!Ec(d, p, z) = Eq!Ec(d, v, z) /\ Eq!Ec(d, p, z - 1) = Eq!Ec(d, v, z - 1)
          /\ Eq!Ev(d, p, z) = Eq!Ev(d, v, z) /\ Eq!Ev(d, p, z - 1) = Eq!Ev(d, v, z - 1)
      BY <1>2
    <3> QED BY <3>1, Zenon DEF Eq!XiFace, Eq!XipFace
  <2>2. Eq!En(d, p, z) = Eq!En(d, v, z) /\ Eq!Ep(d, p, z) = Eq!Ep(d, v, z)
    BY <1>1, Zenon DEF Eq!En, Eq!Ep
  <2>3. Eq!Augers(d, p, z) = Eq!Augers(d, v, z)
    BY Zenon DEF EqSameCarriers, Eq!Augers
  <2>4. \A x : Eq!Pairs(d, p, z, x) = Eq!Pairs(d, v, z, x)
    BY <1>1, Zenon DEF Eq!Pairs
  <2> QED BY <2>1, <2>2, <2>3, <2>4
<1>4. ASSUME NEW z
      PROVE  Eq!Flux_n(d, p, z) = Eq!Flux_n(d, v, z) /\ Eq!Flux_p(d, p, z) = Eq!Flux_p(d, v, z)
  <2>1. /\ Eq!N(d, p, z) = Eq!N(d, v, z) /\ Eq!N(d, p, z - 1) = Eq!N(d, v, z - 1)
        /\ Eq!P(d, p, z) = Eq!P(d, v, z) /\ Eq!P(d, p, z - 1) = Eq!P(d, v, z - 1)
    BY <1>1
  <2>2. /\ Eq!En(d, p, z) = Eq!En(d, v, z) /\ Eq!Ep(d, p, z) = Eq!Ep(d, v, z)
        /\ Eq!En(d, p, z - 1) = Eq!En(d, v, z - 1) /\ Eq!Ep(d, p, z - 1) = Eq!Ep(d, v, z - 1)
    BY <1>3
  <2>3. Eq!XiFace(d, p, z) = Eq!XiFace(d, v, z) /\ Eq!XipFace(d, p, z) = Eq!XipFace(d, v, z)
    BY <1>3
  <2> QED BY <2>1, <2>2, <2>3, Zenon DEF Eq!Flux_n, Eq!Flux_p
<1>5. ASSUME NEW z PROVE Eq!Common(d, p, z) = Eq!Common(d, v, z)
  BY <1>3, Zenon DEF Eq!Common
<1> QED BY <1>3, <1>4, <1>5

\* The changes of a level's own equation, as numbers.
LEMMA EqTrapPoly ==
  ASSUME NEW l \in Int, NEW x \in Int, NEW n \in Int, NEW q \in Int, NEW s \in Int,
         NEW w \in Int, NEW r \in Int
  PROVE  /\ ((n * (2 * (l - (x + s))) - (x + s)) - (q * (3 * (x + s)) - (l - (x + s)))
               - w * ((x + s) - r))
              - ((n * (2 * (l - (x - s))) - (x - s)) - (q * (3 * (x - s)) - (l - (x - s)))
                   - w * ((x - s) - r))
              = 2 * ((n * (-2 * s) - s) - (q * (3 * s) - (-s)) - w * s)
         /\ (((n + s) * (2 * (l - x)) - x) - (q * (3 * x) - (l - x)) - w * (x - r))
              - (((n - s) * (2 * (l - x)) - x) - (q * (3 * x) - (l - x)) - w * (x - r))
              = 2 * (s * (2 * (l - x)))
         /\ ((n * (2 * (l - x)) - x) - ((q + s) * (3 * x) - (l - x)) - w * (x - r))
              - ((n * (2 * (l - x)) - x) - ((q - s) * (3 * x) - (l - x)) - w * (x - r))
              = 2 * (-(s * (3 * x)))
<1>1. /\ n * (2 * (l - (x + s))) - n * (2 * (l - (x - s))) = 2 * (n * (-2 * s))
      /\ q * (3 * (x + s)) - q * (3 * (x - s)) = 2 * (q * (3 * s))
      /\ w * ((x + s) - r) - w * ((x - s) - r) = 2 * (w * s)
      /\ (n + s) * (2 * (l - x)) - (n - s) * (2 * (l - x)) = 2 * (s * (2 * (l - x)))
      /\ (q + s) * (3 * x) - (q - s) * (3 * x) = 2 * (s * (3 * x))
  BY SMTT(30)
<1>2. /\ n * (2 * (l - (x + s))) \in Int /\ n * (2 * (l - (x - s))) \in Int /\ n * (-2 * s) \in Int
      /\ q * (3 * (x + s)) \in Int /\ q * (3 * (x - s)) \in Int /\ q * (3 * s) \in Int
      /\ w * ((x + s) - r) \in Int /\ w * ((x - s) - r) \in Int /\ w * s \in Int
      /\ (n + s) * (2 * (l - x)) \in Int /\ (n - s) * (2 * (l - x)) \in Int
      /\ s * (2 * (l - x)) \in Int
      /\ (q + s) * (3 * x) \in Int /\ (q - s) * (3 * x) \in Int /\ s * (3 * x) \in Int
      /\ n * (2 * (l - x)) \in Int /\ q * (3 * x) \in Int /\ w * (x - r) \in Int
  BY SMT
<1> QED BY <1>1, <1>2

\* net capture of level k, holding x, with its carriers n and q
EqLevelRate(d, x, n, q, last) ==
  (n * (2 * (d.Nt - x)) - x) - (q * (3 * x) - (d.Nt - x)) - Eq!Step(d) * (x - last)

\* It is the residual of the level.
LEMMA EqLevelRates ==
  \A d, v, y, k :
    /\ Eq!Fnt(d, v, y, k) = EqLevelRate(d, v.nt[y][k], v.n[y], v.p[y], d.ntlast)
    /\ Eq!Fpt(d, v, y, k) = EqLevelRate(d, v.pt[y][k], v.p[y], v.n[y], d.ptlast)
BY DEF EqLevelRate, Eq!Fnt, Eq!Fpt, Eq!Own, Eq!Other, Eq!Rates

\* The derivatives of a level against moves of its residual.
EqLevelRateMoves(d, x, n, q, last, dt, s, e, f) ==
  LET L == Eq!Level(d.Nt, x, dt, last, n, q, s, e, f, d.go_time) IN
  /\ 2 * L.dtrap = EqLevelRate(d, x + dt, n, q, last) - EqLevelRate(d, x - dt, n, q, last)
  /\ 2 * L.dtrap_own = EqLevelRate(d, x, n + s, q, last) - EqLevelRate(d, x, n - s, q, last)
  /\ 2 * L.dtrap_other = EqLevelRate(d, x, n, q + e, last) - EqLevelRate(d, x, n, q - e, last)

\* The derivatives of a level are those of its residual.
LEMMA EqLevelRateChange ==
  ASSUME NEW d \in Eq!Meshed, NEW x \in Int, NEW n \in Int, NEW q \in Int, NEW last \in Int,
         NEW dt \in Int, NEW s \in Int, NEW e \in Int, NEW f
  PROVE  EqLevelRateMoves(d, x, n, q, last, dt, s, e, f)
<1>1. PICK l, w, L : /\ l = d.Nt /\ w = Eq!Step(d)
                     /\ L = Eq!Level(d.Nt, x, dt, last, n, q, s, e, f, d.go_time)
  OBVIOUS
<1>2. l \in Int /\ w \in Int
  BY <1>1, EqDevice, EqSideNumbers DEF Eq!Step
<1>3. /\ L.dtrap = (n * (-2 * dt) - dt) - (q * (3 * dt) - (-dt)) - w * dt
      /\ L.dtrap_own = s * (2 * (l - x)) /\ L.dtrap_other = -(e * (3 * x))
  BY <1>1 DEF Eq!Level, Eq!Own, Eq!Other, Eq!Rates, Eq!dRates, Eq!Step
<1>4. EqLevelRate(d, x + dt, n, q, last) - EqLevelRate(d, x - dt, n, q, last)
        = 2 * ((n * (-2 * dt) - dt) - (q * (3 * dt) - (-dt)) - w * dt)
  <2>1. ((n * (2 * (l - (x + dt))) - (x + dt)) - (q * (3 * (x + dt)) - (l - (x + dt)))
               - w * ((x + dt) - last))
              - ((n * (2 * (l - (x - dt))) - (x - dt)) - (q * (3 * (x - dt)) - (l - (x - dt)))
                   - w * ((x - dt) - last))
              = 2 * ((n * (-2 * dt) - dt) - (q * (3 * dt) - (-dt)) - w * dt)
    BY <1>2, EqTrapPoly
  <2> QED BY <1>1, <2>1, Zenon DEF EqLevelRate
<1>5. EqLevelRate(d, x, n + s, q, last) - EqLevelRate(d, x, n - s, q, last)
        = 2 * (s * (2 * (l - x)))
  <2>1. (((n + s) * (2 * (l - x)) - x) - (q * (3 * x) - (l - x)) - w * (x - last))
              - (((n - s) * (2 * (l - x)) - x) - (q * (3 * x) - (l - x)) - w * (x - last))
              = 2 * (s * (2 * (l - x)))
    BY <1>2, EqTrapPoly
  <2> QED BY <1>1, <2>1, Zenon DEF EqLevelRate
<1>6. EqLevelRate(d, x, n, q + e, last) - EqLevelRate(d, x, n, q - e, last)
        = 2 * (-(e * (3 * x)))
  <2>1. ((n * (2 * (l - x)) - x) - ((q + e) * (3 * x) - (l - x)) - w * (x - last))
              - ((n * (2 * (l - x)) - x) - ((q - e) * (3 * x) - (l - x)) - w * (x - last))
              = 2 * (-(e * (3 * x)))
    BY <1>2, EqTrapPoly
  <2> QED BY <1>1, <2>1, Zenon DEF EqLevelRate
<1> QED BY <1>1, <1>3, <1>4, <1>5, <1>6, Zenon DEF EqLevelRateMoves

\* The continuity equations of y with x and w captured by the levels.
EqFnGiven(d, v, y, x, w) ==
  Eq!Flux_n(d, v, y + 1) - Eq!Flux_n(d, v, y)
    - d.h[y] * (Eq!Common(d, v, y) + x + w
                  + Eq!OfFace(d.interface_B, y - 1) * Eq!Pairs(d, v, y, y - 1)
                  + Eq!Step(d) * (v.n[y] - d.nlast) - d.Gn[y])
EqFpGiven(d, v, y, x, w) ==
  Eq!Flux_p(d, v, y + 1) - Eq!Flux_p(d, v, y)
    + d.h[y] * (Eq!Common(d, v, y) + x + w
                  + d.interface_B[y] * Eq!Pairs(d, v, y + 1, y)
                  + Eq!Step(d) * (v.p[y] - d.plast) - d.Gp[y])

\* They are the residuals of the carriers.
LEMMA EqGivenAre ==
  ASSUME NEW d, NEW v, NEW y, NEW p, EqSameCarriers(p, v)
  PROVE  /\ Eq!Fn(d, p, y) = EqFnGiven(d, v, y, EqCapturedOwn(d, p.nt[y], v.n[y], d.ntrapnewton),
                                       EqCapturedOther(d, p.pt[y], v.n[y], d.ptrapnewton))
         /\ Eq!Fp(d, p, y) = EqFpGiven(d, v, y, EqCapturedOther(d, p.nt[y], v.p[y], d.ntrapnewton),
                                       EqCapturedOwn(d, p.pt[y], v.p[y], d.ptrapnewton))
<1>1. /\ Eq!Flux_n(d, p, y) = Eq!Flux_n(d, v, y) /\ Eq!Flux_p(d, p, y) = Eq!Flux_p(d, v, y)
      /\ Eq!Flux_n(d, p, y + 1) = Eq!Flux_n(d, v, y + 1)
      /\ Eq!Flux_p(d, p, y + 1) = Eq!Flux_p(d, v, y + 1)
      /\ Eq!Common(d, p, y) = Eq!Common(d, v, y)
      /\ Eq!Pairs(d, p, y, y - 1) = Eq!Pairs(d, v, y, y - 1)
      /\ Eq!Pairs(d, p, y + 1, y) = Eq!Pairs(d, v, y + 1, y)
  BY EqTrapKeeps
<1>2. p.n = v.n /\ p.p = v.p
  BY DEF EqSameCarriers
<1>3. Eq!Fn(d, p, y) = EqFnGiven(d, v, y, EqCapturedOwn(d, p.nt[y], v.n[y], d.ntrapnewton),
                                 EqCapturedOther(d, p.pt[y], v.n[y], d.ptrapnewton))
  BY <1>1, <1>2, Zenon DEF Eq!Fn, EqFnGiven, EqCapturedOwn, EqCapturedOther
<1>4. Eq!Fp(d, p, y) = EqFpGiven(d, v, y, EqCapturedOther(d, p.nt[y], v.p[y], d.ntrapnewton),
                                 EqCapturedOwn(d, p.pt[y], v.p[y], d.ptrapnewton))
  BY <1>1, <1>2, Zenon DEF Eq!Fp, EqFpGiven, EqCapturedOwn, EqCapturedOther
<1> QED BY <1>3, <1>4

\* The change with what is captured, as numbers.
LEMMA EqGivenPoly ==
  ASSUME NEW f \in Int, NEW h \in Int, NEW c \in Int, NEW x \in Int, NEW z \in Int, NEW w \in Int,
         NEW g \in Int, NEW e \in Int, x - z = 2 * e
  PROVE  /\ (f - h * (c + x + w + g)) - (f - h * (c + z + w + g)) = -2 * 1 * h * e
         /\ (f - h * (c + w + x + g)) - (f - h * (c + w + z + g)) = 2 * (-1) * h * e
         /\ (f + h * (c + x + w + g)) - (f + h * (c + z + w + g)) = 2 * 1 * h * e
         /\ (f + h * (c + w + x + g)) - (f + h * (c + w + z + g)) = -2 * (-1) * h * e
<1>1. x = z + 2 * e
  OBVIOUS
<1>2. /\ (f - h * (c + (z + 2 * e) + w + g)) - (f - h * (c + z + w + g)) = -2 * 1 * h * e
      /\ (f - h * (c + w + (z + 2 * e) + g)) - (f - h * (c + w + z + g)) = 2 * (-1) * h * e
      /\ (f + h * (c + (z + 2 * e) + w + g)) - (f + h * (c + z + w + g)) = 2 * 1 * h * e
      /\ (f + h * (c + w + (z + 2 * e) + g)) - (f + h * (c + w + z + g)) = -2 * (-1) * h * e
  BY SMTT(30)
<1> QED BY <1>1, <1>2, Zenon

\* what changes when one of them does
EqGivenMoves(d, v, y, x, z, w, e) ==
  /\ EqFnGiven(d, v, y, x, w) - EqFnGiven(d, v, y, z, w) = -2 * 1 * d.h[y] * e
  /\ EqFnGiven(d, v, y, w, x) - EqFnGiven(d, v, y, w, z) = 2 * (-1) * d.h[y] * e
  /\ EqFpGiven(d, v, y, x, w) - EqFpGiven(d, v, y, z, w) = 2 * 1 * d.h[y] * e
  /\ EqFpGiven(d, v, y, w, x) - EqFpGiven(d, v, y, w, z) = -2 * (-1) * d.h[y] * e

\* What is captured enters the carriers' equations times the width of the cell.
LEMMA EqGivenChange ==
  ASSUME Eq!BernNumeric, NEW d \in Eq!Meshed, NEW v \in Eq!Solution(d), NEW y \in Eq!Points(d),
         NEW x \in Int, NEW z \in Int, NEW w \in Int, NEW e \in Int, x - z = 2 * e
  PROVE  EqGivenMoves(d, v, y, x, z, w, e)
<1>1. PICK h, c, f, g :
        /\ h = d.h[y] /\ c = Eq!Common(d, v, y)
        /\ f = Eq!Flux_n(d, v, y + 1) - Eq!Flux_n(d, v, y)
        /\ g = Eq!Flux_p(d, v, y + 1) - Eq!Flux_p(d, v, y)
  OBVIOUS
<1>2. PICK I, K, s, r :
        /\ I = Eq!OfFace(d.interface_B, y - 1) * Eq!Pairs(d, v, y, y - 1)
        /\ K = d.interface_B[y] * Eq!Pairs(d, v, y + 1, y)
        /\ s = Eq!Step(d) * (v.n[y] - d.nlast) - d.Gn[y]
        /\ r = Eq!Step(d) * (v.p[y] - d.plast) - d.Gp[y]
  OBVIOUS
<1>3. h \in Int /\ c \in Int /\ f \in Int /\ g \in Int
  <2>1. /\ Eq!Flux_n(d, v, y) \in Int /\ Eq!Flux_n(d, v, y + 1) \in Int
        /\ Eq!Flux_p(d, v, y) \in Int /\ Eq!Flux_p(d, v, y + 1) \in Int
    BY EqSideNumbers
  <2>2. h \in Int /\ c \in Int
    BY <1>1, EqDevice, EqCommonSum
  <2> QED BY <1>1, <2>1, <2>2
<1>4. I \in Int /\ K \in Int
  BY <1>2, EqSideNumbers DEF Eq!BLeft
<1>5. s \in Int /\ r \in Int
  <2>1. /\ v.n[y] \in Int /\ v.p[y] \in Int /\ d.nlast \in Int /\ d.plast \in Int
        /\ d.Gn[y] \in Int /\ d.Gp[y] \in Int
    BY EqDevice, EqProfile
  <2>2. Eq!Step(d) \in Int
    BY DEF Eq!Step
  <2>3. \A a, l, o, j \in Int : a * (l - o) - j \in Int
    BY SMT
  <2> QED BY <1>2, <2>1, <2>2, <2>3
<1>6. PICK i1, i2 : i1 = I + s /\ i2 = K + r
  OBVIOUS
<1>7. i1 \in Int /\ i2 \in Int
  BY <1>4, <1>5, <1>6
<1>8. /\ (f - h * (c + x + w + i1)) - (f - h * (c + z + w + i1)) = -2 * 1 * h * e
      /\ (f - h * (c + w + x + i1)) - (f - h * (c + w + z + i1)) = 2 * (-1) * h * e
      /\ (g + h * (c + x + w + i2)) - (g + h * (c + z + w + i2)) = 2 * 1 * h * e
      /\ (g + h * (c + w + x + i2)) - (g + h * (c + w + z + i2)) = -2 * (-1) * h * e
  BY <1>3, <1>7, EqGivenPoly
<1>9. /\ c + x + w + i1 = c + x + w + I + s /\ c + z + w + i1 = c + z + w + I + s
      /\ c + w + x + i1 = c + w + x + I + s /\ c + w + z + i1 = c + w + z + I + s
      /\ c + x + w + i2 = c + x + w + K + r /\ c + z + w + i2 = c + z + w + K + r
      /\ c + w + x + i2 = c + w + x + K + r /\ c + w + z + i2 = c + w + z + K + r
  BY <1>3, <1>4, <1>5, <1>6
<1>10. /\ (f - h * (c + x + w + I + s)) - (f - h * (c + z + w + I + s)) = -2 * 1 * h * e
       /\ (f - h * (c + w + x + I + s)) - (f - h * (c + w + z + I + s)) = 2 * (-1) * h * e
       /\ (g + h * (c + x + w + K + r)) - (g + h * (c + z + w + K + r)) = 2 * 1 * h * e
       /\ (g + h * (c + w + x + K + r)) - (g + h * (c + w + z + K + r)) = -2 * (-1) * h * e
  BY <1>8, <1>9, Zenon
<1> QED BY <1>1, <1>2, <1>10, Zenon DEF EqGivenMoves, EqFnGiven, EqFpGiven

\* The row of a level against twice the change of the residuals.
EqTrapRowN(d, v, y, k, l) ==
  /\ 2 * l.dtrap = Eq!Fnt(d, EqTrapUp(v, "nt", y, k, d.dnt), y, k)
                     - Eq!Fnt(d, EqTrapDown(v, "nt", y, k, d.dnt), y, k)
  /\ 2 * l.dtrap_own = Eq!Fnt(d, EqUp(v, "n", y, d.dn[y]), y, k)
                         - Eq!Fnt(d, EqDown(v, "n", y, d.dn[y]), y, k)
  /\ 2 * l.dtrap_other = Eq!Fnt(d, EqUp(v, "p", y, d.dp[y]), y, k)
                           - Eq!Fnt(d, EqDown(v, "p", y, d.dp[y]), y, k)
  /\ -2 * 1 * d.h[y] * l.down = Eq!Fn(d, EqTrapUp(v, "nt", y, k, d.dnt), y)
                                  - Eq!Fn(d, EqTrapDown(v, "nt", y, k, d.dnt), y)
  /\ 2 * 1 * d.h[y] * l.dother = Eq!Fp(d, EqTrapUp(v, "nt", y, k, d.dnt), y)
                                   - Eq!Fp(d, EqTrapDown(v, "nt", y, k, d.dnt), y)
  /\ 2 * d.h[y] * l.dphi = Eq!Fphi(d, EqTrapUp(v, "nt", y, k, d.dnt), y)
                             - Eq!Fphi(d, EqTrapDown(v, "nt", y, k, d.dnt), y)
EqTrapRowP(d, v, y, k, l) ==
  /\ 2 * l.dtrap = Eq!Fpt(d, EqTrapUp(v, "pt", y, k, d.dpt), y, k)
                     - Eq!Fpt(d, EqTrapDown(v, "pt", y, k, d.dpt), y, k)
  /\ 2 * l.dtrap_own = Eq!Fpt(d, EqUp(v, "p", y, d.dp[y]), y, k)
                         - Eq!Fpt(d, EqDown(v, "p", y, d.dp[y]), y, k)
  /\ 2 * l.dtrap_other = Eq!Fpt(d, EqUp(v, "n", y, d.dn[y]), y, k)
                           - Eq!Fpt(d, EqDown(v, "n", y, d.dn[y]), y, k)
  /\ -2 * (-1) * d.h[y] * l.down = Eq!Fp(d, EqTrapUp(v, "pt", y, k, d.dpt), y)
                                     - Eq!Fp(d, EqTrapDown(v, "pt", y, k, d.dpt), y)
  /\ 2 * (-1) * d.h[y] * l.dother = Eq!Fn(d, EqTrapUp(v, "pt", y, k, d.dpt), y)
                                      - Eq!Fn(d, EqTrapDown(v, "pt", y, k, d.dpt), y)
  /\ 2 * d.h[y] * l.dphi = Eq!Fphi(d, EqTrapUp(v, "pt", y, k, d.dpt), y)
                             - Eq!Fphi(d, EqTrapDown(v, "pt", y, k, d.dpt), y)

\* a point's densities moved
LEMMA EqMovedHere ==
  ASSUME NEW d \in Eq!Meshed, NEW v \in Eq!Solution(d), NEW y \in Eq!Points(d), NEW s \in Int
  PROVE  /\ EqUp(v, "n", y, s).n[y] = v.n[y] + s /\ EqDown(v, "n", y, s).n[y] = v.n[y] - s
         /\ EqUp(v, "n", y, s).p = v.p /\ EqDown(v, "n", y, s).p = v.p
         /\ EqUp(v, "n", y, s).nt = v.nt /\ EqDown(v, "n", y, s).nt = v.nt
         /\ EqUp(v, "n", y, s).pt = v.pt /\ EqDown(v, "n", y, s).pt = v.pt
         /\ EqUp(v, "p", y, s).p[y] = v.p[y] + s /\ EqDown(v, "p", y, s).p[y] = v.p[y] - s
         /\ EqUp(v, "p", y, s).n = v.n /\ EqDown(v, "p", y, s).n = v.n
         /\ EqUp(v, "p", y, s).nt = v.nt /\ EqDown(v, "p", y, s).nt = v.nt
         /\ EqUp(v, "p", y, s).pt = v.pt /\ EqDown(v, "p", y, s).pt = v.pt
BY DEF EqUp, EqDown, Eq!Solution

\* what the other kind of levels captures, and what the changes are, are integers
LEMMA EqCapturedInt ==
  ASSUME Eq!BernNumeric, NEW d \in Eq!Meshed, NEW v \in Eq!Solution(d), NEW y \in Eq!Points(d)
  PROVE  /\ EqCapturedOwn(d, v.nt[y], v.n[y], d.ntrapnewton) \in Int
         /\ EqCapturedOther(d, v.nt[y], v.p[y], d.ntrapnewton) \in Int
         /\ EqCapturedOwn(d, v.pt[y], v.p[y], d.ptrapnewton) \in Int
         /\ EqCapturedOther(d, v.pt[y], v.n[y], d.ptrapnewton) \in Int
<1>1. /\ EqTotal(EqOwn(EqTrapsN(d, v, y))) \in Int /\ EqTotal(EqOther(EqTrapsN(d, v, y))) \in Int
      /\ EqTotal(EqOwn(EqTrapsP(d, v, y))) \in Int /\ EqTotal(EqOther(EqTrapsP(d, v, y))) \in Int
  BY EqSideNumbers
<1> QED BY <1>1, EqCaptured, Zenon DEF EqCapturedOwn, EqCapturedOther

\* The derivatives of net capture are numbers.
LEMMA EqRateMoveInt ==
  ASSUME NEW s \in Int, NEW c \in Int
  PROVE  Eq!Own(Eq!dRates(s), c) \in Int /\ Eq!Other(Eq!dRates(s), c) \in Int
BY DEF Eq!Own, Eq!Other, Eq!dRates

\* Traps that are solved for capture.
LEMMA EqCapturedOn ==
  ASSUME NEW d, NEW t, NEW c, NEW on \in BOOLEAN, on
  PROVE  /\ EqCapturedOwn(d, t, c, on) = EqCapturedOwn(d, t, c, TRUE)
         /\ EqCapturedOther(d, t, c, on) = EqCapturedOther(d, t, c, TRUE)
BY Zenon DEF EqCapturedOwn, EqCapturedOther, Eq!Captured

\* The charge of the levels.
EqHeld(d, v, y) == Eq!Sum([k \in Eq!Bands(d) |-> v.pt[y][k] - v.nt[y][k]], Eq!Bands(d))

\* It changes with a level's charge by the width of the cell.
LEMMA EqHeldMoves ==
  ASSUME NEW d \in Eq!Meshed, NEW v \in Eq!Solution(d), NEW y \in Eq!Points(d), NEW p, NEW m,
         EqSameCarriers(p, v), EqSameCarriers(m, v), NEW s \in Int,
         EqHeld(d, p, y) \in Int, EqHeld(d, m, y) \in Int,
         EqHeld(d, p, y) - EqHeld(d, m, y) = -2 * s
  PROVE  2 * d.h[y] * s = Eq!Fphi(d, p, y) - Eq!Fphi(d, m, y)
<1>1. PICK f, h, c, x, z :
        /\ f = d.e[y] * (v.phi[y] - Eq!Phi(d, v, y - 1)) - d.e[y + 1] * (Eq!Phi(d, v, y + 1) - v.phi[y])
        /\ h = d.h[y] /\ c = v.p[y] - v.n[y] + d.Nad[y]
        /\ x = EqHeld(d, p, y) /\ z = EqHeld(d, m, y)
  OBVIOUS
<1>2. ASSUME NEW q, EqSameCarriers(q, v)
      PROVE  Eq!Fphi(d, q, y) = f - h * (c + EqHeld(d, q, y))
  <2>1. /\ Eq!Phi(d, q, y - 1) = Eq!Phi(d, v, y - 1) /\ Eq!Phi(d, q, y + 1) = Eq!Phi(d, v, y + 1)
        /\ q.phi[y] = v.phi[y] /\ q.p[y] = v.p[y] /\ q.n[y] = v.n[y]
    BY <1>2, Zenon DEF EqSameCarriers, Eq!Phi
  <2> QED BY <1>1, <2>1, Zenon DEF Eq!Fphi, Eq!Charge, EqHeld
<1>3. f \in Int /\ h \in Int /\ c \in Int /\ x \in Int /\ z \in Int
  <2>1. \A a, g \in Int : a * g \in Int /\ a - g \in Int
    BY SMT
  <2>2. /\ y \in 0 .. d.ylen /\ y + 1 \in 0 .. d.ylen
        /\ y - 1 \in -1 .. d.ylen /\ y + 1 \in -1 .. d.ylen
    BY EqAround
  <2>3. d.e[y] \in Int /\ d.e[y + 1] \in Int
    BY <2>2, EqDevice
  <2>4. /\ v.phi[y] \in Int /\ Eq!Phi(d, v, y - 1) \in Int /\ Eq!Phi(d, v, y + 1) \in Int
    BY <2>2, EqProfile, EqNumbers
  <2>5. f \in Int
    BY <1>1, <2>1, <2>3, <2>4, Zenon
  <2> QED BY <1>1, <2>5, EqDevice, EqProfile
<1>4. \A a, k, r, t, w \in Int : t - w = -2 * r => 2 * k * r = (a - k * (0 + t)) - (a - k * (0 + w))
  <2> TAKE a, k, r, t, w \in Int
  <2>1. 2 * k * r = (a - k * (0 + (w - 2 * r))) - (a - k * (0 + w))
    BY SMTT(30)
  <2> QED BY <2>1
<1>5. 2 * h * s = (f - h * (c + x)) - (f - h * (c + z))
  <2>1. f - h * (c + x) = (f - h * c) - h * (0 + x) /\ f - h * (c + z) = (f - h * c) - h * (0 + z)
    BY <1>3
  <2>2. f - h * c \in Int /\ x - z = -2 * s
    BY <1>1, <1>3
  <2>3. 2 * h * s = ((f - h * c) - h * (0 + x)) - ((f - h * c) - h * (0 + z))
    BY <1>3, <1>4, <2>2
  <2> QED BY <2>1, <2>3, Zenon
<1> QED BY <1>1, <1>2, <1>5, Zenon

\* A level that holds s more has s less charge if it holds electrons, s more if holes.
LEMMA EqPoissonMoves ==
  ASSUME NEW d \in Eq!Meshed, NEW v \in Eq!Solution(d), NEW y \in Eq!Points(d),
         NEW k \in Eq!Bands(d), NEW s \in Int
  PROVE  /\ 2 * d.h[y] * s = Eq!Fphi(d, EqTrapUp(v, "nt", y, k, s), y)
                               - Eq!Fphi(d, EqTrapDown(v, "nt", y, k, s), y)
         /\ 2 * d.h[y] * (-s) = Eq!Fphi(d, EqTrapUp(v, "pt", y, k, s), y)
                                  - Eq!Fphi(d, EqTrapDown(v, "pt", y, k, s), y)
<1>1. PICK S, t, r : S = Eq!Bands(d) /\ t = v.nt[y] /\ r = v.pt[y]
  OBVIOUS
<1>2. /\ IsFiniteSet(S) /\ S \in SUBSET S /\ k \in S /\ -s \in Int
      /\ t \in [S -> Int] /\ r \in [S -> Int]
  BY <1>1, EqLevelsType, EqProfile
<1>3. /\ EqFuller(t, k, s) \in [S -> Int] /\ EqEmptier(t, k, s) \in [S -> Int]
      /\ EqFuller(r, k, s) \in [S -> Int] /\ EqEmptier(r, k, s) \in [S -> Int]
      /\ EqFuller(t, k, s)[k] = t[k] + s /\ EqEmptier(t, k, s)[k] = t[k] - s
      /\ EqFuller(r, k, s)[k] = r[k] + s /\ EqEmptier(r, k, s)[k] = r[k] - s
      /\ \A x \in S \ {k} : /\ EqFuller(t, k, s)[x] = EqEmptier(t, k, s)[x]
                            /\ EqFuller(r, k, s)[x] = EqEmptier(r, k, s)[x]
  BY <1>2 DEF EqFuller, EqEmptier
<1>4. ASSUME NEW a \in [S -> Int], NEW o \in [S -> Int], NEW c \in [S -> Int], NEW e \in [S -> Int],
             \A x \in S \ {k} : a[x] - o[x] = c[x] - e[x], NEW w,
             (a[k] - o[k]) - (c[k] - e[k]) = w,
             NEW p, NEW m, p.pt[y] = a, p.nt[y] = o, m.pt[y] = c, m.nt[y] = e
      PROVE  /\ EqHeld(d, p, y) \in Int /\ EqHeld(d, m, y) \in Int
             /\ EqHeld(d, p, y) - EqHeld(d, m, y) = w
  <2>1. PICK f, g : f = [x \in S |-> a[x] - o[x]] /\ g = [x \in S |-> c[x] - e[x]]
    OBVIOUS
  <2>2. f \in [S -> Int] /\ g \in [S -> Int]
    BY <1>4, <2>1
  <2>3. EqSameBut(f, g, S, k)
    BY <1>4, <2>1 DEF EqSameBut
  <2>4. SumFunctionOnSet(f, S) - SumFunctionOnSet(g, S) = f[k] - g[k]
    BY <1>2, <2>2, <2>3, EqSumOne
  <2>5. SumFunctionOnSet(f, S) \in Int /\ SumFunctionOnSet(g, S) \in Int
    BY <1>2, <2>2, SumSplit
  <2>6. f[k] - g[k] = w
    BY <1>2, <1>4, <2>1
  <2>7. EqHeld(d, p, y) = SumFunctionOnSet(f, S) /\ EqHeld(d, m, y) = SumFunctionOnSet(g, S)
    BY <1>1, <1>4, <2>1, EqSum, Zenon DEF EqHeld
  <2> QED BY <2>4, <2>5, <2>6, <2>7, Zenon
<1>5. 2 * d.h[y] * s = Eq!Fphi(d, EqTrapUp(v, "nt", y, k, s), y)
                         - Eq!Fphi(d, EqTrapDown(v, "nt", y, k, s), y)
  <2>1. PICK p, m : p = EqTrapUp(v, "nt", y, k, s) /\ m = EqTrapDown(v, "nt", y, k, s)
    OBVIOUS
  <2>2. /\ EqSameCarriers(p, v) /\ EqSameCarriers(m, v) /\ p.pt[y] = r /\ m.pt[y] = r
        /\ p.nt[y] = EqFuller(t, k, s) /\ m.nt[y] = EqEmptier(t, k, s)
    BY <1>1, <2>1, EqTrapFields
  <2>3. (r[k] - EqFuller(t, k, s)[k]) - (r[k] - EqEmptier(t, k, s)[k]) = -2 * s
    BY <1>2, <1>3
  <2>4. \A x \in S \ {k} : r[x] - EqFuller(t, k, s)[x] = r[x] - EqEmptier(t, k, s)[x]
    BY <1>3, Zenon
  <2>5. EqHeld(d, p, y) \in Int /\ EqHeld(d, m, y) \in Int /\ EqHeld(d, p, y) - EqHeld(d, m, y) = -2 * s
    <3>1. PICK g, o : g = EqFuller(t, k, s) /\ o = EqEmptier(t, k, s)
      OBVIOUS
    <3>2. /\ r \in [S -> Int] /\ g \in [S -> Int] /\ o \in [S -> Int]
          /\ \A x \in S \ {k} : r[x] - g[x] = r[x] - o[x]
          /\ (r[k] - g[k]) - (r[k] - o[k]) = -2 * s
          /\ p.pt[y] = r /\ p.nt[y] = g /\ m.pt[y] = r /\ m.nt[y] = o
      BY <1>2, <1>3, <2>2, <2>3, <2>4, <3>1, Zenon
    <3> QED BY ONLY <1>4, <3>2
  <2> QED BY <2>1, <2>2, <2>5, EqHeldMoves
<1>6. 2 * d.h[y] * (-s) = Eq!Fphi(d, EqTrapUp(v, "pt", y, k, s), y)
                            - Eq!Fphi(d, EqTrapDown(v, "pt", y, k, s), y)
  <2>1. PICK p, m : p = EqTrapUp(v, "pt", y, k, s) /\ m = EqTrapDown(v, "pt", y, k, s)
    OBVIOUS
  <2>2. /\ EqSameCarriers(p, v) /\ EqSameCarriers(m, v) /\ p.nt[y] = t /\ m.nt[y] = t
        /\ p.pt[y] = EqFuller(r, k, s) /\ m.pt[y] = EqEmptier(r, k, s)
    BY <1>1, <2>1, EqTrapFields
  <2>3. (EqFuller(r, k, s)[k] - t[k]) - (EqEmptier(r, k, s)[k] - t[k]) = -2 * (-s)
    BY <1>2, <1>3
  <2>4. \A x \in S \ {k} : EqFuller(r, k, s)[x] - t[x] = EqEmptier(r, k, s)[x] - t[x]
    BY <1>3, Zenon
  <2>5. /\ EqHeld(d, p, y) \in Int /\ EqHeld(d, m, y) \in Int
        /\ EqHeld(d, p, y) - EqHeld(d, m, y) = -2 * (-s)
    <3>1. PICK g, o : g = EqFuller(r, k, s) /\ o = EqEmptier(r, k, s)
      OBVIOUS
    <3>2. /\ t \in [S -> Int] /\ g \in [S -> Int] /\ o \in [S -> Int]
          /\ \A x \in S \ {k} : g[x] - t[x] = o[x] - t[x]
          /\ (g[k] - t[k]) - (o[k] - t[k]) = -2 * (-s)
          /\ p.pt[y] = g /\ p.nt[y] = t /\ m.pt[y] = o /\ m.nt[y] = t
      BY <1>2, <1>3, <2>2, <2>3, <2>4, <3>1, Zenon
    <3> QED BY ONLY <1>4, <3>2
  <2> QED BY <1>2, <2>1, <2>2, <2>5, EqHeldMoves
<1> QED BY <1>5, <1>6

\* An electron level has the derivatives of its own equation and of the carriers',
LEMMA EqElectronTrapRows ==
  ASSUME Eq!BernNumeric, NEW d \in Eq!Meshed, NEW v \in Eq!Solution(d), NEW y \in Eq!Points(d),
         d.ntrapnewton, NEW k \in Eq!Bands(d), NEW l, l = EqLevelsN(d, v, y)[k]
  PROVE  EqTrapRowN(d, v, y, k, l)
<1>1. PICK p, m, t, x, n, q, s :
        /\ p = EqTrapUp(v, "nt", y, k, d.dnt) /\ m = EqTrapDown(v, "nt", y, k, d.dnt)
        /\ t = v.nt[y] /\ x = v.nt[y][k] /\ n = v.n[y] /\ q = v.p[y] /\ s = d.dnt
  OBVIOUS
<1>2. /\ t \in [Eq!Bands(d) -> Int] /\ x \in Int /\ n \in Int /\ q \in Int /\ s \in Int
      /\ d.dn[y] \in Int /\ d.dp[y] \in Int /\ d.ntlast \in Int /\ d.ntrapnewton \in BOOLEAN
  <2>1. t \in [Eq!Bands(d) -> Int] /\ n \in Int /\ q \in Int
    BY <1>1, EqProfile
  <2>2. x \in Int
    BY <1>1, <2>1
  <2> QED BY <1>1, <2>1, <2>2, EqDevice
<1>3. l = Eq!Level(d.Nt, x, s, d.ntlast, n, q, d.dn[y], d.dp[y], s, d.go_time)
  BY <1>1 DEF EqLevelsN
<1>4. l.down = Eq!Own(Eq!dRates(s), n) /\ l.dother = Eq!Other(Eq!dRates(s), q)
  BY <1>3 DEF Eq!Level
<1>5. /\ EqSameCarriers(p, v) /\ EqSameCarriers(m, v) /\ p.pt = v.pt /\ m.pt = v.pt
      /\ p.nt[y] = EqFuller(t, k, s) /\ m.nt[y] = EqEmptier(t, k, s)
  BY <1>1, <1>2, EqTrapFields
<1>6. /\ 2 * l.dtrap = EqLevelRate(d, x + s, n, q, d.ntlast) - EqLevelRate(d, x - s, n, q, d.ntlast)
      /\ 2 * l.dtrap_own = EqLevelRate(d, x, n + d.dn[y], q, d.ntlast)
                             - EqLevelRate(d, x, n - d.dn[y], q, d.ntlast)
      /\ 2 * l.dtrap_other = EqLevelRate(d, x, n, q + d.dp[y], d.ntlast)
                               - EqLevelRate(d, x, n, q - d.dp[y], d.ntlast)
  <2>1. EqLevelRateMoves(d, x, n, q, d.ntlast, s, d.dn[y], d.dp[y], s)
    BY <1>2, EqLevelRateChange
  <2> QED BY <1>3, <2>1, Zenon DEF EqLevelRateMoves
<1>7. 2 * l.dtrap = Eq!Fnt(d, p, y, k) - Eq!Fnt(d, m, y, k)
  <2>1. p.nt[y][k] = x + s /\ m.nt[y][k] = x - s
    BY <1>1, <1>2, <1>5, EqLevelHolds
  <2>2. p.n[y] = n /\ p.p[y] = q /\ m.n[y] = n /\ m.p[y] = q
    BY <1>1, <1>5 DEF EqSameCarriers
  <2>3. /\ Eq!Fnt(d, p, y, k) = EqLevelRate(d, p.nt[y][k], p.n[y], p.p[y], d.ntlast)
        /\ Eq!Fnt(d, m, y, k) = EqLevelRate(d, m.nt[y][k], m.n[y], m.p[y], d.ntlast)
    BY EqLevelRates
  <2> QED BY <1>6, <2>1, <2>2, <2>3, Zenon
<1>8. 2 * l.dtrap_own = Eq!Fnt(d, EqUp(v, "n", y, d.dn[y]), y, k)
                          - Eq!Fnt(d, EqDown(v, "n", y, d.dn[y]), y, k)
  <2>1. PICK g, h : g = EqUp(v, "n", y, d.dn[y]) /\ h = EqDown(v, "n", y, d.dn[y])
    OBVIOUS
  <2>2. /\ g.nt[y][k] = x /\ h.nt[y][k] = x /\ g.n[y] = n + d.dn[y] /\ h.n[y] = n - d.dn[y]
        /\ g.p[y] = q /\ h.p[y] = q
    <3>1. /\ EqUp(v, "n", y, d.dn[y]).n[y] = v.n[y] + d.dn[y]
          /\ EqDown(v, "n", y, d.dn[y]).n[y] = v.n[y] - d.dn[y]
          /\ EqUp(v, "n", y, d.dn[y]).p = v.p /\ EqDown(v, "n", y, d.dn[y]).p = v.p
          /\ EqUp(v, "n", y, d.dn[y]).nt = v.nt /\ EqDown(v, "n", y, d.dn[y]).nt = v.nt
          /\ EqUp(v, "n", y, d.dn[y]).pt = v.pt /\ EqDown(v, "n", y, d.dn[y]).pt = v.pt
      BY <1>2, EqMovedHere
    <3> QED BY <1>1, <2>1, <3>1, Zenon
  <2>3. /\ Eq!Fnt(d, g, y, k) = EqLevelRate(d, g.nt[y][k], g.n[y], g.p[y], d.ntlast)
        /\ Eq!Fnt(d, h, y, k) = EqLevelRate(d, h.nt[y][k], h.n[y], h.p[y], d.ntlast)
    BY EqLevelRates
  <2> QED BY <1>6, <2>1, <2>2, <2>3, Zenon
<1>9. 2 * l.dtrap_other = Eq!Fnt(d, EqUp(v, "p", y, d.dp[y]), y, k)
                            - Eq!Fnt(d, EqDown(v, "p", y, d.dp[y]), y, k)
  <2>1. PICK g, h : g = EqUp(v, "p", y, d.dp[y]) /\ h = EqDown(v, "p", y, d.dp[y])
    OBVIOUS
  <2>2. /\ g.nt[y][k] = x /\ h.nt[y][k] = x /\ g.p[y] = q + d.dp[y] /\ h.p[y] = q - d.dp[y]
        /\ g.n[y] = n /\ h.n[y] = n
    <3>1. /\ EqUp(v, "p", y, d.dp[y]).p[y] = v.p[y] + d.dp[y]
          /\ EqDown(v, "p", y, d.dp[y]).p[y] = v.p[y] - d.dp[y]
          /\ EqUp(v, "p", y, d.dp[y]).n = v.n /\ EqDown(v, "p", y, d.dp[y]).n = v.n
          /\ EqUp(v, "p", y, d.dp[y]).nt = v.nt /\ EqDown(v, "p", y, d.dp[y]).nt = v.nt
          /\ EqUp(v, "p", y, d.dp[y]).pt = v.pt /\ EqDown(v, "p", y, d.dp[y]).pt = v.pt
      BY <1>2, EqMovedHere
    <3> QED BY <1>1, <2>1, <3>1, Zenon
  <2>3. /\ Eq!Fnt(d, g, y, k) = EqLevelRate(d, g.nt[y][k], g.n[y], g.p[y], d.ntlast)
        /\ Eq!Fnt(d, h, y, k) = EqLevelRate(d, h.nt[y][k], h.n[y], h.p[y], d.ntlast)
    BY EqLevelRates
  <2> QED BY <1>6, <2>1, <2>2, <2>3, Zenon
<1>10. PICK f, g, w :
         /\ f = EqCapturedOwn(d, p.nt[y], n, d.ntrapnewton)
         /\ g = EqCapturedOwn(d, m.nt[y], n, d.ntrapnewton)
         /\ w = EqCapturedOther(d, v.pt[y], n, d.ptrapnewton)
  OBVIOUS
<1>11. PICK e, h, o :
         /\ e = EqCapturedOther(d, p.nt[y], q, d.ntrapnewton)
         /\ h = EqCapturedOther(d, m.nt[y], q, d.ntrapnewton)
         /\ o = EqCapturedOwn(d, v.pt[y], q, d.ptrapnewton)
  OBVIOUS
<1>12. EqLevelMoves(d, t, n, k, s) /\ EqLevelMoves(d, t, q, k, s)
  BY <1>2, EqCaptureStep
<1>13. /\ f = EqCapturedOwn(d, p.nt[y], n, TRUE) /\ g = EqCapturedOwn(d, m.nt[y], n, TRUE)
       /\ e = EqCapturedOther(d, p.nt[y], q, TRUE) /\ h = EqCapturedOther(d, m.nt[y], q, TRUE)
  BY <1>2, <1>10, <1>11, EqCapturedOn
<1>14. /\ f - g = 2 * l.down /\ f \in Int /\ g \in Int
       /\ e - h = 2 * l.dother /\ e \in Int /\ h \in Int
  BY <1>4, <1>5, <1>12, <1>13, Zenon DEF EqLevelMoves
<1>15. l.down \in Int /\ l.dother \in Int
  BY <1>2, <1>4, EqRateMoveInt
<1>16. w \in Int /\ o \in Int
  BY <1>1, <1>10, <1>11, EqCapturedInt
<1>17. EqGivenMoves(d, v, y, f, g, w, l.down) /\ EqGivenMoves(d, v, y, e, h, o, l.dother)
  BY <1>14, <1>15, <1>16, EqGivenChange
<1>18. /\ Eq!Fn(d, p, y) = EqFnGiven(d, v, y, f, w) /\ Eq!Fn(d, m, y) = EqFnGiven(d, v, y, g, w)
       /\ Eq!Fp(d, p, y) = EqFpGiven(d, v, y, e, o) /\ Eq!Fp(d, m, y) = EqFpGiven(d, v, y, h, o)
  <2>1. /\ Eq!Fn(d, p, y) = EqFnGiven(d, v, y, EqCapturedOwn(d, p.nt[y], v.n[y], d.ntrapnewton),
                                       EqCapturedOther(d, p.pt[y], v.n[y], d.ptrapnewton))
        /\ Eq!Fp(d, p, y) = EqFpGiven(d, v, y, EqCapturedOther(d, p.nt[y], v.p[y], d.ntrapnewton),
                                       EqCapturedOwn(d, p.pt[y], v.p[y], d.ptrapnewton))
    BY <1>5, EqGivenAre
  <2>2. /\ Eq!Fn(d, m, y) = EqFnGiven(d, v, y, EqCapturedOwn(d, m.nt[y], v.n[y], d.ntrapnewton),
                                       EqCapturedOther(d, m.pt[y], v.n[y], d.ptrapnewton))
        /\ Eq!Fp(d, m, y) = EqFpGiven(d, v, y, EqCapturedOther(d, m.nt[y], v.p[y], d.ntrapnewton),
                                       EqCapturedOwn(d, m.pt[y], v.p[y], d.ptrapnewton))
    BY <1>5, EqGivenAre
  <2> QED BY <1>1, <1>5, <1>10, <1>11, <2>1, <2>2, Zenon
<1>19. /\ -2 * 1 * d.h[y] * l.down = Eq!Fn(d, p, y) - Eq!Fn(d, m, y)
       /\ 2 * 1 * d.h[y] * l.dother = Eq!Fp(d, p, y) - Eq!Fp(d, m, y)
  BY <1>17, <1>18, Zenon DEF EqGivenMoves
<1>20. 2 * d.h[y] * l.dphi = Eq!Fphi(d, p, y) - Eq!Fphi(d, m, y)
  <2>1. l.dphi = s
    BY <1>3 DEF Eq!Level
  <2> QED BY <1>1, <1>2, <2>1, EqPoissonMoves
<1> QED BY <1>1, <1>7, <1>8, <1>9, <1>19, <1>20, Zenon DEF EqTrapRowN

\* and a hole level does.
LEMMA EqHoleTrapRows ==
  ASSUME Eq!BernNumeric, NEW d \in Eq!Meshed, NEW v \in Eq!Solution(d), NEW y \in Eq!Points(d),
         d.ptrapnewton, NEW k \in Eq!Bands(d), NEW l, l = EqLevelsP(d, v, y)[k]
  PROVE  EqTrapRowP(d, v, y, k, l)
<1>1. PICK p, m, t, x, n, q, s :
        /\ p = EqTrapUp(v, "pt", y, k, d.dpt) /\ m = EqTrapDown(v, "pt", y, k, d.dpt)
        /\ t = v.pt[y] /\ x = v.pt[y][k] /\ n = v.n[y] /\ q = v.p[y] /\ s = d.dpt
  OBVIOUS
<1>2. /\ t \in [Eq!Bands(d) -> Int] /\ x \in Int /\ n \in Int /\ q \in Int /\ s \in Int
      /\ d.dn[y] \in Int /\ d.dp[y] \in Int /\ d.ptlast \in Int /\ d.ptrapnewton \in BOOLEAN
  <2>1. t \in [Eq!Bands(d) -> Int] /\ n \in Int /\ q \in Int
    BY <1>1, EqProfile
  <2>2. x \in Int
    BY <1>1, <2>1
  <2> QED BY <1>1, <2>1, <2>2, EqDevice
<1>3. l = Eq!Level(d.Nt, x, s, d.ptlast, q, n, d.dp[y], d.dn[y], -s, d.go_time)
  BY <1>1 DEF EqLevelsP
<1>4. l.down = Eq!Own(Eq!dRates(s), q) /\ l.dother = Eq!Other(Eq!dRates(s), n)
  BY <1>3 DEF Eq!Level
<1>5. /\ EqSameCarriers(p, v) /\ EqSameCarriers(m, v) /\ p.nt = v.nt /\ m.nt = v.nt
      /\ p.pt[y] = EqFuller(t, k, s) /\ m.pt[y] = EqEmptier(t, k, s)
  BY <1>1, <1>2, EqTrapFields
<1>6. /\ 2 * l.dtrap = EqLevelRate(d, x + s, q, n, d.ptlast) - EqLevelRate(d, x - s, q, n, d.ptlast)
      /\ 2 * l.dtrap_own = EqLevelRate(d, x, q + d.dp[y], n, d.ptlast)
                             - EqLevelRate(d, x, q - d.dp[y], n, d.ptlast)
      /\ 2 * l.dtrap_other = EqLevelRate(d, x, q, n + d.dn[y], d.ptlast)
                               - EqLevelRate(d, x, q, n - d.dn[y], d.ptlast)
  <2>1. EqLevelRateMoves(d, x, q, n, d.ptlast, s, d.dp[y], d.dn[y], -s)
    BY <1>2, EqLevelRateChange
  <2> QED BY <1>3, <2>1, Zenon DEF EqLevelRateMoves
<1>7. 2 * l.dtrap = Eq!Fpt(d, p, y, k) - Eq!Fpt(d, m, y, k)
  <2>1. p.pt[y][k] = x + s /\ m.pt[y][k] = x - s
    BY <1>1, <1>2, <1>5, EqLevelHolds
  <2>2. p.n[y] = n /\ p.p[y] = q /\ m.n[y] = n /\ m.p[y] = q
    BY <1>1, <1>5 DEF EqSameCarriers
  <2>3. /\ Eq!Fpt(d, p, y, k) = EqLevelRate(d, p.pt[y][k], p.p[y], p.n[y], d.ptlast)
        /\ Eq!Fpt(d, m, y, k) = EqLevelRate(d, m.pt[y][k], m.p[y], m.n[y], d.ptlast)
    BY EqLevelRates
  <2> QED BY <1>6, <2>1, <2>2, <2>3, Zenon
<1>8. 2 * l.dtrap_own = Eq!Fpt(d, EqUp(v, "p", y, d.dp[y]), y, k)
                          - Eq!Fpt(d, EqDown(v, "p", y, d.dp[y]), y, k)
  <2>1. PICK g, h : g = EqUp(v, "p", y, d.dp[y]) /\ h = EqDown(v, "p", y, d.dp[y])
    OBVIOUS
  <2>2. /\ g.pt[y][k] = x /\ h.pt[y][k] = x /\ g.p[y] = q + d.dp[y] /\ h.p[y] = q - d.dp[y]
        /\ g.n[y] = n /\ h.n[y] = n
    <3>1. /\ EqUp(v, "p", y, d.dp[y]).p[y] = v.p[y] + d.dp[y]
          /\ EqDown(v, "p", y, d.dp[y]).p[y] = v.p[y] - d.dp[y]
          /\ EqUp(v, "p", y, d.dp[y]).n = v.n /\ EqDown(v, "p", y, d.dp[y]).n = v.n
          /\ EqUp(v, "p", y, d.dp[y]).nt = v.nt /\ EqDown(v, "p", y, d.dp[y]).nt = v.nt
          /\ EqUp(v, "p", y, d.dp[y]).pt = v.pt /\ EqDown(v, "p", y, d.dp[y]).pt = v.pt
      BY <1>2, EqMovedHere
    <3> QED BY <1>1, <2>1, <3>1, Zenon
  <2>3. /\ Eq!Fpt(d, g, y, k) = EqLevelRate(d, g.pt[y][k], g.p[y], g.n[y], d.ptlast)
        /\ Eq!Fpt(d, h, y, k) = EqLevelRate(d, h.pt[y][k], h.p[y], h.n[y], d.ptlast)
    BY EqLevelRates
  <2> QED BY <1>6, <2>1, <2>2, <2>3, Zenon
<1>9. 2 * l.dtrap_other = Eq!Fpt(d, EqUp(v, "n", y, d.dn[y]), y, k)
                            - Eq!Fpt(d, EqDown(v, "n", y, d.dn[y]), y, k)
  <2>1. PICK g, h : g = EqUp(v, "n", y, d.dn[y]) /\ h = EqDown(v, "n", y, d.dn[y])
    OBVIOUS
  <2>2. /\ g.pt[y][k] = x /\ h.pt[y][k] = x /\ g.n[y] = n + d.dn[y] /\ h.n[y] = n - d.dn[y]
        /\ g.p[y] = q /\ h.p[y] = q
    <3>1. /\ EqUp(v, "n", y, d.dn[y]).n[y] = v.n[y] + d.dn[y]
          /\ EqDown(v, "n", y, d.dn[y]).n[y] = v.n[y] - d.dn[y]
          /\ EqUp(v, "n", y, d.dn[y]).p = v.p /\ EqDown(v, "n", y, d.dn[y]).p = v.p
          /\ EqUp(v, "n", y, d.dn[y]).nt = v.nt /\ EqDown(v, "n", y, d.dn[y]).nt = v.nt
          /\ EqUp(v, "n", y, d.dn[y]).pt = v.pt /\ EqDown(v, "n", y, d.dn[y]).pt = v.pt
      BY <1>2, EqMovedHere
    <3> QED BY <1>1, <2>1, <3>1, Zenon
  <2>3. /\ Eq!Fpt(d, g, y, k) = EqLevelRate(d, g.pt[y][k], g.p[y], g.n[y], d.ptlast)
        /\ Eq!Fpt(d, h, y, k) = EqLevelRate(d, h.pt[y][k], h.p[y], h.n[y], d.ptlast)
    BY EqLevelRates
  <2> QED BY <1>6, <2>1, <2>2, <2>3, Zenon
<1>10. PICK f, g, w :
         /\ f = EqCapturedOwn(d, p.pt[y], q, d.ptrapnewton)
         /\ g = EqCapturedOwn(d, m.pt[y], q, d.ptrapnewton)
         /\ w = EqCapturedOther(d, v.nt[y], q, d.ntrapnewton)
  OBVIOUS
<1>11. PICK e, h, o :
         /\ e = EqCapturedOther(d, p.pt[y], n, d.ptrapnewton)
         /\ h = EqCapturedOther(d, m.pt[y], n, d.ptrapnewton)
         /\ o = EqCapturedOwn(d, v.nt[y], n, d.ntrapnewton)
  OBVIOUS
<1>12. EqLevelMoves(d, t, n, k, s) /\ EqLevelMoves(d, t, q, k, s)
  BY <1>2, EqCaptureStep
<1>13. /\ f = EqCapturedOwn(d, p.pt[y], q, TRUE) /\ g = EqCapturedOwn(d, m.pt[y], q, TRUE)
       /\ e = EqCapturedOther(d, p.pt[y], n, TRUE) /\ h = EqCapturedOther(d, m.pt[y], n, TRUE)
  BY <1>2, <1>10, <1>11, EqCapturedOn
<1>14. /\ f - g = 2 * l.down /\ f \in Int /\ g \in Int
       /\ e - h = 2 * l.dother /\ e \in Int /\ h \in Int
  BY <1>4, <1>5, <1>12, <1>13, Zenon DEF EqLevelMoves
<1>15. l.down \in Int /\ l.dother \in Int
  BY <1>2, <1>4, EqRateMoveInt
<1>16. w \in Int /\ o \in Int
  BY <1>1, <1>10, <1>11, EqCapturedInt
<1>17. EqGivenMoves(d, v, y, f, g, w, l.down) /\ EqGivenMoves(d, v, y, e, h, o, l.dother)
  BY <1>14, <1>15, <1>16, EqGivenChange
<1>18. /\ Eq!Fp(d, p, y) = EqFpGiven(d, v, y, w, f) /\ Eq!Fp(d, m, y) = EqFpGiven(d, v, y, w, g)
       /\ Eq!Fn(d, p, y) = EqFnGiven(d, v, y, o, e) /\ Eq!Fn(d, m, y) = EqFnGiven(d, v, y, o, h)
  <2>1. /\ Eq!Fn(d, p, y) = EqFnGiven(d, v, y, EqCapturedOwn(d, p.nt[y], v.n[y], d.ntrapnewton),
                                       EqCapturedOther(d, p.pt[y], v.n[y], d.ptrapnewton))
        /\ Eq!Fp(d, p, y) = EqFpGiven(d, v, y, EqCapturedOther(d, p.nt[y], v.p[y], d.ntrapnewton),
                                       EqCapturedOwn(d, p.pt[y], v.p[y], d.ptrapnewton))
    BY <1>5, EqGivenAre
  <2>2. /\ Eq!Fn(d, m, y) = EqFnGiven(d, v, y, EqCapturedOwn(d, m.nt[y], v.n[y], d.ntrapnewton),
                                       EqCapturedOther(d, m.pt[y], v.n[y], d.ptrapnewton))
        /\ Eq!Fp(d, m, y) = EqFpGiven(d, v, y, EqCapturedOther(d, m.nt[y], v.p[y], d.ntrapnewton),
                                       EqCapturedOwn(d, m.pt[y], v.p[y], d.ptrapnewton))
    BY <1>5, EqGivenAre
  <2> QED BY <1>1, <1>5, <1>10, <1>11, <2>1, <2>2, Zenon
<1>19. /\ -2 * (-1) * d.h[y] * l.down = Eq!Fp(d, p, y) - Eq!Fp(d, m, y)
       /\ 2 * (-1) * d.h[y] * l.dother = Eq!Fn(d, p, y) - Eq!Fn(d, m, y)
  BY <1>17, <1>18, Zenon DEF EqGivenMoves
<1>20. 2 * d.h[y] * l.dphi = Eq!Fphi(d, p, y) - Eq!Fphi(d, m, y)
  <2>1. l.dphi = -s
    BY <1>3 DEF Eq!Level
  <2> QED BY <1>1, <1>2, <2>1, EqPoissonMoves
<1> QED BY <1>1, <1>7, <1>8, <1>9, <1>19, <1>20, Zenon DEF EqTrapRowP

\* They are the trap rows of NewtonStepExact.
LEMMA EqTrapRowsAre ==
  ASSUME NEW y, NEW L
  PROVE  /\ (\A k \in DOMAIN L : EqTrapRowN(dev, u, y, k, L[k]))
              => Eq!TrapRows(L, y, "nt", "n", "p", dev.dnt, dev.dn[y], dev.dp[y],
                             Eq!Fnt, Eq!Fn, Eq!Fp, 1)
         /\ (\A k \in DOMAIN L : EqTrapRowP(dev, u, y, k, L[k]))
              => Eq!TrapRows(L, y, "pt", "p", "n", dev.dpt, dev.dp[y], dev.dn[y],
                             Eq!Fpt, Eq!Fp, Eq!Fn, -1)
BY DEF EqTrapRowN, EqTrapRowP, EqTrapUp, EqTrapDown, EqUp, EqDown, Eq!TrapRows, Eq!Twice, Eq!TwiceTrap

\* The traps' rows of a point.
LEMMA EqTrapColumns ==
  ASSUME Eq!BernNumeric, NEW d \in Eq!Meshed, NEW v \in Eq!Solution(d), NEW y \in Eq!Points(d),
         NEW a, a = EqRow(d, v, y)
  PROVE  /\ \A k \in DOMAIN a.ntrap : EqTrapRowN(d, v, y, k, a.ntrap[k])
         /\ \A k \in DOMAIN a.ptrap : EqTrapRowP(d, v, y, k, a.ptrap[k])
<1>1. a.ntrap = EqTrapsN(d, v, y) /\ a.ptrap = EqTrapsP(d, v, y)
  BY EqRowParts
<1>2. ASSUME NEW k \in DOMAIN a.ntrap PROVE EqTrapRowN(d, v, y, k, a.ntrap[k])
  <2>1. d.ntrapnewton
    BY <1>1, <1>2 DEF EqTrapsN
  <2>2. a.ntrap = EqLevelsN(d, v, y)
    BY <1>1, <2>1 DEF EqTrapsN
  <2>3. k \in Eq!Bands(d)
    BY <1>2, <2>2 DEF EqLevelsN
  <2> QED BY <2>1, <2>2, <2>3, EqElectronTrapRows
<1>3. ASSUME NEW k \in DOMAIN a.ptrap PROVE EqTrapRowP(d, v, y, k, a.ptrap[k])
  <2>1. d.ptrapnewton
    BY <1>1, <1>3 DEF EqTrapsP
  <2>2. a.ptrap = EqLevelsP(d, v, y)
    BY <1>1, <2>1 DEF EqTrapsP
  <2>3. k \in Eq!Bands(d)
    BY <1>3, <2>2 DEF EqLevelsP
  <2> QED BY <2>1, <2>2, <2>3, EqHoleTrapRows
<1> QED BY <1>2, <1>3

\* The derivatives fill_matrix writes are those of its equations.
LEMMA EqJacobianExact ==
  ASSUME Eq!BernNumeric, Eq!BernOfSecondDegree, EqInv, EqSystemInv, Eq!Filled
  PROVE  Eq!JacobianExact
<1> SUFFICES ASSUME Eq!NoHoleTunnel,
                    \A y \in Eq!Points(dev) : dev.interface_B[y] = 0 /\ ~dev.ss_srh[y],
                    NEW y \in Eq!Points(dev), NEW a, a = A[y]
             PROVE
      /\ Eq!RowOf(Eq!Fphi, y, "phi", Eq!Ones, a.dphil, a.dphic, a.dphir)
      /\ Eq!RowOf(Eq!Fphi, y, "n", dev.dn, 0, a.dphidxic, 0)
      /\ Eq!RowOf(Eq!Fphi, y, "p", dev.dp, 0, a.dphidxipc, 0)
      /\ Eq!RowOf(Eq!Fn, y, "n", dev.dn, a.dJdxil, a.dJdxic, a.dJdxir)
      /\ Eq!RowOf(Eq!Fn, y, "p", dev.dp, 0, a.dJdxipc, 0)
      /\ Eq!RowOf(Eq!Fp, y, "p", dev.dp, a.dJpdxipl, a.dJpdxipc, a.dJpdxipr)
      /\ Eq!RowOf(Eq!Fp, y, "n", dev.dn, 0, a.dJpdxic, 0)
      /\ dev.B = 0 =>
           /\ Eq!RowOf(Eq!Fn, y, "phi", Eq!Ones, a.dJdphil, a.dJdphic, a.dJdphir)
           /\ Eq!RowOf(Eq!Fp, y, "phi", Eq!Ones, a.dJpdphil, a.dJpdphic, a.dJpdphir)
      /\ Eq!TrapRows(a.ntrap, y, "nt", "n", "p", dev.dnt, dev.dn[y], dev.dp[y],
                     Eq!Fnt, Eq!Fn, Eq!Fp, 1)
      /\ Eq!TrapRows(a.ptrap, y, "pt", "p", "n", dev.dpt, dev.dp[y], dev.dn[y],
                     Eq!Fpt, Eq!Fp, Eq!Fn, -1)
  BY Zenon DEF Eq!JacobianExact
<1>1. dev \in Eq!Meshed /\ u \in Eq!Solution(dev) /\ y < i
  BY EqPointsRange DEF EqInv, EqWhere, EqSystemInv, Eq!Filled
<1>2. a = EqRow(dev, u, y)
  BY <1>1 DEF EqSystemInv, EqRowsInv
<1>3. EqDerived(dev)
  BY DEF EqDerived, Eq!NoHoleTunnel
<1>4. Eq!Ones = EqUnits(dev)
  BY DEF Eq!Ones, EqUnits
<1>5. /\ EqFphiRow(dev, u, y, "n", dev.dn, 0, a.dphidxic, 0)
      /\ EqFnRow(dev, u, y, "n", dev.dn, a.dJdxil, a.dJdxic, a.dJdxir)
      /\ EqFpRow(dev, u, y, "n", dev.dn, 0, a.dJpdxic, 0)
  BY <1>1, <1>2, <1>3, EqElectronColumns
<1>6. /\ EqFphiRow(dev, u, y, "p", dev.dp, 0, a.dphidxipc, 0)
      /\ EqFnRow(dev, u, y, "p", dev.dp, 0, a.dJdxipc, 0)
      /\ EqFpRow(dev, u, y, "p", dev.dp, a.dJpdxipl, a.dJpdxipc, a.dJpdxipr)
  BY <1>1, <1>2, <1>3, EqHoleColumns
<1>7. EqFphiRow(dev, u, y, "phi", Eq!Ones, a.dphil, a.dphic, a.dphir)
  BY <1>1, <1>2, <1>4, EqPoissonColumn
<1>8. dev.B = 0 => /\ EqFnRow(dev, u, y, "phi", Eq!Ones, a.dJdphil, a.dJdphic, a.dJdphir)
                   /\ EqFpRow(dev, u, y, "phi", Eq!Ones, a.dJpdphil, a.dJpdphic, a.dJpdphir)
  BY <1>1, <1>2, <1>3, <1>4, EqPotentialColumns
<1>9. /\ \A k \in DOMAIN a.ntrap : EqTrapRowN(dev, u, y, k, a.ntrap[k])
      /\ \A k \in DOMAIN a.ptrap : EqTrapRowP(dev, u, y, k, a.ptrap[k])
  BY <1>1, <1>2, EqTrapColumns
<1>10. /\ Eq!RowOf(Eq!Fphi, y, "phi", Eq!Ones, a.dphil, a.dphic, a.dphir)
       /\ Eq!RowOf(Eq!Fphi, y, "n", dev.dn, 0, a.dphidxic, 0)
       /\ Eq!RowOf(Eq!Fphi, y, "p", dev.dp, 0, a.dphidxipc, 0)
  BY <1>5, <1>6, <1>7, EqRowsAre
<1>11. /\ Eq!RowOf(Eq!Fn, y, "n", dev.dn, a.dJdxil, a.dJdxic, a.dJdxir)
       /\ Eq!RowOf(Eq!Fn, y, "p", dev.dp, 0, a.dJdxipc, 0)
       /\ Eq!RowOf(Eq!Fp, y, "p", dev.dp, a.dJpdxipl, a.dJpdxipc, a.dJpdxipr)
       /\ Eq!RowOf(Eq!Fp, y, "n", dev.dn, 0, a.dJpdxic, 0)
  BY <1>5, <1>6, EqRowsAre
<1>12. dev.B = 0 =>
         /\ Eq!RowOf(Eq!Fn, y, "phi", Eq!Ones, a.dJdphil, a.dJdphic, a.dJdphir)
         /\ Eq!RowOf(Eq!Fp, y, "phi", Eq!Ones, a.dJpdphil, a.dJpdphic, a.dJpdphir)
  BY <1>8, EqRowsAre
<1>13. /\ Eq!TrapRows(a.ntrap, y, "nt", "n", "p", dev.dnt, dev.dn[y], dev.dp[y],
                      Eq!Fnt, Eq!Fn, Eq!Fp, 1)
       /\ Eq!TrapRows(a.ptrap, y, "pt", "p", "n", dev.dpt, dev.dp[y], dev.dn[y],
                      Eq!Fpt, Eq!Fp, Eq!Fn, -1)
  BY <1>9, EqTrapRowsAre
<1> QED BY <1>10, <1>11, <1>12, <1>13

\* What fill_matrix writes is Newton's step.
LEMMA EqNewtonStepExact ==
  ASSUME Eq!BernNumeric, Eq!BernOfSecondDegree, EqInv, EqSystemInv
  PROVE  Eq!NewtonStepExact
BY EqResidualExact, EqJacobianExact DEF Eq!NewtonStepExact

-----------------------------------------------------------------------------

(* The invariant of a run, and what follows from it. *)

\* EqSystemInv where the values are computed.
SystemInv == PartInv /\ (part = "values" => EqSystemInv)

\* It holds at the start,
LEMMA SystemInit == MCInit => SystemInv
BY PartInit, EqSystemInit DEF MCInit, SystemInv

\* and after every step.
LEMMA SystemStep ==
  SystemInv /\ [MCNext]_<<vars, part, faces, valuesOnly, planeOnly>> => SystemInv'
<1> SUFFICES ASSUME SystemInv, [MCNext]_<<vars, part, faces, valuesOnly, planeOnly>>
             PROVE  SystemInv'
  OBVIOUS
<1>1. PartInv' /\ part' = part
  BY PartStep DEF SystemInv, MCNext
<1>2. CASE part = "values"
  <2>1. [Eq!Next]_Eq!vars
    BY <1>2 DEF MCNext, vars, faces, valuesOnly, planeOnly, Eq!vars, Eq!fluxes
  <2>2. EqInv /\ EqSystemInv
    BY <1>2 DEF SystemInv, PartInv
  <2> QED BY <1>1, <2>1, <2>2, EqSystemStep DEF SystemInv
<1> QED BY <1>1, <1>2 DEF SystemInv

\* Every row and right hand side that fill_matrix has written is the closed form, for any
\* device, solution and Bernoulli function.
THEOREM SystemInvHolds == MCSpec => []SystemInv
BY SystemInit, SystemStep, PTL DEF MCSpec

\* The function the runs take for the Bernoulli function is one of those the next two
\* theorems are about.
LEMMA MCBernFits ==
  \A x \in Int : /\ MCBern(x) \in Int /\ MCdBern(x) \in Int
                 /\ MCBern(x + 1) - MCBern(x - 1) = 2 * MCdBern(x)
<1> SUFFICES ASSUME NEW x \in Int
             PROVE  /\ MCBern(x) \in Int /\ MCdBern(x) \in Int
                    /\ MCBern(x + 1) - MCBern(x - 1) = 2 * MCdBern(x)
  OBVIOUS
<1>1. x * x \in Int /\ (x + 1) * (x + 1) = x * x + 2 * x + 1 /\ (x - 1) * (x - 1) = x * x - 2 * x + 1
  BY SMTT(30)
<1> QED BY <1>1 DEF MCBern, MCdBern

\* Kirchhoff's law, for any mesh and any Bernoulli function that has numbers for values:
\* once the right hand sides vanish the current differs between the contacts by what the
\* device stores.
THEOREM ChargeConservedHolds == ASSUME Eq!BernNumeric PROVE MCSpec => []ChargeConserved
<1>1. SystemInv => ChargeConserved
  BY EqKirchhoff DEF SystemInv, PartInv, ChargeConserved
<1> QED BY SystemInvHolds, <1>1, PTL

\* The right hand sides are minus the residuals and the rows are their derivatives, of all
\* three equations and of every trap level: for any device, and any Bernoulli function of
\* which a difference gives the derivative.
THEOREM NewtonStepExactHolds ==
  ASSUME Eq!BernNumeric, Eq!BernOfSecondDegree
  PROVE  MCSpec => []NewtonStepExact
<1>1. SystemInv => NewtonStepExact
  BY EqNewtonStepExact DEF SystemInv, PartInv, NewtonStepExact
<1> QED BY SystemInvHolds, <1>1, PTL

-----------------------------------------------------------------------------

(* The second solver's values, from the closed forms. *)

\* A device both solvers of one dimension can solve, and a solution it converts exactly.
NormCan(d) ==
  /\ d.Cn = 0 /\ d.Cp = 0 /\ ~d.go_time
  /\ \A y \in 0 .. d.ylen - 1 :
       /\ ~d.ss_srh[y]
       /\ d.interface_B[y] = 0 /\ d.interface_Ge[y] = 0 /\ d.interface_Gh[y] = 0

\* The units are numbers and not 0.
LEMMA NormUnits ==
  /\ n0 \in Nat \ {0} /\ phi0 \in Nat \ {0} /\ l0 \in Nat \ {0} /\ D0 \in Nat \ {0}
  /\ epsilon0 \in Nat \ {0} /\ Norm!r0 \in Nat \ {0} /\ Norm!r_bi0 \in Nat \ {0}
  /\ l0 * l0 * n0 = epsilon0 * phi0
  /\ Norm!r0 * (l0 * l0) = n0 * D0 /\ Norm!r_bi0 * (n0 * l0 * l0) = D0
BY MCNormAssumption, Zenon DEF Norm!NormAssumption

\* They can be divided by,
LEMMA NormDiv == \A k \in Int, g \in Nat \ {0} : k \div g \in Int
BY SMT

\* and two multiples of one are equal only if what it multiplies is.
LEMMA NormCancel == \A k \in Nat \ {0} : \A g, c \in Int : k * g = k * c => g = c
<1> SUFFICES ASSUME NEW k \in Nat \ {0}, NEW g \in Int, NEW c \in Int, k * g = k * c
             PROVE  g = c
  OBVIOUS
<1>1. k * (g - c) = 0
  <2>1. k * (g - c) = k * g - k * c
    BY SMTT(30)
  <2>2. k * g \in Int
    OBVIOUS
  <2> QED BY <2>1, <2>2
<1>2. \A q \in Int : k * q = 0 => q = 0
  BY SMTT(30)
<1> QED BY <1>1, <1>2

\* What NewtonNorm reads of a point or contact: Fluxes' numbers there, in units.
NormReads(c, d, v, y) ==
  /\ c.n \in Int /\ c.p \in Int /\ c.phi \in Int /\ c.dn \in Int /\ c.dp \in Int
  /\ c.Ec \in Int /\ c.Ev \in Int
  /\ n0 * c.n = Eq!N(d, v, y) /\ n0 * c.p = Eq!P(d, v, y) /\ phi0 * c.phi = Eq!Phi(d, v, y)
  /\ n0 * c.dn = Eq!Dn(d, y) * phi0 /\ n0 * c.dp = Eq!Dp(d, y) * phi0
  /\ phi0 * c.Ec = Eq!Ec(d, v, y) /\ phi0 * c.Ev = Eq!Ev(d, v, y)

\* Band edges are sums of what is converted.
LEMMA NormEdgePoly ==
  \A k, x, f, g \in Int :
    /\ -x - f \in Int /\ -x - f - g \in Int
    /\ k * (-x - f) = -(k * x) - k * f
    /\ k * (-x - f - g) = -(k * x) - k * f - k * g
BY SMTT(30)

\* The second solver reads a mesh point's numbers,
LEMMA NormOwn ==
  ASSUME NEW d \in Eq!Meshed, NEW v \in Eq!Solution(d), Norm!Convertible(d, v),
         NEW y \in Eq!Points(d), NEW c, c = Norm!Stored(d, v, y)
  PROVE  NormReads(c, d, v, y) /\ c.y = y
<1>1. ~(y < 0) /\ y # d.ylen /\ y \in 0 .. d.ylen - 1
  BY EqDevice DEF Eq!Points
<1>2. /\ Eq!N(d, v, y) = v.n[y] /\ Eq!P(d, v, y) = v.p[y] /\ Eq!Phi(d, v, y) = v.phi[y]
      /\ Eq!Dn(d, y) = d.dn[y] /\ Eq!Dp(d, y) = d.dp[y]
      /\ Eq!Xi(d, y) = d.Xi[y] /\ Eq!Eg(d, y) = d.Eg[y]
  BY <1>1 DEF Eq!N, Eq!P, Eq!Phi, Eq!Dn, Eq!Dp, Eq!Xi, Eq!Eg, Eq!At
<1>3. PICK f, x, g : f = v.phi[y] \div phi0 /\ x = d.Xi[y] \div phi0 /\ g = d.Eg[y] \div phi0
  OBVIOUS
<1>4. /\ c.y = y /\ c.phi = f /\ c.n = v.n[y] \div n0 /\ c.p = v.p[y] \div n0
      /\ c.dn = (d.dn[y] * phi0) \div n0 /\ c.dp = (d.dp[y] * phi0) \div n0
      /\ c.Ec = -x - f /\ c.Ev = -x - f - g
  BY <1>3, Zenon DEF Norm!Stored
<1>5. /\ n0 * (v.n[y] \div n0) = v.n[y] /\ n0 * (v.p[y] \div n0) = v.p[y]
      /\ n0 * ((d.dn[y] * phi0) \div n0) = d.dn[y] * phi0
      /\ n0 * ((d.dp[y] * phi0) \div n0) = d.dp[y] * phi0
      /\ phi0 * f = v.phi[y] /\ phi0 * x = d.Xi[y] /\ phi0 * g = d.Eg[y]
  BY <1>1, <1>3, Zenon DEF Norm!Convertible, Norm!Whole
<1>6. /\ v.n[y] \in Int /\ v.p[y] \in Int /\ v.phi[y] \in Int /\ d.dn[y] \in Int
      /\ d.dp[y] \in Int /\ d.Xi[y] \in Int /\ d.Eg[y] \in Int
  BY EqDevice, EqProfile
<1>7. n0 \in Nat \ {0} /\ phi0 \in Nat \ {0} /\ phi0 \in Int
  BY NormUnits
<1>8. d.dn[y] * phi0 \in Int /\ d.dp[y] * phi0 \in Int
  BY <1>6, <1>7
<1>9. /\ c.n \in Int /\ c.p \in Int /\ c.dn \in Int /\ c.dp \in Int /\ f \in Int /\ x \in Int /\ g \in Int
  BY <1>3, <1>4, <1>6, <1>7, <1>8, NormDiv, Zenon
<1>10. /\ -x - f \in Int /\ -x - f - g \in Int
       /\ phi0 * (-x - f) = -(phi0 * x) - phi0 * f
       /\ phi0 * (-x - f - g) = -(phi0 * x) - phi0 * f - phi0 * g
  BY <1>7, <1>9, NormEdgePoly
<1>11. Eq!Ec(d, v, y) = -d.Xi[y] - v.phi[y] /\ Eq!Ev(d, v, y) = -d.Xi[y] - v.phi[y] - d.Eg[y]
  BY <1>2, Zenon DEF Eq!Ec, Eq!Ev
<1>12. /\ phi0 * c.Ec = Eq!Ec(d, v, y) /\ phi0 * c.Ev = Eq!Ev(d, v, y)
       /\ c.Ec \in Int /\ c.Ev \in Int
  BY <1>4, <1>5, <1>10, <1>11, Zenon
<1> QED BY <1>2, <1>4, <1>5, <1>9, <1>12, Zenon DEF NormReads

\* those of a contact,
LEMMA NormContact ==
  ASSUME NEW d \in Eq!Meshed, NEW v \in Eq!Solution(d), Norm!Convertible(d, v),
         NEW end \in {1, 2}, NEW y \in Eq!Points(d), NEW z,
         Eq!N(d, v, z) = d.n_contact[end], Eq!P(d, v, z) = d.p_contact[end],
         Eq!Phi(d, v, z) = d.phi_contact[end], Eq!Dn(d, z) = 0, Eq!Dp(d, z) = 0,
         Eq!Xi(d, z) = d.Xi[y], Eq!Eg(d, z) = d.Eg[y]
  PROVE  NormReads(Norm!Contact(d, end, y), d, v, z)
<1>1. y \in 0 .. d.ylen - 1
  BY EqDevice DEF Eq!Points
<1>2. PICK c, f, x, g :
        /\ c = Norm!Contact(d, end, y)
        /\ f = d.phi_contact[end] \div phi0 /\ x = d.Xi[y] \div phi0 /\ g = d.Eg[y] \div phi0
  OBVIOUS
<1>3. /\ c.phi = f /\ c.n = d.n_contact[end] \div n0 /\ c.p = d.p_contact[end] \div n0
      /\ c.dn = 0 /\ c.dp = 0 /\ c.Ec = -x - f /\ c.Ev = -x - f - g
  BY <1>2, Zenon DEF Norm!Contact
<1>4. /\ n0 * (d.n_contact[end] \div n0) = d.n_contact[end]
      /\ n0 * (d.p_contact[end] \div n0) = d.p_contact[end]
      /\ phi0 * f = d.phi_contact[end] /\ phi0 * x = d.Xi[y] /\ phi0 * g = d.Eg[y]
  BY <1>1, <1>2, Zenon DEF Norm!Convertible, Norm!Whole
<1>5. /\ d.n_contact[end] \in Int /\ d.p_contact[end] \in Int /\ d.phi_contact[end] \in Int
      /\ d.Xi[y] \in Int /\ d.Eg[y] \in Int
  BY EqDevice
<1>6. n0 \in Nat \ {0} /\ phi0 \in Nat \ {0} /\ phi0 \in Int /\ n0 * 0 = 0 * phi0
  BY NormUnits
<1>7. /\ c.n \in Int /\ c.p \in Int /\ f \in Int /\ x \in Int /\ g \in Int
  BY <1>2, <1>3, <1>5, <1>6, NormDiv, Zenon
<1>8. /\ -x - f \in Int /\ -x - f - g \in Int
      /\ phi0 * (-x - f) = -(phi0 * x) - phi0 * f
      /\ phi0 * (-x - f - g) = -(phi0 * x) - phi0 * f - phi0 * g
  BY <1>6, <1>7, NormEdgePoly
<1>9. /\ Eq!Ec(d, v, z) = -d.Xi[y] - d.phi_contact[end]
      /\ Eq!Ev(d, v, z) = -d.Xi[y] - d.phi_contact[end] - d.Eg[y]
  BY Zenon DEF Eq!Ec, Eq!Ev
<1>10. /\ phi0 * c.Ec = Eq!Ec(d, v, z) /\ phi0 * c.Ev = Eq!Ev(d, v, z)
       /\ c.Ec \in Int /\ c.Ev \in Int
  BY <1>3, <1>4, <1>8, <1>9, Zenon
<1>11. c.dn \in Int /\ c.dp \in Int /\ n0 * c.dn = Eq!Dn(d, z) * phi0 /\ n0 * c.dp = Eq!Dp(d, z) * phi0
  BY <1>3, <1>6
<1> QED BY <1>2, <1>3, <1>4, <1>7, <1>10, <1>11, Zenon DEF NormReads

\* and a point's neighbours are one or the other.
LEMMA NormAround ==
  ASSUME NEW d \in Eq!Meshed, NEW v \in Eq!Solution(d), Norm!Convertible(d, v),
         NEW y \in Eq!Points(d)
  PROVE  /\ NormReads(Norm!Left(d, v, y), d, v, y - 1)
         /\ NormReads(Norm!Right(d, v, y), d, v, y + 1)
<1>1. PICK k, m : k = y - 1 /\ m = y + 1
  OBVIOUS
<1>2. /\ <<0, 0>>[1] = 0 /\ <<0, 0>>[2] = 0
      /\ <<d.Xi[0], d.Xi[d.ylen - 1]>>[1] = d.Xi[0]
      /\ <<d.Xi[0], d.Xi[d.ylen - 1]>>[2] = d.Xi[d.ylen - 1]
      /\ <<d.Eg[0], d.Eg[d.ylen - 1]>>[1] = d.Eg[0]
      /\ <<d.Eg[0], d.Eg[d.ylen - 1]>>[2] = d.Eg[d.ylen - 1]
  OBVIOUS
<1>3. NormReads(Norm!Left(d, v, y), d, v, k)
  <2>1. CASE y = 0
    <3>1. Norm!Left(d, v, y) = Norm!Contact(d, 1, y)
      BY <2>1, Zenon DEF Norm!Left
    <3>2. \A f, e : Eq!At(f, e, d, k) = e[1]
      <4>1. k < 0
        BY <1>1, <2>1
      <4> QED BY <4>1, Zenon DEF Eq!At
    <3>3. /\ Eq!N(d, v, k) = d.n_contact[1] /\ Eq!P(d, v, k) = d.p_contact[1]
          /\ Eq!Phi(d, v, k) = d.phi_contact[1] /\ Eq!Dn(d, k) = 0 /\ Eq!Dp(d, k) = 0
          /\ Eq!Xi(d, k) = d.Xi[y] /\ Eq!Eg(d, k) = d.Eg[y]
      BY <1>2, <2>1, <3>2 DEF Eq!N, Eq!P, Eq!Phi, Eq!Dn, Eq!Dp, Eq!Xi, Eq!Eg
    <3> QED BY <3>1, <3>3, NormContact
  <2>2. CASE y # 0
    <3>1. Norm!Left(d, v, y) = Norm!Stored(d, v, k)
      BY <1>1, <2>2, Zenon DEF Norm!Left
    <3>2. k \in Eq!Points(d)
      BY <1>1, <2>2, EqDevice DEF Eq!Points
    <3> QED BY <3>1, <3>2, NormOwn
  <2> QED BY <2>1, <2>2
<1>4. NormReads(Norm!Right(d, v, y), d, v, m)
  <2>1. CASE y = d.ylen - 1
    <3>1. Norm!Right(d, v, y) = Norm!Contact(d, 2, y)
      BY <2>1, Zenon DEF Norm!Right
    <3>2. \A f, e : Eq!At(f, e, d, m) = e[2]
      <4>1. ~(m < 0) /\ m = d.ylen
        BY <1>1, <2>1, EqDevice
      <4> QED BY <4>1, Zenon DEF Eq!At
    <3>3. /\ Eq!N(d, v, m) = d.n_contact[2] /\ Eq!P(d, v, m) = d.p_contact[2]
          /\ Eq!Phi(d, v, m) = d.phi_contact[2] /\ Eq!Dn(d, m) = 0 /\ Eq!Dp(d, m) = 0
          /\ Eq!Xi(d, m) = d.Xi[y] /\ Eq!Eg(d, m) = d.Eg[y]
      BY <1>2, <2>1, <3>2 DEF Eq!N, Eq!P, Eq!Phi, Eq!Dn, Eq!Dp, Eq!Xi, Eq!Eg
    <3> QED BY <3>1, <3>3, NormContact
  <2>2. CASE y # d.ylen - 1
    <3>1. Norm!Right(d, v, y) = Norm!Stored(d, v, m)
      BY <1>1, <2>2, Zenon DEF Norm!Right
    <3>2. m \in Eq!Points(d)
      BY <1>1, <2>2, EqDevice DEF Eq!Points
    <3> QED BY <3>1, <3>2, NormOwn
  <2> QED BY <2>1, <2>2
<1> QED BY <1>1, <1>3, <1>4, Zenon

\* What flows through a face, K times its diffusion constant D being l times E, and n
\* times its densities s and t being f times x and z.
LEMMA NormFlowPoly ==
  \A n, K, l, f, D, E, g, q, s, t \in Int :
    /\ n * K * (D * (g * s - q * t)) = (K * D) * (g * (n * s) - q * (n * t))
    /\ n * K * (f * D * (g * s + q * t)) = f * ((K * D) * (g * (n * s) + q * (n * t)))
    /\ n * K * (D * g * s) = (K * D) * g * (n * s)
    /\ n * K * (-D * g * s) = -((K * D) * g * (n * s))
    /\ (E * l) * (g * s - q * t) = l * (E * (g * s - q * t))
    /\ f * ((E * l) * (g * s + q * t)) = l * f * (E * (g * s + q * t))
    /\ (E * l) * g * (s * f) = l * f * (E * g * s)
    /\ -((E * l) * g * (s * f)) = l * f * (-E * g * s)
    /\ D * (g * s - q * t) \in Int /\ f * D * (g * s + q * t) \in Int
    /\ D * g * s \in Int /\ -D * g * s \in Int
BY SMTT(60)

\* Slopes of a flux by the potential and by the densities.
LEMMA NormFlowUnits ==
  ASSUME NEW D \in Int, NEW E \in Int, D0 * D = E * l0
  PROVE  /\ \A g, q, s, t, x, z \in Int : n0 * s = x /\ n0 * t = z =>
              SameSlope(E * (g * x + q * z), phi0 * D * (g * s + q * t))
         /\ \A g, s, x \in Int : n0 * s = x * phi0 =>
              SameSlope(E * g * x, D * g * s) /\ SameSlope(-E * g * x, -D * g * s)
         /\ \A g, q, s, t \in Int : phi0 * D * (g * s + q * t) \in Int
         /\ \A g, s \in Int : D * g * s \in Int /\ -D * g * s \in Int
<1>1. n0 \in Int /\ D0 \in Int /\ l0 \in Int /\ phi0 \in Int
  BY NormUnits
<1>2. ASSUME NEW g \in Int, NEW q \in Int, NEW s \in Int, NEW t \in Int, NEW x \in Int, NEW z \in Int,
             n0 * s = x, n0 * t = z
      PROVE  SameSlope(E * (g * x + q * z), phi0 * D * (g * s + q * t))
  <2>1. n0 * D0 * (phi0 * D * (g * s + q * t)) = phi0 * ((D0 * D) * (g * (n0 * s) + q * (n0 * t)))
    BY <1>1, <1>2, NormFlowPoly
  <2>2. phi0 * ((E * l0) * (g * x + q * z)) = l0 * phi0 * (E * (g * x + q * z))
    BY <1>1, <1>2, NormFlowPoly
  <2> QED BY <1>2, <2>1, <2>2, Zenon DEF SameSlope
<1>3. ASSUME NEW g \in Int, NEW s \in Int, NEW x \in Int, n0 * s = x * phi0
      PROVE  SameSlope(E * g * x, D * g * s) /\ SameSlope(-E * g * x, -D * g * s)
  <2>1. /\ n0 * D0 * (D * g * s) = (D0 * D) * g * (n0 * s)
        /\ n0 * D0 * (-D * g * s) = -((D0 * D) * g * (n0 * s))
    BY <1>1, <1>3, NormFlowPoly
  <2>2. /\ (E * l0) * g * (x * phi0) = l0 * phi0 * (E * g * x)
        /\ -((E * l0) * g * (x * phi0)) = l0 * phi0 * (-E * g * x)
    BY <1>1, <1>3, NormFlowPoly
  <2> QED BY <1>3, <2>1, <2>2, Zenon DEF SameSlope
<1>4. \A g, q, s, t \in Int : /\ phi0 * D * (g * s + q * t) \in Int
                             /\ D * g * s \in Int /\ -D * g * s \in Int
  BY <1>1, NormFlowPoly
<1> QED BY <1>2, <1>3, <1>4

\* So is the flux itself.
LEMMA NormDriftUnits ==
  ASSUME NEW D \in Int, NEW E \in Int, D0 * D = E * l0, NEW X, X.neg \in Int, X.plus \in Int,
         NEW s \in Int, NEW t \in Int
  PROVE  /\ n0 * D0 * Eq!Jn(D, X, s, t) = l0 * Eq!Jn(E, X, n0 * s, n0 * t)
         /\ n0 * D0 * Eq!Jp(D, X, s, t) = l0 * Eq!Jp(E, X, n0 * s, n0 * t)
         /\ Eq!Jn(D, X, s, t) \in Int /\ Eq!Jp(D, X, s, t) \in Int
<1>1. PICK g, q, x, z : g = X.neg /\ q = X.plus /\ x = n0 * s /\ z = n0 * t
  OBVIOUS
<1>2. /\ Eq!Jn(D, X, s, t) = D * (g * t - q * s) /\ Eq!Jn(E, X, x, z) = E * (g * z - q * x)
      /\ Eq!Jp(D, X, s, t) = D * (g * s - q * t) /\ Eq!Jp(E, X, x, z) = E * (g * x - q * z)
  BY <1>1, Zenon DEF Eq!Jn, Eq!Jp
<1>3. /\ g \in Int /\ q \in Int /\ x \in Int /\ z \in Int
      /\ n0 \in Int /\ D0 \in Int /\ l0 \in Int
  BY <1>1, NormUnits
<1>4. /\ n0 * D0 * (D * (g * t - q * s)) = (D0 * D) * (g * (n0 * t) - q * (n0 * s))
      /\ n0 * D0 * (D * (g * s - q * t)) = (D0 * D) * (g * (n0 * s) - q * (n0 * t))
      /\ D * (g * t - q * s) \in Int /\ D * (g * s - q * t) \in Int
  BY <1>3, NormFlowPoly
<1>5. /\ (E * l0) * (g * z - q * x) = l0 * (E * (g * z - q * x))
      /\ (E * l0) * (g * x - q * z) = l0 * (E * (g * x - q * z))
  BY <1>3, NormFlowPoly
<1> QED BY <1>1, <1>2, <1>4, <1>5, Zenon

\* Between two points flow the same electrons and holes, in units.
LEMMA NormFlow ==
  ASSUME Eq!BernNumeric, NEW d \in Eq!Meshed, NEW v \in Eq!Solution(d), NEW y \in 0 .. d.ylen,
         NEW l, NEW r, NormReads(l, d, v, y - 1), NormReads(r, d, v, y),
         NEW D \in Int, NEW E \in Int, D0 * D = E * l0,
         NEW X, X = Eq!XiFace(d, v, y), NEW Z, Z = Eq!XipFace(d, v, y),
         NEW e, e = Norm!Jn(D, l, r), NEW q, q = Norm!Jp(D, l, r)
  PROVE  /\ n0 * D0 * e.J = l0 * Eq!Jn(E, X, Eq!N(d, v, y - 1), Eq!N(d, v, y))
         /\ SameSlope(-E * X.plus * Eq!Dn(d, y - 1), e.dl) /\ SameSlope(E * X.neg * Eq!Dn(d, y), e.dr)
         /\ SameSlope(E * (X.dneg * Eq!N(d, v, y) + X.dplus * Eq!N(d, v, y - 1)), e.dphi)
         /\ n0 * D0 * q.J = l0 * Eq!Jp(E, Z, Eq!P(d, v, y - 1), Eq!P(d, v, y))
         /\ SameSlope(E * Z.neg * Eq!Dp(d, y - 1), q.dl) /\ SameSlope(-E * Z.plus * Eq!Dp(d, y), q.dr)
         /\ SameSlope(E * (Z.dneg * Eq!P(d, v, y - 1) + Z.dplus * Eq!P(d, v, y)), q.dphi)
         /\ e.J \in Int /\ e.dl \in Int /\ e.dr \in Int /\ e.dphi \in Int
         /\ q.J \in Int /\ q.dl \in Int /\ q.dr \in Int /\ q.dphi \in Int
<1>0. /\ \A g, k, s, t, x, z \in Int : n0 * s = x /\ n0 * t = z =>
           SameSlope(E * (g * x + k * z), phi0 * D * (g * s + k * t))
      /\ \A g, s, x \in Int : n0 * s = x * phi0 =>
           SameSlope(E * g * x, D * g * s) /\ SameSlope(-E * g * x, -D * g * s)
      /\ \A g, k, s, t \in Int : phi0 * D * (g * s + k * t) \in Int
      /\ \A g, s \in Int : D * g * s \in Int /\ -D * g * s \in Int
  BY NormFlowUnits
<1>1. PICK x, z : x = Eq!Ec(d, v, y) - Eq!Ec(d, v, y - 1) /\ z = Eq!Ev(d, v, y) - Eq!Ev(d, v, y - 1)
  OBVIOUS
<1>2. /\ X.neg = Bern(-x) /\ X.dneg = dBern(-x) /\ X.plus = Bern(x) /\ X.dplus = dBern(x)
      /\ Z.neg = Bern(-z) /\ Z.dneg = dBern(-z) /\ Z.plus = Bern(z) /\ Z.dplus = dBern(z)
  <2>1. X = Eq!BdB(x) /\ Z = Eq!BdB(z)
    BY <1>1, Zenon DEF Eq!XiFace, Eq!XipFace
  <2>2. \A g : LET k == Eq!BdB(g) IN
               k.neg = Bern(-g) /\ k.dneg = dBern(-g) /\ k.plus = Bern(g) /\ k.dplus = dBern(g)
    BY Zenon DEF Eq!BdB
  <2> QED BY <2>1, <2>2, Zenon
<1>3. phi0 * (r.Ec - l.Ec) = x /\ phi0 * (r.Ev - l.Ev) = z
  <2>1. \A k, g, f \in Int : k * (g - f) = k * g - k * f
    BY SMTT(30)
  <2>2. phi0 \in Int /\ r.Ec \in Int /\ l.Ec \in Int /\ r.Ev \in Int /\ l.Ev \in Int
    BY NormUnits DEF NormReads
  <2>3. /\ phi0 * (r.Ec - l.Ec) = phi0 * r.Ec - phi0 * l.Ec
        /\ phi0 * (r.Ev - l.Ev) = phi0 * r.Ev - phi0 * l.Ev
    BY <2>1, <2>2
  <2> QED BY <1>1, <2>3, Zenon DEF NormReads
<1>4. /\ X.neg \in Int /\ X.plus \in Int /\ X.dneg \in Int /\ X.dplus \in Int
      /\ Z.neg \in Int /\ Z.plus \in Int /\ Z.dneg \in Int /\ Z.dplus \in Int
  BY EqFaceConstants
<1>5. PICK n, m, g, k, s, t, o, w :
        /\ n = Eq!N(d, v, y - 1) /\ m = Eq!N(d, v, y) /\ g = Eq!P(d, v, y - 1) /\ k = Eq!P(d, v, y)
        /\ s = Eq!Dn(d, y - 1) /\ t = Eq!Dn(d, y) /\ o = Eq!Dp(d, y - 1) /\ w = Eq!Dp(d, y)
  OBVIOUS
<1>6. /\ n \in Int /\ m \in Int /\ g \in Int /\ k \in Int
      /\ s \in Int /\ t \in Int /\ o \in Int /\ w \in Int
  <2>1. y \in -1 .. d.ylen /\ y - 1 \in -1 .. d.ylen
    BY EqFaceConstants
  <2> QED BY <1>5, <2>1, EqNumbers
<1>7. /\ n0 * l.n = n /\ n0 * r.n = m /\ n0 * l.p = g /\ n0 * r.p = k
      /\ n0 * l.dn = s * phi0 /\ n0 * r.dn = t * phi0
      /\ n0 * l.dp = o * phi0 /\ n0 * r.dp = w * phi0
  BY <1>5, Zenon DEF NormReads
<1>8. /\ l.n \in Int /\ r.n \in Int /\ l.p \in Int /\ r.p \in Int
      /\ l.dn \in Int /\ r.dn \in Int /\ l.dp \in Int /\ r.dp \in Int
  BY Zenon DEF NormReads
<1>9. /\ e.J = D * (X.neg * r.n - X.plus * l.n)
      /\ e.dl = -D * X.plus * l.dn /\ e.dr = D * X.neg * r.dn
      /\ e.dphi = phi0 * D * (X.dneg * r.n + X.dplus * l.n)
  BY <1>2, <1>3, Zenon DEF Norm!Jn
<1>10. /\ q.J = D * (Z.neg * l.p - Z.plus * r.p)
       /\ q.dl = D * Z.neg * l.dp /\ q.dr = -D * Z.plus * r.dp
       /\ q.dphi = phi0 * D * (Z.dneg * l.p + Z.dplus * r.p)
  BY <1>2, <1>3, Zenon DEF Norm!Jp
<1>11. n0 * D0 * e.J = l0 * Eq!Jn(E, X, n, m) /\ e.J \in Int
  <2>1. e.J = Eq!Jn(D, X, l.n, r.n)
    BY <1>9, Zenon DEF Eq!Jn
  <2>2. n0 * D0 * Eq!Jn(D, X, l.n, r.n) = l0 * Eq!Jn(E, X, n, m) /\ Eq!Jn(D, X, l.n, r.n) \in Int
    <3>1. /\ n0 * D0 * Eq!Jn(D, X, l.n, r.n) = l0 * Eq!Jn(E, X, n0 * l.n, n0 * r.n)
          /\ Eq!Jn(D, X, l.n, r.n) \in Int
      BY <1>4, <1>8, NormDriftUnits
    <3> QED BY <1>7, <3>1, Zenon
  <2> QED BY <2>1, <2>2, Zenon
<1>12. /\ SameSlope(E * (X.dneg * m + X.dplus * n), phi0 * D * (X.dneg * r.n + X.dplus * l.n))
       /\ phi0 * D * (X.dneg * r.n + X.dplus * l.n) \in Int
  BY ONLY <1>0, <1>4, <1>6, <1>7, <1>8, Zenon
<1>13. /\ SameSlope(-E * X.plus * s, -D * X.plus * l.dn) /\ SameSlope(E * X.neg * t, D * X.neg * r.dn)
       /\ -D * X.plus * l.dn \in Int /\ D * X.neg * r.dn \in Int
  BY ONLY <1>0, <1>4, <1>6, <1>7, <1>8, Zenon
<1>14. n0 * D0 * q.J = l0 * Eq!Jp(E, Z, g, k) /\ q.J \in Int
  <2>1. q.J = Eq!Jp(D, Z, l.p, r.p)
    BY <1>10, Zenon DEF Eq!Jp
  <2>2. n0 * D0 * Eq!Jp(D, Z, l.p, r.p) = l0 * Eq!Jp(E, Z, g, k) /\ Eq!Jp(D, Z, l.p, r.p) \in Int
    <3>1. /\ n0 * D0 * Eq!Jp(D, Z, l.p, r.p) = l0 * Eq!Jp(E, Z, n0 * l.p, n0 * r.p)
          /\ Eq!Jp(D, Z, l.p, r.p) \in Int
      BY <1>4, <1>8, NormDriftUnits
    <3> QED BY <1>7, <3>1, Zenon
  <2> QED BY <2>1, <2>2, Zenon
<1>15. /\ SameSlope(E * (Z.dneg * g + Z.dplus * k), phi0 * D * (Z.dneg * l.p + Z.dplus * r.p))
       /\ phi0 * D * (Z.dneg * l.p + Z.dplus * r.p) \in Int
  BY ONLY <1>0, <1>4, <1>6, <1>7, <1>8, Zenon
<1>16. /\ SameSlope(E * Z.neg * o, D * Z.neg * l.dp) /\ SameSlope(-E * Z.plus * w, -D * Z.plus * r.dp)
       /\ D * Z.neg * l.dp \in Int /\ -D * Z.plus * r.dp \in Int
  BY ONLY <1>0, <1>4, <1>6, <1>7, <1>8, Zenon
<1> QED BY <1>5, <1>9, <1>10, <1>11, <1>12, <1>13, <1>14, <1>15, <1>16, Zenon

\* the fluxes of a point's faces in NewtonNorm
NormFluxes(d, v, y) ==
  LET c == Norm!Stored(d, v, y) IN
  [el |-> Norm!Jn(Norm!Dn(d, y), Norm!Left(d, v, y), c),
   er |-> Norm!Jn(Norm!Dn(d, y + 1), c, Norm!Right(d, v, y)),
   hl |-> Norm!Jp(Norm!Dp(d, y), Norm!Left(d, v, y), c),
   hr |-> Norm!Jp(Norm!Dp(d, y + 1), c, Norm!Right(d, v, y))]

\* A face's constants.
LEMMA NormFace ==
  ASSUME NEW d \in Eq!Meshed, NEW v \in Eq!Solution(d), Norm!Convertible(d, v), NEW y \in 0 .. d.ylen
  PROVE  /\ Norm!Dn(d, y) \in Int /\ Norm!Dp(d, y) \in Int /\ Norm!e(d, y) \in Int
         /\ D0 * Norm!Dn(d, y) = d.Dn[y] * l0 /\ D0 * Norm!Dp(d, y) = d.Dp[y] * l0
         /\ phi0 * d.e[y] = n0 * l0 * Norm!e(d, y)
         /\ d.Dn[y] \in Int /\ d.Dp[y] \in Int /\ d.e[y] \in Int
<1>1. d.Dn[y] \in Int /\ d.Dp[y] \in Int /\ d.e[y] \in Int
  BY EqDevice
<1>2. /\ D0 \in Nat \ {0} /\ epsilon0 \in Nat \ {0}
      /\ l0 \in Int /\ n0 \in Int /\ phi0 \in Int /\ epsilon0 \in Int
  BY NormUnits
<1>3. d.Dn[y] * l0 \in Int /\ d.Dp[y] * l0 \in Int /\ d.e[y] * l0 \in Int
  BY <1>1, <1>2
<1>4. Norm!Dn(d, y) \in Int /\ Norm!Dp(d, y) \in Int /\ Norm!e(d, y) \in Int
  BY <1>2, <1>3, NormDiv, Zenon DEF Norm!Dn, Norm!Dp, Norm!e
<1>5. /\ D0 * Norm!Dn(d, y) = d.Dn[y] * l0 /\ D0 * Norm!Dp(d, y) = d.Dp[y] * l0
      /\ epsilon0 * Norm!e(d, y) = d.e[y] * l0
  BY Zenon DEF Norm!Convertible, Norm!Whole, Norm!Dn, Norm!Dp, Norm!e
<1>6. phi0 * d.e[y] = n0 * l0 * Norm!e(d, y)
  <2>1. PICK f, g : f = d.e[y] /\ g = Norm!e(d, y)
    OBVIOUS
  <2>2. \A k, p, n, l, s, t \in Int : /\ k * (p * s) = (k * p) * s /\ (l * l * n) * s = l * n * (s * l)
                                      /\ l * n * (k * t) = k * (n * l * t)
                                      /\ p * s \in Int /\ n * l * t \in Int
    BY SMTT(30)
  <2>3. f \in Int /\ g \in Int
    BY <1>1, <1>4, <2>1
  <2>4. /\ epsilon0 * (phi0 * f) = (epsilon0 * phi0) * f
        /\ (l0 * l0 * n0) * f = l0 * n0 * (f * l0)
        /\ l0 * n0 * (epsilon0 * g) = epsilon0 * (n0 * l0 * g)
        /\ phi0 * f \in Int /\ n0 * l0 * g \in Int
    BY <1>2, <2>2, <2>3
  <2>5. epsilon0 * (phi0 * f) = epsilon0 * (n0 * l0 * g)
    BY <1>5, <2>1, <2>4, NormUnits, Zenon
  <2>6. phi0 * f = n0 * l0 * g
    BY <1>2, <2>4, <2>5, NormCancel
  <2> QED BY <2>1, <2>6, Zenon
<1> QED BY <1>1, <1>4, <1>5, <1>6, Zenon

\* Through the faces of a point they agree on the fluxes and the derivatives,
LEMMA NormFaces ==
  ASSUME Eq!BernNumeric, NEW d \in Eq!Meshed, NEW v \in Eq!Solution(d), Norm!Convertible(d, v),
         NEW y \in Eq!Points(d), NEW J, J = EqDrift(d, v, y), NEW F, F = NormFluxes(d, v, y)
  PROVE  /\ SameSlope(J.nl_l, F.el.dl) /\ SameSlope(J.nl_c, F.el.dr) /\ SameSlope(J.nl_phi, F.el.dphi)
         /\ SameSlope(J.nr_c, F.er.dl) /\ SameSlope(J.nr_r, F.er.dr) /\ SameSlope(J.nr_phi, F.er.dphi)
         /\ SameSlope(J.pl_l, F.hl.dl) /\ SameSlope(J.pl_c, F.hl.dr) /\ SameSlope(J.pl_phi, F.hl.dphi)
         /\ SameSlope(J.pr_c, F.hr.dl) /\ SameSlope(J.pr_r, F.hr.dr) /\ SameSlope(J.pr_phi, F.hr.dphi)
         /\ n0 * D0 * F.el.J
              = l0 * Eq!Jn(d.Dn[y], Eq!XiFace(d, v, y), Eq!N(d, v, y - 1), Eq!N(d, v, y))
         /\ n0 * D0 * F.er.J
              = l0 * Eq!Jn(d.Dn[y + 1], Eq!XiFace(d, v, y + 1), Eq!N(d, v, y), Eq!N(d, v, y + 1))
         /\ n0 * D0 * F.hl.J
              = l0 * Eq!Jp(d.Dp[y], Eq!XipFace(d, v, y), Eq!P(d, v, y - 1), Eq!P(d, v, y))
         /\ n0 * D0 * F.hr.J
              = l0 * Eq!Jp(d.Dp[y + 1], Eq!XipFace(d, v, y + 1), Eq!P(d, v, y), Eq!P(d, v, y + 1))
         /\ \A k \in {F.el, F.er, F.hl, F.hr} : /\ k.J \in Int /\ k.dl \in Int
                                                /\ k.dr \in Int /\ k.dphi \in Int
<1>1. PICK l, c, r : l = Norm!Left(d, v, y) /\ c = Norm!Stored(d, v, y) /\ r = Norm!Right(d, v, y)
  OBVIOUS
<1>2. /\ NormReads(l, d, v, y - 1) /\ NormReads(c, d, v, y) /\ NormReads(r, d, v, y + 1)
  BY <1>1, NormOwn, NormAround
<1>3. (y + 1) - 1 = y /\ y \in 0 .. d.ylen /\ y + 1 \in 0 .. d.ylen
  BY EqAround
<1>4. NormReads(c, d, v, (y + 1) - 1)
  BY <1>2, <1>3, Zenon
<1>5. PICK D, D1, E, E1 : /\ D = Norm!Dn(d, y) /\ D1 = Norm!Dn(d, y + 1)
                          /\ E = Norm!Dp(d, y) /\ E1 = Norm!Dp(d, y + 1)
  OBVIOUS
<1>6. /\ D \in Int /\ D0 * D = d.Dn[y] * l0 /\ d.Dn[y] \in Int
      /\ D1 \in Int /\ D0 * D1 = d.Dn[y + 1] * l0 /\ d.Dn[y + 1] \in Int
      /\ E \in Int /\ D0 * E = d.Dp[y] * l0 /\ d.Dp[y] \in Int
      /\ E1 \in Int /\ D0 * E1 = d.Dp[y + 1] * l0 /\ d.Dp[y + 1] \in Int
  BY <1>3, <1>5, NormFace
<1>7. PICK el, er, hl, hr : /\ el = Norm!Jn(D, l, c) /\ er = Norm!Jn(D1, c, r)
                            /\ hl = Norm!Jp(E, l, c) /\ hr = Norm!Jp(E1, c, r)
  OBVIOUS
<1>8. F.el = el /\ F.er = er /\ F.hl = hl /\ F.hr = hr
  BY <1>1, <1>5, <1>7, Zenon DEF NormFluxes
<1>9. PICK X, Z, X1, Z1 : /\ X = Eq!XiFace(d, v, y) /\ Z = Eq!XipFace(d, v, y)
                          /\ X1 = Eq!XiFace(d, v, y + 1) /\ Z1 = Eq!XipFace(d, v, y + 1)
  OBVIOUS
<1>10. /\ n0 * D0 * el.J = l0 * Eq!Jn(d.Dn[y], X, Eq!N(d, v, y - 1), Eq!N(d, v, y))
       /\ SameSlope(-d.Dn[y] * X.plus * Eq!Dn(d, y - 1), el.dl)
       /\ SameSlope(d.Dn[y] * X.neg * Eq!Dn(d, y), el.dr)
       /\ SameSlope(d.Dn[y] * (X.dneg * Eq!N(d, v, y) + X.dplus * Eq!N(d, v, y - 1)), el.dphi)
       /\ el.J \in Int /\ el.dl \in Int /\ el.dr \in Int /\ el.dphi \in Int
  <2>1. PICK q : q = Norm!Jp(D, l, c)
    OBVIOUS
  <2> QED BY <1>2, <1>3, <1>6, <1>7, <1>9, <2>1, NormFlow
<1>11. /\ n0 * D0 * hl.J = l0 * Eq!Jp(d.Dp[y], Z, Eq!P(d, v, y - 1), Eq!P(d, v, y))
       /\ SameSlope(d.Dp[y] * Z.neg * Eq!Dp(d, y - 1), hl.dl)
       /\ SameSlope(-d.Dp[y] * Z.plus * Eq!Dp(d, y), hl.dr)
       /\ SameSlope(d.Dp[y] * (Z.dneg * Eq!P(d, v, y - 1) + Z.dplus * Eq!P(d, v, y)), hl.dphi)
       /\ hl.J \in Int /\ hl.dl \in Int /\ hl.dr \in Int /\ hl.dphi \in Int
  <2>1. PICK q : q = Norm!Jn(E, l, c)
    OBVIOUS
  <2> QED BY <1>2, <1>3, <1>6, <1>7, <1>9, <2>1, NormFlow
<1>12. /\ n0 * D0 * er.J = l0 * Eq!Jn(d.Dn[y + 1], X1, Eq!N(d, v, (y + 1) - 1), Eq!N(d, v, y + 1))
       /\ SameSlope(-d.Dn[y + 1] * X1.plus * Eq!Dn(d, (y + 1) - 1), er.dl)
       /\ SameSlope(d.Dn[y + 1] * X1.neg * Eq!Dn(d, y + 1), er.dr)
       /\ SameSlope(d.Dn[y + 1] * (X1.dneg * Eq!N(d, v, y + 1) + X1.dplus * Eq!N(d, v, (y + 1) - 1)), er.dphi)
       /\ er.J \in Int /\ er.dl \in Int /\ er.dr \in Int /\ er.dphi \in Int
  <2>1. PICK q : q = Norm!Jp(D1, c, r)
    OBVIOUS
  <2> QED BY <1>2, <1>3, <1>4, <1>6, <1>7, <1>9, <2>1, NormFlow
<1>13. /\ n0 * D0 * hr.J = l0 * Eq!Jp(d.Dp[y + 1], Z1, Eq!P(d, v, (y + 1) - 1), Eq!P(d, v, y + 1))
       /\ SameSlope(d.Dp[y + 1] * Z1.neg * Eq!Dp(d, (y + 1) - 1), hr.dl)
       /\ SameSlope(-d.Dp[y + 1] * Z1.plus * Eq!Dp(d, y + 1), hr.dr)
       /\ SameSlope(d.Dp[y + 1] * (Z1.dneg * Eq!P(d, v, (y + 1) - 1) + Z1.dplus * Eq!P(d, v, y + 1)), hr.dphi)
       /\ hr.J \in Int /\ hr.dl \in Int /\ hr.dr \in Int /\ hr.dphi \in Int
  <2>1. PICK q : q = Norm!Jn(E1, c, r)
    OBVIOUS
  <2> QED BY <1>2, <1>3, <1>4, <1>6, <1>7, <1>9, <2>1, NormFlow
<1>14. /\ Eq!N(d, v, y) = v.n[y] /\ Eq!P(d, v, y) = v.p[y]
       /\ Eq!Dn(d, y) = d.dn[y] /\ Eq!Dp(d, y) = d.dp[y]
  <2>1. ~(y < 0) /\ y # d.ylen
    BY EqDevice DEF Eq!Points
  <2> QED BY <2>1, EqHere DEF Eq!Dn, Eq!Dp, Eq!At
<1>15. /\ J.nl_l = -d.Dn[y] * X.plus * Eq!Dn(d, y - 1) /\ J.nl_c = d.Dn[y] * X.neg * d.dn[y]
       /\ J.nr_c = -d.Dn[y + 1] * X1.plus * d.dn[y]
       /\ J.nr_r = d.Dn[y + 1] * X1.neg * Eq!Dn(d, y + 1)
       /\ J.nl_phi = d.Dn[y] * (X.dneg * v.n[y] + X.dplus * Eq!N(d, v, y - 1))
       /\ J.nr_phi = d.Dn[y + 1] * (X1.dneg * Eq!N(d, v, y + 1) + X1.dplus * v.n[y])
  BY <1>9, Zenon DEF EqDrift
<1>16. /\ J.pl_l = d.Dp[y] * Z.neg * Eq!Dp(d, y - 1) /\ J.pl_c = -d.Dp[y] * Z.plus * d.dp[y]
       /\ J.pr_c = d.Dp[y + 1] * Z1.neg * d.dp[y]
       /\ J.pr_r = -d.Dp[y + 1] * Z1.plus * Eq!Dp(d, y + 1)
       /\ J.pl_phi = d.Dp[y] * (Z.dneg * Eq!P(d, v, y - 1) + Z.dplus * v.p[y])
       /\ J.pr_phi = d.Dp[y + 1] * (Z1.dneg * v.p[y] + Z1.dplus * Eq!P(d, v, y + 1))
  BY <1>9, Zenon DEF EqDrift
<1>17. /\ SameSlope(J.nl_l, el.dl) /\ SameSlope(J.nl_c, el.dr) /\ SameSlope(J.nl_phi, el.dphi)
       /\ SameSlope(J.nr_c, er.dl) /\ SameSlope(J.nr_r, er.dr) /\ SameSlope(J.nr_phi, er.dphi)
  BY <1>3, <1>10, <1>12, <1>14, <1>15, Zenon
<1>18. /\ SameSlope(J.pl_l, hl.dl) /\ SameSlope(J.pl_c, hl.dr) /\ SameSlope(J.pl_phi, hl.dphi)
       /\ SameSlope(J.pr_c, hr.dl) /\ SameSlope(J.pr_r, hr.dr) /\ SameSlope(J.pr_phi, hr.dphi)
  BY <1>3, <1>11, <1>13, <1>14, <1>16, Zenon
<1>19. /\ n0 * D0 * er.J = l0 * Eq!Jn(d.Dn[y + 1], X1, Eq!N(d, v, y), Eq!N(d, v, y + 1))
       /\ n0 * D0 * hr.J = l0 * Eq!Jp(d.Dp[y + 1], Z1, Eq!P(d, v, y), Eq!P(d, v, y + 1))
  BY <1>3, <1>12, <1>13, Zenon
<1>20. \A k \in {F.el, F.er, F.hl, F.hr} : k.J \in Int /\ k.dl \in Int /\ k.dr \in Int /\ k.dphi \in Int
  BY <1>8, <1>10, <1>11, <1>12, <1>13
<1> QED BY <1>8, <1>9, <1>10, <1>11, <1>17, <1>18, <1>19, <1>20, Zenon

\* NewtonNorm's sums are the library's.
LEMMA NormSum == \A f, S : Norm!SumFunctionOnSet(f, S) = SumFunctionOnSet(f, S)
BY DEF Norm!SumFunctionOnSet, Norm!FoldFunctionOnSet, Norm!MapThenFoldSet,
   SumFunctionOnSet, FoldFunctionOnSet, MapThenFoldSet

\* So is the charge of the levels.
LEMMA NormTrapped ==
  ASSUME NEW d, NEW v, NEW y
  PROVE  Norm!Trapped(d, v, y)
           = Eq!Sum([k \in Eq!Bands(d) |-> v.pt[y][k] - v.nt[y][k]], Eq!Bands(d))
<1>1. PICK f : f = [k \in 1 .. d.srh_bands |-> v.pt[y][k] - v.nt[y][k]]
  OBVIOUS
<1>2. Norm!Total(f, LAMBDA t : t) = Norm!SumFunctionOnSet([k \in DOMAIN f |-> f[k]], DOMAIN f)
  BY DEF Norm!Total
<1>3. [k \in DOMAIN f |-> f[k]] = f /\ DOMAIN f = 1 .. d.srh_bands
  BY <1>1
<1>4. Norm!Total(f, LAMBDA t : t) = SumFunctionOnSet(f, 1 .. d.srh_bands)
  BY <1>2, <1>3, NormSum, Zenon
<1> HIDE DEF Norm!Total
<1> QED BY <1>1, <1>4, EqSum, Zenon DEF Eq!Bands, Norm!Trapped

\* The derivatives of the fluxes are numbers,
LEMMA NormDriftInt ==
  ASSUME Eq!BernNumeric, NEW d \in Eq!Meshed, NEW v \in Eq!Solution(d), NEW y \in Eq!Points(d),
         NEW J, J = EqDrift(d, v, y)
  PROVE  /\ J.nl_l \in Int /\ J.nl_c \in Int /\ J.nr_c \in Int /\ J.nr_r \in Int
         /\ J.pl_l \in Int /\ J.pl_c \in Int /\ J.pr_c \in Int /\ J.pr_r \in Int
         /\ J.nl_phi \in Int /\ J.nr_phi \in Int /\ J.pl_phi \in Int /\ J.pr_phi \in Int
<1>1. \A p, q \in Int : p * q \in Int /\ p + q \in Int /\ -p \in Int
  BY SMT
<1>2. /\ y \in 0 .. d.ylen /\ y + 1 \in 0 .. d.ylen /\ (y + 1) - 1 = y
      /\ y - 1 \in -1 .. d.ylen /\ y + 1 \in -1 .. d.ylen
  BY EqAround
<1>3. /\ d.dn[y] \in Int /\ d.dp[y] \in Int /\ v.n[y] \in Int /\ v.p[y] \in Int
  BY EqDevice, EqProfile
<1>4. /\ Eq!Dn(d, y - 1) \in Int /\ Eq!Dn(d, y + 1) \in Int
      /\ Eq!Dp(d, y - 1) \in Int /\ Eq!Dp(d, y + 1) \in Int
      /\ Eq!N(d, v, y - 1) \in Int /\ Eq!N(d, v, y + 1) \in Int
      /\ Eq!P(d, v, y - 1) \in Int /\ Eq!P(d, v, y + 1) \in Int
  BY <1>2, EqNumbers
<1>5. PICK D, D1, E, E1 : D = d.Dn[y] /\ D1 = d.Dn[y + 1] /\ E = d.Dp[y] /\ E1 = d.Dp[y + 1]
  OBVIOUS
<1>6. D \in Int /\ D1 \in Int /\ E \in Int /\ E1 \in Int
  BY <1>2, <1>5, EqFaceConstants
<1>7. PICK X, X1, Z, Z1 : /\ X = Eq!XiFace(d, v, y) /\ X1 = Eq!XiFace(d, v, y + 1)
                          /\ Z = Eq!XipFace(d, v, y) /\ Z1 = Eq!XipFace(d, v, y + 1)
  OBVIOUS
<1>8. /\ X.neg \in Int /\ X.plus \in Int /\ X.dneg \in Int /\ X.dplus \in Int
      /\ Z.neg \in Int /\ Z.plus \in Int /\ Z.dneg \in Int /\ Z.dplus \in Int
  BY <1>2, <1>7, EqFaceConstants
<1>9. /\ X1.neg \in Int /\ X1.plus \in Int /\ X1.dneg \in Int /\ X1.dplus \in Int
      /\ Z1.neg \in Int /\ Z1.plus \in Int /\ Z1.dneg \in Int /\ Z1.dplus \in Int
  BY <1>2, <1>7, EqFaceConstants
<1>10. /\ J.nl_l = -D * X.plus * Eq!Dn(d, y - 1) /\ J.nl_c = D * X.neg * d.dn[y]
       /\ J.nr_c = -D1 * X1.plus * d.dn[y] /\ J.nr_r = D1 * X1.neg * Eq!Dn(d, y + 1)
       /\ J.nl_phi = D * (X.dneg * v.n[y] + X.dplus * Eq!N(d, v, y - 1))
       /\ J.nr_phi = D1 * (X1.dneg * Eq!N(d, v, y + 1) + X1.dplus * v.n[y])
  BY <1>5, <1>7, Zenon DEF EqDrift
<1>11. /\ J.pl_l = E * Z.neg * Eq!Dp(d, y - 1) /\ J.pl_c = -E * Z.plus * d.dp[y]
       /\ J.pr_c = E1 * Z1.neg * d.dp[y] /\ J.pr_r = -E1 * Z1.plus * Eq!Dp(d, y + 1)
       /\ J.pl_phi = E * (Z.dneg * Eq!P(d, v, y - 1) + Z.dplus * v.p[y])
       /\ J.pr_phi = E1 * (Z1.dneg * v.p[y] + Z1.dplus * Eq!P(d, v, y + 1))
  BY <1>5, <1>7, Zenon DEF EqDrift
<1>12. \A p, q, r, s, t \in Int :
         p * q * r \in Int /\ -p * q * r \in Int /\ p * (q * r + s * t) \in Int
  BY SMT
<1>13. /\ -D * X.plus * Eq!Dn(d, y - 1) \in Int /\ D * X.neg * d.dn[y] \in Int
       /\ -D1 * X1.plus * d.dn[y] \in Int /\ D1 * X1.neg * Eq!Dn(d, y + 1) \in Int
       /\ D * (X.dneg * v.n[y] + X.dplus * Eq!N(d, v, y - 1)) \in Int
       /\ D1 * (X1.dneg * Eq!N(d, v, y + 1) + X1.dplus * v.n[y]) \in Int
  BY <1>3, <1>4, <1>6, <1>8, <1>9, <1>12
<1>14. /\ E * Z.neg * Eq!Dp(d, y - 1) \in Int /\ -E * Z.plus * d.dp[y] \in Int
       /\ E1 * Z1.neg * d.dp[y] \in Int /\ -E1 * Z1.plus * Eq!Dp(d, y + 1) \in Int
       /\ E * (Z.dneg * Eq!P(d, v, y - 1) + Z.dplus * v.p[y]) \in Int
       /\ E1 * (Z1.dneg * v.p[y] + Z1.dplus * Eq!P(d, v, y + 1)) \in Int
  BY <1>3, <1>4, <1>6, <1>8, <1>9, <1>12
<1> QED BY <1>10, <1>11, <1>13, <1>14, Zenon

\* and without tunnelling all there is.
LEMMA NormNoTunnel ==
  ASSUME Eq!BernNumeric, NEW d \in Eq!Meshed, NEW v \in Eq!Solution(d), NEW y \in Eq!Points(d),
         NormCan(d), NEW J, J = EqDrift(d, v, y), NEW K, K = EqSlopes(d, v, y)
  PROVE  /\ K.nl_l = J.nl_l /\ K.nl_c = J.nl_c /\ K.nr_c = J.nr_c /\ K.nr_r = J.nr_r
         /\ K.pl_l = J.pl_l /\ K.pl_c = J.pl_c /\ K.pr_c = J.pr_c /\ K.pr_r = J.pr_r
         /\ K.nl_phi = J.nl_phi /\ K.nr_phi = J.nr_phi
         /\ K.pl_phi = J.pl_phi /\ K.pr_phi = J.pr_phi
         /\ Eq!GeLeft(d, y) = 0 /\ Eq!BLeft(d, y) = 0
         /\ Eq!OfFace(d.interface_Ge, y) = 0 /\ Eq!OfFace(d.interface_Gh, y - 1) = 0
         /\ Eq!OfFace(d.interface_Gh, y) = 0
<1>1. y \in 0 .. d.ylen - 1 /\ (IF y - 1 < 0 THEN 0 ELSE y - 1) \in 0 .. d.ylen - 1 /\ ~(y < 0)
  BY EqDevice DEF Eq!Points
<1>2. /\ d.interface_Ge[y] = 0 /\ d.interface_Gh[y] = 0
      /\ Eq!OfFace(d.interface_Ge, y - 1) = 0 /\ Eq!OfFace(d.interface_Gh, y - 1) = 0
      /\ Eq!OfFace(d.interface_B, y - 1) = 0
      /\ Eq!OfFace(d.interface_Ge, y) = 0 /\ Eq!OfFace(d.interface_Gh, y) = 0
  BY <1>1 DEF NormCan, Eq!OfFace
<1>3. Eq!GeLeft(d, y) = 0 /\ Eq!GhLeft(d, y) = 0 /\ Eq!BLeft(d, y) = 0
  BY <1>2 DEF Eq!GeLeft, Eq!GhLeft, Eq!BLeft
<1>4. PICK x, x0, x1, z, z0, z1 :
        /\ x = d.dn[y] /\ x0 = Eq!Dn(d, y - 1) /\ x1 = Eq!Dn(d, y + 1)
        /\ z = d.dp[y] /\ z0 = Eq!Dp(d, y - 1) /\ z1 = Eq!Dp(d, y + 1)
  OBVIOUS
<1>5. /\ x \in Int /\ x0 \in Int /\ x1 \in Int /\ z \in Int /\ z0 \in Int /\ z1 \in Int
  <2>1. y - 1 \in -1 .. d.ylen /\ y + 1 \in -1 .. d.ylen
    BY EqAround
  <2>2. x \in Int /\ z \in Int
    BY <1>4, EqDevice
  <2>3. x0 \in Int /\ x1 \in Int /\ z0 \in Int /\ z1 \in Int
    BY <1>4, <2>1, EqNumbers
  <2> QED BY <2>2, <2>3
<1>6. /\ K.nl_l = J.nl_l - 0 * x0 /\ K.nl_c = J.nl_c + 0 * x
      /\ K.nr_c = J.nr_c - 0 * x /\ K.nr_r = J.nr_r + 0 * x1
      /\ K.nl_phi = J.nl_phi /\ K.nr_phi = J.nr_phi
      /\ K.pl_l = J.pl_l + 0 * z0 /\ K.pl_c = J.pl_c - 0 * z
      /\ K.pr_c = J.pr_c + 0 * z /\ K.pr_r = J.pr_r - 0 * z1
      /\ K.pl_phi = J.pl_phi /\ K.pr_phi = J.pr_phi
  BY <1>2, <1>3, <1>4, Zenon DEF EqSlopes
<1>7. \A p, q \in Int : p - 0 * q = p /\ p + 0 * q = p
  BY SMT
<1>8. /\ J.nl_l \in Int /\ J.nl_c \in Int /\ J.nr_c \in Int /\ J.nr_r \in Int
      /\ J.pl_l \in Int /\ J.pl_c \in Int /\ J.pr_c \in Int /\ J.pr_r \in Int
  BY NormDriftInt
<1>9. /\ J.nl_l - 0 * x0 = J.nl_l /\ J.nl_c + 0 * x = J.nl_c
      /\ J.nr_c - 0 * x = J.nr_c /\ J.nr_r + 0 * x1 = J.nr_r
      /\ J.pl_l + 0 * z0 = J.pl_l /\ J.pl_c - 0 * z = J.pl_c
      /\ J.pr_c + 0 * z = J.pr_c /\ J.pr_r - 0 * z1 = J.pr_r
  BY <1>5, <1>7, <1>8
<1>10. /\ K.nl_l = J.nl_l /\ K.nl_c = J.nl_c /\ K.nr_c = J.nr_c /\ K.nr_r = J.nr_r
       /\ K.pl_l = J.pl_l /\ K.pl_c = J.pl_c /\ K.pr_c = J.pr_c /\ K.pr_r = J.pr_r
  BY <1>6, <1>9, Zenon
<1> QED BY <1>2, <1>3, <1>6, <1>10

\* Where nothing tunnels, what flows through a face drifts and diffuses.
LEMMA NormFlux ==
  ASSUME Eq!BernNumeric, NEW d \in Eq!Meshed, NEW v \in Eq!Solution(d), NEW y \in 0 .. d.ylen,
         Eq!OfFace(d.interface_Ge, y - 1) = 0, Eq!OfFace(d.interface_Gh, y - 1) = 0
  PROVE  /\ Eq!Flux_n(d, v, y)
              = Eq!Jn(d.Dn[y], Eq!XiFace(d, v, y), Eq!N(d, v, y - 1), Eq!N(d, v, y))
         /\ Eq!Flux_p(d, v, y)
              = Eq!Jp(d.Dp[y], Eq!XipFace(d, v, y), Eq!P(d, v, y - 1), Eq!P(d, v, y))
<1>1. \A p, q \in Int : p * q \in Int /\ p - q \in Int
  BY SMT
<1>2. PICK j, k, e, q :
        /\ j = Eq!Jn(d.Dn[y], Eq!XiFace(d, v, y), Eq!N(d, v, y - 1), Eq!N(d, v, y))
        /\ k = Eq!Jp(d.Dp[y], Eq!XipFace(d, v, y), Eq!P(d, v, y - 1), Eq!P(d, v, y))
        /\ e = Eq!En(d, v, y - 1) - Eq!En(d, v, y) /\ q = Eq!Ep(d, v, y - 1) - Eq!Ep(d, v, y)
  OBVIOUS
<1>3. /\ Eq!En(d, v, y) \in Int /\ Eq!En(d, v, y - 1) \in Int
      /\ Eq!Ep(d, v, y) \in Int /\ Eq!Ep(d, v, y - 1) \in Int
  BY EqFaceConstants DEF Eq!En, Eq!Ep
<1>4. e \in Int /\ q \in Int
  BY <1>2, <1>3
<1>5. j \in Int /\ k \in Int
  BY <1>1, <1>2, EqFaceConstants, Zenon DEF Eq!Jn, Eq!Jp
<1>6. j - 0 * e = j /\ k + 0 * q = k
  BY <1>4, <1>5
<1>7. Eq!Flux_n(d, v, y) = j - 0 * e /\ Eq!Flux_p(d, v, y) = k + 0 * q
  BY <1>2, Zenon DEF Eq!Flux_n, Eq!Flux_p
<1> QED BY <1>2, <1>6, <1>7, Zenon

\* The slopes of a level's row, the carriers' slopes being in units.
LEMMA NormLevelPoly ==
  \A n, f, s, x, k \in Int :
    /\ n * (s * k) = (n * s) * k /\ n * (-s * k) = -((n * s) * k)
    /\ (x * f) * k = f * (x * k) /\ -((x * f) * k) = f * (-x * k)
BY SMTT(30)

\* what NewtonNorm has for one level, and what it shares with Fluxes
NormLevelOf(d, t, dt, own, other, down, dother, dphi) ==
  LET r == Eq!Rates(d.Nt, t)  s == Eq!dRates(dt) IN
  [trap |-> own * r.r1 - r.r2 - other * r.r3 + r.r4,
   dtrap |-> own * s.r1 - s.r2 - other * s.r3 + s.r4,
   dtrap_own |-> down * r.r1, dtrap_other |-> -dother * r.r3,
   Rown |-> own * r.r1 - r.r2, Rother |-> -(-other * r.r3 + r.r4),
   dRown |-> own * s.r1 - s.r2, dRother |-> -(-other * s.r3 + s.r4), dphi |-> dphi]
NormSameLevel(l, k) ==
  /\ phi0 * l.dtrap_own = n0 * k.dtrap_own /\ phi0 * l.dtrap_other = n0 * k.dtrap_other
  /\ l.dphi = k.dphi

\* They share it for any rates.
LEMMA NormLevel ==
  ASSUME NEW d, d.Nt \in Int, NEW t \in Int, NEW dt, NEW last, NEW own, NEW other, NEW go,
         NEW f, NEW g, NEW k, NEW s \in Int, NEW w \in Int, NEW x \in Int, NEW z \in Int,
         n0 * s = x * phi0, n0 * w = z * phi0
  PROVE  NormSameLevel(Eq!Level(d.Nt, t, dt, last, own, other, x, z, f, go),
                       NormLevelOf(d, t, dt, g, k, s, w, f))
<1>0. PICK L, K : /\ L = Eq!Level(d.Nt, t, dt, last, own, other, x, z, f, go)
                  /\ K = NormLevelOf(d, t, dt, g, k, s, w, f)
  OBVIOUS
<1>1. PICK r, o, q : r = Eq!Rates(d.Nt, t) /\ o = r.r1 /\ q = r.r3
  OBVIOUS
<1>2. o \in Int /\ q \in Int /\ n0 \in Int /\ phi0 \in Int
  BY <1>1, NormUnits DEF Eq!Rates
<1>3. L.dtrap_own = x * o /\ L.dtrap_other = -z * q /\ L.dphi = f
  BY <1>0, <1>1, Zenon DEF Eq!Level
<1>4. K.dtrap_own = s * o /\ K.dtrap_other = -w * q /\ K.dphi = f
  BY <1>0, <1>1, Zenon DEF NormLevelOf
<1>5. n0 * (s * o) = (n0 * s) * o /\ (x * phi0) * o = phi0 * (x * o)
  BY <1>2, NormLevelPoly
<1>6. n0 * (-w * q) = -((n0 * w) * q) /\ -((z * phi0) * q) = phi0 * (-z * q)
  BY <1>2, NormLevelPoly
<1> QED BY <1>0, <1>3, <1>4, <1>5, <1>6, Zenon DEF NormSameLevel

\* The levels of a point share it.
LEMMA NormTrapLevels ==
  ASSUME NEW d \in Eq!Meshed, NEW v \in Eq!Solution(d), Norm!Convertible(d, v),
         NEW y \in Eq!Points(d), NEW c, c = Norm!Stored(d, v, y)
  PROVE  /\ SameLevels(EqTrapsN(d, v, y), Norm!Ntrap(d, v, c))
         /\ SameLevels(EqTrapsP(d, v, y), Norm!Ptrap(d, v, c))
<1>1. /\ c.y = y /\ c.dn \in Int /\ c.dp \in Int
      /\ n0 * c.dn = d.dn[y] * phi0 /\ n0 * c.dp = d.dp[y] * phi0
  <2>1. NormReads(c, d, v, y) /\ c.y = y
    BY NormOwn
  <2>2. ~(y < 0) /\ y # d.ylen
    BY EqDevice DEF Eq!Points
  <2>3. Eq!Dn(d, y) = d.dn[y] /\ Eq!Dp(d, y) = d.dp[y]
    BY <2>2 DEF Eq!Dn, Eq!Dp, Eq!At
  <2> QED BY <2>1, <2>3, Zenon DEF NormReads
<1>2. /\ d.Nt \in Int /\ d.dn[y] \in Int /\ d.dp[y] \in Int /\ Eq!Bands(d) = 1 .. d.srh_bands
      /\ d.ntrapnewton \in BOOLEAN /\ d.ptrapnewton \in BOOLEAN
      /\ \A k \in Eq!Bands(d) : v.nt[y][k] \in Int /\ v.pt[y][k] \in Int
  <2>1. \A k \in Eq!Bands(d) : v.nt[y][k] \in Int /\ v.pt[y][k] \in Int
    BY EqProfile
  <2>2. Eq!Bands(d) = 1 .. d.srh_bands
    BY DEF Eq!Bands
  <2> QED BY <2>1, <2>2, EqDevice
<1>3. DOMAIN <<>> = {} /\ DOMAIN Norm!NoLevels = {}
  BY DEF Norm!NoLevels
<1>4. SameLevels(EqTrapsN(d, v, y), Norm!Ntrap(d, v, c))
  <2>1. CASE d.ntrapnewton
    <3>1. PICK L, K : L = EqTrapsN(d, v, y) /\ K = Norm!Ntrap(d, v, c)
      OBVIOUS
    <3>2. L = EqLevelsN(d, v, y) /\ K = Norm!Levels(d, v.nt[y], d.dnt, c.n, c.p, c.dn, c.dp, d.dnt)
      BY <1>1, <2>1, <3>1, Zenon DEF EqTrapsN, Norm!Ntrap
    <3>3. DOMAIN L = Eq!Bands(d) /\ DOMAIN K = Eq!Bands(d)
      BY <1>2, <3>2 DEF EqLevelsN, Norm!Levels
    <3>4. ASSUME NEW k \in Eq!Bands(d) PROVE NormSameLevel(L[k], K[k])
      <4>1. L[k] = Eq!Level(d.Nt, v.nt[y][k], d.dnt, d.ntlast, v.n[y], v.p[y],
                            d.dn[y], d.dp[y], d.dnt, d.go_time)
        BY <3>2, <3>4 DEF EqLevelsN
      <4>2. k \in 1 .. d.srh_bands
        BY <1>2
      <4>3. K[k] = NormLevelOf(d, v.nt[y][k], d.dnt, c.n, c.p, c.dn, c.dp, d.dnt)
        BY <3>2, <4>2, Zenon DEF Norm!Levels, NormLevelOf
      <4>4. v.nt[y][k] \in Int
        BY <1>2
      <4>5. NormSameLevel(Eq!Level(d.Nt, v.nt[y][k], d.dnt, d.ntlast, v.n[y], v.p[y], d.dn[y], d.dp[y], d.dnt, d.go_time),
                          NormLevelOf(d, v.nt[y][k], d.dnt, c.n, c.p, c.dn, c.dp, d.dnt))
        BY <1>1, <1>2, <4>4, NormLevel, Zenon
      <4> QED BY <4>1, <4>3, <4>5, Zenon
    <3> QED BY <3>1, <3>3, <3>4, Zenon DEF SameLevels, NormSameLevel
  <2>2. CASE ~d.ntrapnewton
    <3>1. EqTrapsN(d, v, y) = <<>> /\ Norm!Ntrap(d, v, c) = Norm!NoLevels
      BY <2>2 DEF EqTrapsN, Norm!Ntrap
    <3> QED BY <1>3, <3>1, Zenon DEF SameLevels
  <2> QED BY <2>1, <2>2
<1>5. SameLevels(EqTrapsP(d, v, y), Norm!Ptrap(d, v, c))
  <2>1. CASE d.ptrapnewton
    <3>1. PICK L, K : L = EqTrapsP(d, v, y) /\ K = Norm!Ptrap(d, v, c)
      OBVIOUS
    <3>2. L = EqLevelsP(d, v, y) /\ K = Norm!Levels(d, v.pt[y], d.dpt, c.p, c.n, c.dp, c.dn, -d.dpt)
      BY <1>1, <2>1, <3>1, Zenon DEF EqTrapsP, Norm!Ptrap
    <3>3. DOMAIN L = Eq!Bands(d) /\ DOMAIN K = Eq!Bands(d)
      BY <1>2, <3>2 DEF EqLevelsP, Norm!Levels
    <3>4. ASSUME NEW k \in Eq!Bands(d) PROVE NormSameLevel(L[k], K[k])
      <4>1. L[k] = Eq!Level(d.Nt, v.pt[y][k], d.dpt, d.ptlast, v.p[y], v.n[y],
                            d.dp[y], d.dn[y], -d.dpt, d.go_time)
        BY <3>2, <3>4 DEF EqLevelsP
      <4>2. k \in 1 .. d.srh_bands
        BY <1>2
      <4>3. K[k] = NormLevelOf(d, v.pt[y][k], d.dpt, c.p, c.n, c.dp, c.dn, -d.dpt)
        BY <3>2, <4>2, Zenon DEF Norm!Levels, NormLevelOf
      <4>4. v.pt[y][k] \in Int
        BY <1>2
      <4>5. NormSameLevel(Eq!Level(d.Nt, v.pt[y][k], d.dpt, d.ptlast, v.p[y], v.n[y], d.dp[y], d.dn[y], -d.dpt, d.go_time),
                          NormLevelOf(d, v.pt[y][k], d.dpt, c.p, c.n, c.dp, c.dn, -d.dpt))
        BY <1>1, <1>2, <4>4, NormLevel, Zenon
      <4> QED BY <4>1, <4>3, <4>5, Zenon
    <3> QED BY <3>1, <3>3, <3>4, Zenon DEF SameLevels, NormSameLevel
  <2>2. CASE ~d.ptrapnewton
    <3>1. EqTrapsP(d, v, y) = <<>> /\ Norm!Ptrap(d, v, c) = Norm!NoLevels
      BY <2>2 DEF EqTrapsP, Norm!Ptrap
    <3> QED BY <1>3, <3>1, Zenon DEF SameLevels
  <2> QED BY <2>1, <2>2
<1> QED BY <1>4, <1>5

\* Without levels nothing is captured.
LEMMA NormNone ==
  ASSUME NEW d, d.srh_bands = 0, NEW v, NEW y, NEW c
  PROVE  /\ \A L \in {EqTrapsN(d, v, y), EqTrapsP(d, v, y)} :
              /\ EqTotal(EqOwn(L)) = 0 /\ EqTotal(EqOther(L)) = 0
              /\ EqTotal(EqByOwn(L)) = 0 /\ EqTotal(EqByOther(L)) = 0
         /\ Norm!Total(Norm!Ntrap(d, v, c), LAMBDA l : l.dtrap_own) = 0
         /\ Norm!Total(Norm!Ntrap(d, v, c), LAMBDA l : l.dtrap_other) = 0
         /\ Norm!Total(Norm!Ptrap(d, v, c), LAMBDA l : l.dtrap_own) = 0
         /\ Norm!Total(Norm!Ptrap(d, v, c), LAMBDA l : l.dtrap_other) = 0
         /\ Norm!Total(Norm!Ntrap(d, v, c), LAMBDA l : l.Rown) = 0
         /\ Norm!Total(Norm!Ntrap(d, v, c), LAMBDA l : l.Rother) = 0
         /\ Norm!Total(Norm!Ptrap(d, v, c), LAMBDA l : l.Rown) = 0
         /\ Norm!Total(Norm!Ptrap(d, v, c), LAMBDA l : l.Rother) = 0
<1>1. 1 .. d.srh_bands = {} /\ Eq!Bands(d) = {}
  BY DEF Eq!Bands
<1>2. /\ DOMAIN EqTrapsN(d, v, y) = {} /\ DOMAIN EqTrapsP(d, v, y) = {}
      /\ DOMAIN Norm!Ntrap(d, v, c) = {} /\ DOMAIN Norm!Ptrap(d, v, c) = {}
  <2>1. DOMAIN <<>> = {} /\ DOMAIN Norm!NoLevels = {}
    BY DEF Norm!NoLevels
  <2>2. DOMAIN EqLevelsN(d, v, y) = {} /\ DOMAIN EqLevelsP(d, v, y) = {}
    BY <1>1 DEF EqLevelsN, EqLevelsP
  <2>3. /\ DOMAIN Norm!Levels(d, v.nt[c.y], d.dnt, c.n, c.p, c.dn, c.dp, d.dnt) = {}
        /\ DOMAIN Norm!Levels(d, v.pt[c.y], d.dpt, c.p, c.n, c.dp, c.dn, -d.dpt) = {}
    BY <1>1 DEF Norm!Levels
  <2> QED BY <2>1, <2>2, <2>3, Zenon DEF EqTrapsN, EqTrapsP, Norm!Ntrap, Norm!Ptrap
<1>3. ASSUME NEW L, DOMAIN L = {}
      PROVE  /\ EqTotal(EqOwn(L)) = 0 /\ EqTotal(EqOther(L)) = 0
             /\ EqTotal(EqByOwn(L)) = 0 /\ EqTotal(EqByOther(L)) = 0
  <2>1. /\ DOMAIN EqOwn(L) = {} /\ DOMAIN EqOther(L) = {}
        /\ DOMAIN EqByOwn(L) = {} /\ DOMAIN EqByOther(L) = {}
    BY <1>3 DEF EqOwn, EqOther, EqByOwn, EqByOther
  <2> QED BY <2>1, SumEmpty DEF EqTotal
<1>4. ASSUME NEW K, DOMAIN K = {}
      PROVE  /\ Norm!Total(K, LAMBDA l : l.dtrap_own) = 0 /\ Norm!Total(K, LAMBDA l : l.dtrap_other) = 0
             /\ Norm!Total(K, LAMBDA l : l.Rown) = 0 /\ Norm!Total(K, LAMBDA l : l.Rother) = 0
  <2>1. \A f : Norm!SumFunctionOnSet(f, DOMAIN K) = 0
    BY <1>4, NormSum, SumEmpty
  <2> QED BY <2>1, Zenon DEF Norm!Total
<1> HIDE DEF Norm!Total
<1> QED BY <1>2, <1>3, <1>4


\* The rows of the potential, in units.
NormPhi(a, row) == phi0 * a = n0 * l0 * row

\* Sums of what agrees agree.
LEMMA NormSumPoly ==
  \A k, m, f, g, s, t \in Int :
    /\ k * (f + s) = k * f + k * s /\ k * (f - s) = k * f - k * s /\ k * (-f) = -(k * f)
    /\ m * (g + t) = m * g + m * t /\ m * (g - t) = m * g - m * t /\ m * (-g) = -(m * g)
    /\ f + s \in Int /\ f - s \in Int /\ -f \in Int
BY SMTT(30)

\* and so do those of slopes.
LEMMA NormSlopeSum ==
  /\ \A f, g, s, t \in Int :
       SameSlope(f, g) /\ SameSlope(s, t) =>
         SameSlope(f + s, g + t) /\ SameSlope(f - s, g - t) /\ SameSlope(-f, -g)
  /\ \A f, g, s, t \in Int :
       NormPhi(f, g) /\ NormPhi(s, t) => NormPhi(f + s, g + t) /\ NormPhi(-f, -g)
<1>1. l0 * phi0 \in Int /\ n0 * D0 \in Int /\ phi0 \in Int /\ n0 * l0 \in Int
  BY NormUnits
<1>2. ASSUME NEW k \in Int, NEW m \in Int, NEW f \in Int, NEW g \in Int, NEW s \in Int, NEW t \in Int,
             k * f = m * g, k * s = m * t
      PROVE  k * (f + s) = m * (g + t) /\ k * (f - s) = m * (g - t) /\ k * (-f) = m * (-g)
  <2>1. /\ k * (f + s) = k * f + k * s /\ k * (f - s) = k * f - k * s /\ k * (-f) = -(k * f)
        /\ m * (g + t) = m * g + m * t /\ m * (g - t) = m * g - m * t /\ m * (-g) = -(m * g)
    BY NormSumPoly
  <2> QED BY <1>2, <2>1, Zenon
<1>3. ASSUME NEW f \in Int, NEW g \in Int, NEW s \in Int, NEW t \in Int,
             SameSlope(f, g), SameSlope(s, t)
      PROVE  SameSlope(f + s, g + t) /\ SameSlope(f - s, g - t) /\ SameSlope(-f, -g)
  <2>1. l0 * phi0 * f = n0 * D0 * g /\ l0 * phi0 * s = n0 * D0 * t
    BY <1>3, Zenon DEF SameSlope
  <2>2. /\ l0 * phi0 * (f + s) = n0 * D0 * (g + t) /\ l0 * phi0 * (f - s) = n0 * D0 * (g - t)
        /\ l0 * phi0 * (-f) = n0 * D0 * (-g)
    BY <1>1, <1>2, <2>1
  <2> QED BY <2>2, Zenon DEF SameSlope
<1>4. ASSUME NEW f \in Int, NEW g \in Int, NEW s \in Int, NEW t \in Int,
             NormPhi(f, g), NormPhi(s, t)
      PROVE  NormPhi(f + s, g + t) /\ NormPhi(-f, -g)
  <2>1. phi0 * f = n0 * l0 * g /\ phi0 * s = n0 * l0 * t
    BY <1>4, Zenon DEF NormPhi
  <2>2. phi0 * (f + s) = n0 * l0 * (g + t) /\ phi0 * (-f) = n0 * l0 * (-g)
    BY <1>1, <1>2, <2>1
  <2> QED BY <2>2, Zenon DEF NormPhi
<1> QED BY <1>3, <1>4, Zenon

\* What a cell of width h, k in units, generates and recombines: r and g are a unit and a
\* rate in it, n * s and n * t densities.
LEMMA NormCellPoly ==
  \A n, r, l, k, g, s, t, o, q, f, h, p, x \in Int :
    /\ n * (r * (n * l * l)) * (k * (g * (s * t))) = l * ((l * k) * ((r * g) * ((n * s) * (n * t))))
    /\ n * (r * (n * l * l)) * (k * (g * (s * t - o * q)))
         = l * ((l * k) * ((r * g) * ((n * s) * (n * t) - (n * o) * (n * q))))
    /\ l * (h * (g * ((x * f) * p))) = l * f * (h * (g * x * p))
    /\ l * (h * (g * (p * (x * f)))) = l * f * (h * (g * p * x))
    /\ (r * (l * l)) * (k * g) = l * ((l * k) * (r * g))
    /\ n * l * (k * s) = (l * k) * (n * s) /\ n * l * (-k * s) = -((l * k) * (n * s))
    /\ h * (x * f) = f * (h * x) /\ -(h * (x * f)) = f * (-h * x)
    /\ k * g \in Int /\ -k * g \in Int /\ g * (s * t) \in Int /\ g * (s * t - o * q) \in Int
BY SMTT(60)

\* A cell's charge, recombination and generation and their slopes.
LEMMA NormCell ==
  ASSUME NEW d \in Eq!Meshed, NEW v \in Eq!Solution(d), Norm!Convertible(d, v),
         NEW y \in Eq!Points(d), NEW c, c = Norm!Stored(d, v, y),
         NEW free, free = Norm!Rfree(d, c), NEW k, k = Norm!h(d, y)
  PROVE  /\ k \in Int /\ l0 * k = d.h[y]
         /\ free.R \in Int /\ free.dn \in Int /\ free.dp \in Int
         /\ d.Gn[y] \div Norm!r0 \in Int /\ d.Gp[y] \div Norm!r0 \in Int
         /\ SameSlope(d.h[y] * (d.B * d.dn[y] * v.p[y]), k * free.dn)
         /\ SameSlope(d.h[y] * (d.B * v.n[y] * d.dp[y]), k * free.dp)
         /\ n0 * D0 * (k * free.R) = l0 * (d.h[y] * (d.B * Eq!Pairs(d, v, y, y)))
         /\ n0 * D0 * (k * (d.Gn[y] \div Norm!r0)) = l0 * (d.h[y] * d.Gn[y])
         /\ n0 * D0 * (k * (d.Gp[y] \div Norm!r0)) = l0 * (d.h[y] * d.Gp[y])
         /\ NormPhi(d.h[y] * d.dn[y], k * c.dn) /\ NormPhi(-d.h[y] * d.dp[y], -k * c.dp)
<1>1. PICK r, g, h, x, z, n, p, o, q, Gn, Gp :
        /\ r = Norm!r_bi0 /\ g = d.B \div Norm!r_bi0 /\ h = d.h[y] /\ x = d.dn[y] /\ z = d.dp[y]
        /\ n = v.n[y] /\ p = v.p[y] /\ o = d.nfequlib[y] \div n0 /\ q = d.pfequlib[y] \div n0
        /\ Gn = d.Gn[y] \div Norm!r0 /\ Gp = d.Gp[y] \div Norm!r0
  OBVIOUS
<1>2. y \in 0 .. d.ylen - 1 /\ ~(y < 0) /\ y # d.ylen
  BY EqDevice DEF Eq!Points
<1>3. /\ r * g = d.B /\ l0 * k = h /\ n0 * o = d.nfequlib[y] /\ n0 * q = d.pfequlib[y]
      /\ Norm!r0 * Gn = d.Gn[y] /\ Norm!r0 * Gp = d.Gp[y]
  BY <1>1, <1>2, Zenon DEF Norm!Convertible, Norm!Whole, Norm!h
<1>4. /\ d.B \in Int /\ h \in Int /\ x \in Int /\ z \in Int /\ n \in Int /\ p \in Int
      /\ d.Gn[y] \in Int /\ d.Gp[y] \in Int
  BY <1>1, EqDevice, EqProfile
<1>5. /\ n0 \in Nat \ {0} /\ l0 \in Nat \ {0} /\ Norm!r_bi0 \in Nat \ {0} /\ Norm!r0 \in Nat \ {0}
      /\ n0 \in Int /\ l0 \in Int /\ r \in Int /\ Norm!r0 \in Int /\ phi0 \in Int /\ D0 \in Int
  BY <1>1, NormUnits
<1>6. g \in Int /\ k \in Int /\ o \in Int /\ q \in Int /\ Gn \in Int /\ Gp \in Int
  <2>1. d.nfequlib[y] \in Int /\ d.pfequlib[y] \in Int
    BY <1>2, EqDevice
  <2> QED BY <1>1, <1>4, <1>5, <2>1, NormDiv, Zenon DEF Norm!h
<1>7. /\ c.n \in Int /\ c.p \in Int /\ c.dn \in Int /\ c.dp \in Int /\ c.y = y
      /\ n0 * c.n = n /\ n0 * c.p = p /\ n0 * c.dn = x * phi0 /\ n0 * c.dp = z * phi0
  <2>1. NormReads(c, d, v, y) /\ c.y = y
    BY NormOwn
  <2>2. /\ Eq!N(d, v, y) = n /\ Eq!P(d, v, y) = p /\ Eq!Dn(d, y) = x /\ Eq!Dp(d, y) = z
    BY <1>1, <1>2 DEF Eq!N, Eq!P, Eq!Dn, Eq!Dp, Eq!At
  <2> QED BY <2>1, <2>2, Zenon DEF NormReads
<1>8. free.dn = g * (c.dn * c.p) /\ free.dp = g * (c.n * c.dp) /\ free.R = g * (c.n * c.p - o * q)
  BY <1>1, <1>7, Zenon DEF Norm!Rfree
<1>9. Eq!Pairs(d, v, y, y) = n * p - (n0 * o) * (n0 * q)
  <2>1. /\ Eq!Neq(d, y) = d.nfequlib[y] /\ Eq!Peq(d, y) = d.pfequlib[y]
        /\ Eq!N(d, v, y) = n /\ Eq!P(d, v, y) = p
    BY <1>1, <1>2 DEF Eq!N, Eq!P, Eq!Neq, Eq!Peq, Eq!At
  <2> QED BY <1>3, <2>1, Zenon DEF Eq!Pairs
<1>10. D0 = r * (n0 * l0 * l0) /\ n0 * D0 = Norm!r0 * (l0 * l0)
  BY <1>1, NormUnits, Zenon
<1>11. SameSlope(h * (d.B * x * p), k * free.dn)
  <2>1. n0 * (r * (n0 * l0 * l0)) * (k * (g * (c.dn * c.p)))
          = l0 * ((l0 * k) * ((r * g) * ((n0 * c.dn) * (n0 * c.p))))
    BY <1>5, <1>6, <1>7, NormCellPoly
  <2>2. l0 * (h * (d.B * ((x * phi0) * p))) = l0 * phi0 * (h * (d.B * x * p))
    BY <1>4, <1>5, NormCellPoly
  <2> QED BY <1>3, <1>7, <1>8, <1>10, <2>1, <2>2, Zenon DEF SameSlope
<1>12. SameSlope(h * (d.B * n * z), k * free.dp)
  <2>1. n0 * (r * (n0 * l0 * l0)) * (k * (g * (c.n * c.dp)))
          = l0 * ((l0 * k) * ((r * g) * ((n0 * c.n) * (n0 * c.dp))))
    BY <1>5, <1>6, <1>7, NormCellPoly
  <2>2. l0 * (h * (d.B * (n * (z * phi0)))) = l0 * phi0 * (h * (d.B * n * z))
    BY <1>4, <1>5, NormCellPoly
  <2> QED BY <1>3, <1>7, <1>8, <1>10, <2>1, <2>2, Zenon DEF SameSlope
<1>13. n0 * D0 * (k * free.R) = l0 * (h * (d.B * Eq!Pairs(d, v, y, y)))
  <2>1. n0 * (r * (n0 * l0 * l0)) * (k * (g * (c.n * c.p - o * q)))
          = l0 * ((l0 * k) * ((r * g) * ((n0 * c.n) * (n0 * c.p) - (n0 * o) * (n0 * q))))
    BY <1>5, <1>6, <1>7, NormCellPoly
  <2> QED BY <1>3, <1>7, <1>8, <1>9, <1>10, <2>1, Zenon
<1>14. /\ n0 * D0 * (k * Gn) = l0 * (h * d.Gn[y]) /\ n0 * D0 * (k * Gp) = l0 * (h * d.Gp[y])
  <2>1. /\ (Norm!r0 * (l0 * l0)) * (k * Gn) = l0 * ((l0 * k) * (Norm!r0 * Gn))
        /\ (Norm!r0 * (l0 * l0)) * (k * Gp) = l0 * ((l0 * k) * (Norm!r0 * Gp))
    BY <1>5, <1>6, NormCellPoly
  <2> QED BY <1>3, <1>10, <2>1, Zenon
<1>15. NormPhi(h * x, k * c.dn) /\ NormPhi(-h * z, -k * c.dp)
  <2>1. /\ n0 * l0 * (k * c.dn) = (l0 * k) * (n0 * c.dn)
        /\ n0 * l0 * (-k * c.dp) = -((l0 * k) * (n0 * c.dp))
        /\ h * (x * phi0) = phi0 * (h * x) /\ -(h * (z * phi0)) = phi0 * (-h * z)
    BY <1>4, <1>5, <1>6, <1>7, NormCellPoly
  <2> QED BY <1>3, <1>7, <2>1, Zenon DEF NormPhi
<1>16. free.R \in Int /\ free.dn \in Int /\ free.dp \in Int
  BY <1>6, <1>7, <1>8, NormCellPoly
<1> QED BY <1>1, <1>3, <1>6, <1>11, <1>12, <1>13, <1>14, <1>15, <1>16, Zenon

\* Recombination of free carriers, with the Auger rates at zero.
LEMMA NormProductPoly ==
  \A g, n, p, x, q, h \in Int :
    /\ g * x * p + 0 * x * q + (0 * n + 0 * p) * x * p = g * x * p
    /\ g * n * x + 0 * x * q + (0 * n + 0 * p) * n * x = g * n * x
    /\ h * g * x * p = h * (g * x * p) /\ h * g * n * x = h * (g * n * x)
    /\ -h * (g * x * p) = -(h * (g * x * p)) /\ -h * (g * n * x) = -(h * (g * n * x))
    /\ h * (g * x * p) \in Int /\ h * (g * n * x) \in Int
    /\ h * (g * x * p + 0 * x) = h * (g * x * p) /\ h * (g * n * x + 0 * x) = h * (g * n * x)
    /\ g * x * p \in Int /\ g * n * x \in Int
BY SMTT(60)

\* The rows of the two solvers are the same in units: what faces and free carriers give.
LEMMA NormRow0 ==
  ASSUME Eq!BernNumeric, NEW d \in Eq!Meshed, NEW v \in Eq!Solution(d), NEW y \in Eq!Points(d),
         NormCan(d), Norm!Convertible(d, v), NEW w, w = EqRow0(d, v, y),
         NEW F, F = NormFluxes(d, v, y), NEW c, c = Norm!Stored(d, v, y),
         NEW free, free = Norm!Rfree(d, c), NEW k, k = Norm!h(d, y)
  PROVE  /\ NormPhi(w.dphil, -Norm!e(d, y)) /\ NormPhi(w.dphic, Norm!e(d, y) + Norm!e(d, y + 1))
         /\ NormPhi(w.dphir, -Norm!e(d, y + 1))
         /\ NormPhi(w.dphidxic, k * c.dn) /\ NormPhi(w.dphidxipc, -k * c.dp)
         /\ SameSlope(w.dJdxil, -F.el.dl) /\ SameSlope(w.dJdxir, F.er.dr)
         /\ SameSlope(w.dJdxic, F.er.dl - F.el.dr - k * free.dn) /\ SameSlope(w.dJdxipc, -(k * free.dp))
         /\ SameSlope(w.dJdphil, F.el.dphi) /\ SameSlope(w.dJdphir, F.er.dphi)
         /\ SameSlope(w.dJdphic, -F.el.dphi - F.er.dphi - k * free.dn)
         /\ SameSlope(w.dJpdxipl, -F.hl.dl) /\ SameSlope(w.dJpdxipr, F.hr.dr)
         /\ SameSlope(w.dJpdxipc, F.hr.dl - F.hl.dr + k * free.dp) /\ SameSlope(w.dJpdxic, k * free.dn)
         /\ SameSlope(w.dJpdphil, F.hl.dphi) /\ SameSlope(w.dJpdphir, F.hr.dphi)
         /\ SameSlope(w.dJpdphic, -F.hl.dphi - F.hr.dphi + k * free.dp)
         /\ w.dJdxic \in Int /\ w.dJpdxipc \in Int
         /\ k * free.dn \in Int /\ k * free.dp \in Int
<1>1. PICK J, K : J = EqDrift(d, v, y) /\ K = EqSlopes(d, v, y)
  OBVIOUS
<1>2. /\ K.nl_l = J.nl_l /\ K.nl_c = J.nl_c /\ K.nr_c = J.nr_c /\ K.nr_r = J.nr_r
      /\ K.pl_l = J.pl_l /\ K.pl_c = J.pl_c /\ K.pr_c = J.pr_c /\ K.pr_r = J.pr_r
      /\ K.nl_phi = J.nl_phi /\ K.nr_phi = J.nr_phi
      /\ K.pl_phi = J.pl_phi /\ K.pr_phi = J.pr_phi
  BY <1>1, NormNoTunnel
<1>3. /\ J.nl_l \in Int /\ J.nl_c \in Int /\ J.nr_c \in Int /\ J.nr_r \in Int
      /\ J.pl_l \in Int /\ J.pl_c \in Int /\ J.pr_c \in Int /\ J.pr_r \in Int
      /\ J.nl_phi \in Int /\ J.nr_phi \in Int /\ J.pl_phi \in Int /\ J.pr_phi \in Int
  BY <1>1, NormDriftInt
<1>4. PICK B, h, n, p, x, z, q :
        /\ B = d.B /\ h = d.h[y] /\ n = v.n[y] /\ p = v.p[y] /\ x = d.dn[y] /\ z = d.dp[y]
        /\ q = Eq!Pairs(d, v, y, y)
  OBVIOUS
<1>5. B \in Int /\ h \in Int /\ n \in Int /\ p \in Int /\ x \in Int /\ z \in Int /\ q \in Int
  <2>1. q \in Int
    BY <1>4, EqSideNumbers
  <2> QED BY <1>4, <2>1, EqDevice, EqProfile
<1>6. d.Cn = 0 /\ d.Cp = 0 /\ d.go_time = FALSE
  BY EqDevice DEF NormCan
<1>7. PICK f, g, s, t : f = h * (B * x * p) /\ g = h * (B * n * z) /\ s = k * free.dn /\ t = k * free.dp
  OBVIOUS
<1>8. PICK dRdn, dRdp : /\ dRdn = B * x * p + 0 * x * q + (0 * n + 0 * p) * x * p
                        /\ dRdp = B * n * z + 0 * z * q + (0 * n + 0 * p) * n * z
  OBVIOUS
<1>9. /\ dRdn = B * x * p /\ dRdp = B * n * z
      /\ h * B * x * p = f /\ h * B * n * z = g /\ h * dRdn = f
      /\ h * (dRdn + 0 * x) = f /\ h * (dRdp + 0 * z) = g /\ -h * dRdp = -g
      /\ f \in Int /\ g \in Int
  <2>1. dRdn = B * x * p /\ dRdp = B * n * z
    BY <1>5, <1>8, NormProductPoly
  <2>2. /\ h * B * x * p = f /\ h * B * n * z = g
        /\ h * (B * x * p + 0 * x) = f /\ h * (B * n * z + 0 * z) = g
        /\ -h * (B * n * z) = -g /\ f \in Int /\ g \in Int
    BY <1>5, <1>7, NormProductPoly
  <2> QED BY <1>7, <2>1, <2>2, Zenon
<1>10. /\ w.dphil = -d.e[y] /\ w.dphic = d.e[y] + d.e[y + 1] /\ w.dphir = -d.e[y + 1]
       /\ w.dphidxic = h * x /\ w.dphidxipc = -h * z
       /\ w.dJdxil = -J.nl_l /\ w.dJdxir = J.nr_r
       /\ w.dJdxic = J.nr_c - J.nl_c - h * (dRdn + 0 * x) /\ w.dJdxipc = -h * dRdp
       /\ w.dJdphil = J.nl_phi /\ w.dJdphir = J.nr_phi
       /\ w.dJdphic = -J.nl_phi - J.nr_phi - h * B * x * p
  BY <1>1, <1>2, <1>4, <1>6, <1>8, Zenon DEF EqRow0, Eq!Augers
<1>11. /\ w.dJpdxipl = -J.pl_l /\ w.dJpdxipr = J.pr_r
       /\ w.dJpdxipc = J.pr_c - J.pl_c + h * (dRdp + 0 * z) /\ w.dJpdxic = h * dRdn
       /\ w.dJpdphil = J.pl_phi /\ w.dJpdphir = J.pr_phi
       /\ w.dJpdphic = -J.pl_phi - J.pr_phi + h * B * n * z
  BY <1>1, <1>2, <1>4, <1>6, <1>8, Zenon DEF EqRow0, Eq!Augers
<1>12. /\ SameSlope(J.nl_l, F.el.dl) /\ SameSlope(J.nl_c, F.el.dr) /\ SameSlope(J.nl_phi, F.el.dphi)
       /\ SameSlope(J.nr_c, F.er.dl) /\ SameSlope(J.nr_r, F.er.dr) /\ SameSlope(J.nr_phi, F.er.dphi)
       /\ SameSlope(J.pl_l, F.hl.dl) /\ SameSlope(J.pl_c, F.hl.dr) /\ SameSlope(J.pl_phi, F.hl.dphi)
       /\ SameSlope(J.pr_c, F.hr.dl) /\ SameSlope(J.pr_r, F.hr.dr) /\ SameSlope(J.pr_phi, F.hr.dphi)
       /\ \A m \in {F.el, F.er, F.hl, F.hr} : m.dl \in Int /\ m.dr \in Int /\ m.dphi \in Int
  BY <1>1, NormFaces
<1>13. /\ F.el.dl \in Int /\ F.el.dr \in Int /\ F.el.dphi \in Int
       /\ F.er.dl \in Int /\ F.er.dr \in Int /\ F.er.dphi \in Int
       /\ F.hl.dl \in Int /\ F.hl.dr \in Int /\ F.hl.dphi \in Int
       /\ F.hr.dl \in Int /\ F.hr.dr \in Int /\ F.hr.dphi \in Int
  BY <1>12
<1>14. /\ SameSlope(f, s) /\ SameSlope(g, t) /\ s \in Int /\ t \in Int
       /\ NormPhi(h * x, k * c.dn) /\ NormPhi(-h * z, -k * c.dp)
  <2>1. \A o, m \in Int : o * m \in Int
    BY SMT
  <2>2. /\ SameSlope(d.h[y] * (d.B * d.dn[y] * v.p[y]), k * free.dn)
        /\ SameSlope(d.h[y] * (d.B * v.n[y] * d.dp[y]), k * free.dp)
        /\ NormPhi(d.h[y] * d.dn[y], k * c.dn) /\ NormPhi(-d.h[y] * d.dp[y], -k * c.dp)
        /\ k \in Int /\ free.dn \in Int /\ free.dp \in Int
    BY NormCell
  <2>3. s \in Int /\ t \in Int
    BY <1>7, <2>1, <2>2
  <2> QED BY <1>4, <1>7, <2>2, <2>3, Zenon
<1>15. /\ \A l, m, o, r \in Int :
            SameSlope(l, m) /\ SameSlope(o, r) =>
              SameSlope(l + o, m + r) /\ SameSlope(l - o, m - r) /\ SameSlope(-l, -m)
       /\ \A l, m, o, r \in Int :
            NormPhi(l, m) /\ NormPhi(o, r) => NormPhi(l + o, m + r) /\ NormPhi(-l, -m)
  BY NormSlopeSum
<1>16. \A l, m \in Int : l - m \in Int /\ l + m \in Int /\ -l \in Int
  OBVIOUS
<1>17. /\ SameSlope(-J.nl_l, -F.el.dl) /\ SameSlope(-J.pl_l, -F.hl.dl) /\ SameSlope(-g, -t)
  BY ONLY <1>3, <1>9, <1>12, <1>13, <1>14, <1>15, Zenon
<1>18. SameSlope(J.nr_c - J.nl_c, F.er.dl - F.el.dr) /\ SameSlope(J.pr_c - J.pl_c, F.hr.dl - F.hl.dr)
  BY ONLY <1>3, <1>12, <1>13, <1>15, Zenon
<1>19. /\ J.nr_c - J.nl_c \in Int /\ F.er.dl - F.el.dr \in Int
       /\ J.pr_c - J.pl_c \in Int /\ F.hr.dl - F.hl.dr \in Int
  BY ONLY <1>3, <1>13, <1>16, Zenon
<1>20. /\ SameSlope(J.nr_c - J.nl_c - f, F.er.dl - F.el.dr - s)
       /\ SameSlope(J.pr_c - J.pl_c + g, F.hr.dl - F.hl.dr + t)
       /\ J.nr_c - J.nl_c - f \in Int /\ J.pr_c - J.pl_c + g \in Int
  BY ONLY <1>9, <1>14, <1>15, <1>16, <1>18, <1>19, Zenon
<1>21. /\ SameSlope(-J.nl_phi, -F.el.dphi) /\ SameSlope(-J.pl_phi, -F.hl.dphi)
       /\ -J.nl_phi \in Int /\ -F.el.dphi \in Int /\ -J.pl_phi \in Int /\ -F.hl.dphi \in Int
  BY ONLY <1>3, <1>12, <1>13, <1>15, <1>16, Zenon
<1>22. /\ SameSlope(-J.nl_phi - J.nr_phi, -F.el.dphi - F.er.dphi)
       /\ SameSlope(-J.pl_phi - J.pr_phi, -F.hl.dphi - F.hr.dphi)
       /\ -J.nl_phi - J.nr_phi \in Int /\ -F.el.dphi - F.er.dphi \in Int
       /\ -J.pl_phi - J.pr_phi \in Int /\ -F.hl.dphi - F.hr.dphi \in Int
  BY ONLY <1>3, <1>12, <1>13, <1>15, <1>16, <1>21, Zenon
<1>23. /\ SameSlope(-J.nl_phi - J.nr_phi - f, -F.el.dphi - F.er.dphi - s)
       /\ SameSlope(-J.pl_phi - J.pr_phi + g, -F.hl.dphi - F.hr.dphi + t)
  BY ONLY <1>9, <1>14, <1>15, <1>22, Zenon
<1>24. PICK m, o, j, l : m = d.e[y] /\ o = d.e[y + 1] /\ j = Norm!e(d, y) /\ l = Norm!e(d, y + 1)
  OBVIOUS
<1>25. /\ m \in Int /\ o \in Int /\ j \in Int /\ l \in Int /\ NormPhi(m, j) /\ NormPhi(o, l)
  <2>1. y \in 0 .. d.ylen /\ y + 1 \in 0 .. d.ylen
    BY EqAround
  <2> QED BY <1>24, <2>1, NormFace DEF NormPhi
<1>26. NormPhi(-m, -j) /\ NormPhi(m + o, j + l) /\ NormPhi(-o, -l)
  BY ONLY <1>15, <1>25, Zenon
<1>27. /\ NormPhi(w.dphil, -j) /\ NormPhi(w.dphic, j + l) /\ NormPhi(w.dphir, -l)
       /\ NormPhi(w.dphidxic, k * c.dn) /\ NormPhi(w.dphidxipc, -k * c.dp)
  BY ONLY <1>10, <1>14, <1>24, <1>26, Zenon
<1>28. /\ SameSlope(w.dJdxil, -F.el.dl) /\ SameSlope(w.dJdxir, F.er.dr)
       /\ SameSlope(w.dJdxic, F.er.dl - F.el.dr - s) /\ SameSlope(w.dJdxipc, -t)
       /\ SameSlope(w.dJdphil, F.el.dphi) /\ SameSlope(w.dJdphir, F.er.dphi)
       /\ SameSlope(w.dJdphic, -F.el.dphi - F.er.dphi - s) /\ w.dJdxic \in Int
  BY ONLY <1>9, <1>10, <1>12, <1>17, <1>20, <1>23, Zenon
<1>29. /\ SameSlope(w.dJpdxipl, -F.hl.dl) /\ SameSlope(w.dJpdxipr, F.hr.dr)
       /\ SameSlope(w.dJpdxipc, F.hr.dl - F.hl.dr + t) /\ SameSlope(w.dJpdxic, s)
       /\ SameSlope(w.dJpdphil, F.hl.dphi) /\ SameSlope(w.dJpdphir, F.hr.dphi)
       /\ SameSlope(w.dJpdphic, -F.hl.dphi - F.hr.dphi + t) /\ w.dJpdxipc \in Int
  BY ONLY <1>9, <1>11, <1>12, <1>14, <1>17, <1>20, <1>23, Zenon
<1> QED BY ONLY <1>7, <1>14, <1>24, <1>27, <1>28, <1>29, Zenon

\* The rows of the two solvers are the same in units, those of the carriers at their own
\* densities where there are no trap levels.
LEMMA NormRow ==
  ASSUME Eq!BernNumeric, NEW d \in Eq!Meshed, NEW v \in Eq!Solution(d), NEW y \in Eq!Points(d),
         NormCan(d), Norm!Convertible(d, v),
         NEW a, a = EqRow(d, v, y), NEW row, row = Norm!Slopes(d, v, y)
  PROVE  /\ \A f \in PhiFields : phi0 * a[f] = n0 * l0 * row[f]
         /\ \A f \in CarrierFields : SameSlope(a[f], row[f])
         /\ d.srh_bands = 0 => \A f \in OwnFields : SameSlope(a[f], row[f])
<1>1. PICK w, F, c, free, k :
        /\ w = EqRow0(d, v, y) /\ F = NormFluxes(d, v, y) /\ c = Norm!Stored(d, v, y)
        /\ free = Norm!Rfree(d, c) /\ k = Norm!h(d, y)
  OBVIOUS
<1>2. PICK el, er, hl, hr : el = F.el /\ er = F.er /\ hl = F.hl /\ hr = F.hr
  OBVIOUS
<1>3. PICK m, o : m = Norm!e(d, y) /\ o = Norm!e(d, y + 1)
  OBVIOUS
<1>4. /\ NormPhi(w.dphil, -m) /\ NormPhi(w.dphic, m + o) /\ NormPhi(w.dphir, -o)
      /\ NormPhi(w.dphidxic, k * c.dn) /\ NormPhi(w.dphidxipc, -k * c.dp)
      /\ SameSlope(w.dJdxil, -el.dl) /\ SameSlope(w.dJdxir, er.dr)
      /\ SameSlope(w.dJdxic, er.dl - el.dr - k * free.dn) /\ SameSlope(w.dJdxipc, -(k * free.dp))
      /\ SameSlope(w.dJdphil, el.dphi) /\ SameSlope(w.dJdphir, er.dphi)
      /\ SameSlope(w.dJdphic, -el.dphi - er.dphi - k * free.dn)
      /\ SameSlope(w.dJpdxipl, -hl.dl) /\ SameSlope(w.dJpdxipr, hr.dr)
      /\ SameSlope(w.dJpdxipc, hr.dl - hl.dr + k * free.dp) /\ SameSlope(w.dJpdxic, k * free.dn)
      /\ SameSlope(w.dJpdphil, hl.dphi) /\ SameSlope(w.dJpdphir, hr.dphi)
      /\ SameSlope(w.dJpdphic, -hl.dphi - hr.dphi + k * free.dp)
      /\ w.dJdxic \in Int /\ w.dJpdxipc \in Int
  <2>1. /\ NormPhi(w.dphil, -Norm!e(d, y)) /\ NormPhi(w.dphic, Norm!e(d, y) + Norm!e(d, y + 1))
        /\ NormPhi(w.dphir, -Norm!e(d, y + 1))
        /\ NormPhi(w.dphidxic, k * c.dn) /\ NormPhi(w.dphidxipc, -k * c.dp)
        /\ SameSlope(w.dJdxil, -F.el.dl) /\ SameSlope(w.dJdxir, F.er.dr)
        /\ SameSlope(w.dJdxic, F.er.dl - F.el.dr - k * free.dn) /\ SameSlope(w.dJdxipc, -(k * free.dp))
        /\ SameSlope(w.dJdphil, F.el.dphi) /\ SameSlope(w.dJdphir, F.er.dphi)
        /\ SameSlope(w.dJdphic, -F.el.dphi - F.er.dphi - k * free.dn)
        /\ SameSlope(w.dJpdxipl, -F.hl.dl) /\ SameSlope(w.dJpdxipr, F.hr.dr)
        /\ SameSlope(w.dJpdxipc, F.hr.dl - F.hl.dr + k * free.dp) /\ SameSlope(w.dJpdxic, k * free.dn)
        /\ SameSlope(w.dJpdphil, F.hl.dphi) /\ SameSlope(w.dJpdphir, F.hr.dphi)
        /\ SameSlope(w.dJpdphic, -F.hl.dphi - F.hr.dphi + k * free.dp)
        /\ w.dJdxic \in Int /\ w.dJpdxipc \in Int
    BY <1>1, NormRow0
  <2> QED BY <1>2, <1>3, <2>1, Zenon
<1>5. PICK no, nt, po, pt :
        /\ no = EqTotal(EqByOwn(EqTrapsN(d, v, y))) /\ nt = EqTotal(EqByOther(EqTrapsN(d, v, y)))
        /\ po = EqTotal(EqByOwn(EqTrapsP(d, v, y))) /\ pt = EqTotal(EqByOther(EqTrapsP(d, v, y)))
  OBVIOUS
<1>6. /\ \A f \in EqFields \ {"dJdxic", "dJpdxipc", "ntrap", "ptrap"} : a[f] = w[f]
      /\ a.dJdxic = w.dJdxic - d.h[y] * no + d.h[y] * pt
      /\ a.dJpdxipc = w.dJpdxipc - d.h[y] * nt + d.h[y] * po
  BY <1>1, <1>4, <1>5, EqRowTraps
<1>7. PICK Nown, Nother, Pown, Pother :
        /\ Nown = Norm!Total(Norm!Ntrap(d, v, c), LAMBDA l : l.dtrap_own)
        /\ Nother = Norm!Total(Norm!Ntrap(d, v, c), LAMBDA l : l.dtrap_other)
        /\ Pown = Norm!Total(Norm!Ptrap(d, v, c), LAMBDA l : l.dtrap_own)
        /\ Pother = Norm!Total(Norm!Ptrap(d, v, c), LAMBDA l : l.dtrap_other)
  OBVIOUS
<1> HIDE DEF Norm!Total
<1>8. /\ el = Norm!Jn(Norm!Dn(d, y), Norm!Left(d, v, y), c)
      /\ er = Norm!Jn(Norm!Dn(d, y + 1), c, Norm!Right(d, v, y))
      /\ hl = Norm!Jp(Norm!Dp(d, y), Norm!Left(d, v, y), c)
      /\ hr = Norm!Jp(Norm!Dp(d, y + 1), c, Norm!Right(d, v, y))
  BY <1>1, <1>2, Zenon DEF NormFluxes
<1>9. row = [dphil |-> -m, dphic |-> m + o, dphir |-> -o,
             dphidxic |-> k * c.dn, dphidxipc |-> -k * c.dp,
             dJdxil |-> -el.dl, dJdxir |-> er.dr,
             dJdxic |-> er.dl - el.dr - k * (free.dn + Nown - Pother),
             dJdxipc |-> -(k * free.dp),
             dJdphil |-> el.dphi, dJdphic |-> -el.dphi - er.dphi - k * free.dn, dJdphir |-> er.dphi,
             dJpdxipl |-> -hl.dl, dJpdxipr |-> hr.dr,
             dJpdxipc |-> hr.dl - hl.dr + k * (free.dp + Pown - Nother),
             dJpdxic |-> k * free.dn,
             dJpdphil |-> hl.dphi, dJpdphic |-> -hl.dphi - hr.dphi + k * free.dp, dJpdphir |-> hr.dphi]
  BY <1>1, <1>3, <1>7, <1>8, Zenon DEF Norm!Slopes
<1>10. PICK x1, x2, x3, x4, x5, x6, x7, x8, x9, x10, x11, x12, x13, x14, x15, x16, x17, x18, x19 :
         /\ x1 = -m /\ x2 = m + o /\ x3 = -o /\ x4 = k * c.dn /\ x5 = -k * c.dp
         /\ x6 = -el.dl /\ x7 = er.dr /\ x8 = er.dl - el.dr - k * (free.dn + Nown - Pother)
         /\ x9 = -(k * free.dp) /\ x10 = el.dphi /\ x11 = -el.dphi - er.dphi - k * free.dn
         /\ x12 = er.dphi /\ x13 = -hl.dl /\ x14 = hr.dr
         /\ x15 = hr.dl - hl.dr + k * (free.dp + Pown - Nother) /\ x16 = k * free.dn
         /\ x17 = hl.dphi /\ x18 = -hl.dphi - hr.dphi + k * free.dp /\ x19 = hr.dphi
  OBVIOUS
<1>11. row = [dphil |-> x1, dphic |-> x2, dphir |-> x3, dphidxic |-> x4, dphidxipc |-> x5,
              dJdxil |-> x6, dJdxir |-> x7, dJdxic |-> x8, dJdxipc |-> x9, dJdphil |-> x10,
              dJdphic |-> x11, dJdphir |-> x12, dJpdxipl |-> x13, dJpdxipr |-> x14,
              dJpdxipc |-> x15, dJpdxic |-> x16, dJpdphil |-> x17, dJpdphic |-> x18,
              dJpdphir |-> x19]
  BY <1>9, <1>10, Zenon
<1>12. /\ row.dphil = x1 /\ row.dphic = x2 /\ row.dphir = x3 /\ row.dphidxic = x4
       /\ row.dphidxipc = x5 /\ row.dJdxil = x6 /\ row.dJdxir = x7 /\ row.dJdxic = x8
       /\ row.dJdxipc = x9 /\ row.dJdphil = x10 /\ row.dJdphic = x11 /\ row.dJdphir = x12
       /\ row.dJpdxipl = x13 /\ row.dJpdxipr = x14 /\ row.dJpdxipc = x15 /\ row.dJpdxic = x16
       /\ row.dJpdphil = x17 /\ row.dJpdphic = x18 /\ row.dJpdphir = x19
  BY <1>11
<1>13. /\ a.dphil = w.dphil /\ a.dphic = w.dphic /\ a.dphir = w.dphir
       /\ a.dphidxic = w.dphidxic /\ a.dphidxipc = w.dphidxipc
       /\ a.dJdxil = w.dJdxil /\ a.dJdxir = w.dJdxir /\ a.dJdxipc = w.dJdxipc
       /\ a.dJdphil = w.dJdphil /\ a.dJdphir = w.dJdphir /\ a.dJdphic = w.dJdphic
       /\ a.dJpdxipl = w.dJpdxipl /\ a.dJpdxipr = w.dJpdxipr /\ a.dJpdxic = w.dJpdxic
       /\ a.dJpdphil = w.dJpdphil /\ a.dJpdphir = w.dJpdphir /\ a.dJpdphic = w.dJpdphic
  BY <1>6 DEF EqFields
<1>14. \A f \in PhiFields : phi0 * a[f] = n0 * l0 * row[f]
  <2>1. /\ NormPhi(a.dphil, row.dphil) /\ NormPhi(a.dphic, row.dphic) /\ NormPhi(a.dphir, row.dphir)
        /\ NormPhi(a.dphidxic, row.dphidxic) /\ NormPhi(a.dphidxipc, row.dphidxipc)
    BY <1>4, <1>10, <1>12, <1>13, Zenon
  <2> QED BY <2>1, Zenon DEF PhiFields, NormPhi
<1>15. \A f \in CarrierFields : SameSlope(a[f], row[f])
  <2>1. /\ SameSlope(a.dJdxil, row.dJdxil) /\ SameSlope(a.dJdxir, row.dJdxir)
        /\ SameSlope(a.dJdxipc, row.dJdxipc) /\ SameSlope(a.dJdphil, row.dJdphil)
        /\ SameSlope(a.dJdphic, row.dJdphic) /\ SameSlope(a.dJdphir, row.dJdphir)
    BY <1>4, <1>10, <1>12, <1>13, Zenon
  <2>2. /\ SameSlope(a.dJpdxipl, row.dJpdxipl) /\ SameSlope(a.dJpdxipr, row.dJpdxipr)
        /\ SameSlope(a.dJpdxic, row.dJpdxic) /\ SameSlope(a.dJpdphil, row.dJpdphil)
        /\ SameSlope(a.dJpdphic, row.dJpdphic) /\ SameSlope(a.dJpdphir, row.dJpdphir)
    BY <1>4, <1>10, <1>12, <1>13, Zenon
  <2> QED BY <2>1, <2>2, Zenon DEF CarrierFields
<1>16. ASSUME d.srh_bands = 0 PROVE \A f \in OwnFields : SameSlope(a[f], row[f])
  <2>1. no = 0 /\ nt = 0 /\ po = 0 /\ pt = 0
    BY <1>5, <1>16, NormNone
  <2>2. Nown = 0 /\ Nother = 0 /\ Pown = 0 /\ Pother = 0
    BY <1>7, <1>16, NormNone, Zenon
  <2>3. d.h[y] \in Int /\ free.dn \in Int /\ free.dp \in Int
    BY <1>1, EqDevice, NormCell
  <2>4. /\ w.dJdxic - d.h[y] * 0 + d.h[y] * 0 = w.dJdxic
        /\ w.dJpdxipc - d.h[y] * 0 + d.h[y] * 0 = w.dJpdxipc
        /\ free.dn + 0 - 0 = free.dn /\ free.dp + 0 - 0 = free.dp
    BY <1>4, <2>3
  <2>5. a.dJdxic = w.dJdxic /\ a.dJpdxipc = w.dJpdxipc
    BY <1>6, <2>1, <2>4, Zenon
  <2>6. x8 = er.dl - el.dr - k * free.dn /\ x15 = hr.dl - hl.dr + k * free.dp
    BY <1>10, <2>2, <2>4, Zenon
  <2>7. SameSlope(a.dJdxic, row.dJdxic) /\ SameSlope(a.dJpdxipc, row.dJpdxipc)
    BY <1>4, <1>12, <2>5, <2>6, Zenon
  <2> QED BY <2>7, Zenon DEF OwnFields
<1> QED BY <1>14, <1>15, <1>16

\* Both recombine a point's own pairs only.
LEMMA NormAugers ==
  ASSUME Eq!BernNumeric, NEW d \in Eq!Meshed, NEW v \in Eq!Solution(d), NEW y \in Eq!Points(d),
         NormCan(d)
  PROVE  Eq!Augers(d, v, y) * Eq!Pairs(d, v, y, y) = 0
<1>1. Eq!Augers(d, v, y) = 0 * v.n[y] + 0 * v.p[y]
  BY Zenon DEF Eq!Augers, NormCan
<1>2. PICK q, n, p : q = Eq!Pairs(d, v, y, y) /\ n = v.n[y] /\ p = v.p[y]
  OBVIOUS
<1>3. q \in Int /\ n \in Int /\ p \in Int
  BY <1>2, EqSideNumbers, EqProfile
<1>4. (0 * n + 0 * p) * q = 0
  BY <1>3
<1> QED BY <1>1, <1>2, <1>4, Zenon

\* A right hand side without Auger, SRH and interface recombination and without trap
\* levels, in both orders; m is the unit of the fluxes.
LEMMA NormSidePoly ==
  \A h, F, F1, c, g, n, q, l, m, k, r, s, e, j \in Int :
    /\ -((F1 - F) - h * ((0 + 0) + (c + 0 + 0) + 0 * q)) + h * (0 * n - g) = h * (c - g) - (F1 - F)
    /\ -((F1 - F) + h * ((0 + 0) + (c + 0 + 0) + 0 * q)) + h * (g - 0 * n) = h * (g - c) - (F1 - F)
    /\ l * (h * (c - g) - (F1 - F)) = (l * (h * c) - l * (h * g)) - (l * F1 - l * F)
    /\ l * (h * (g - c) - (F1 - F)) = (l * (h * g) - l * (h * c)) - (l * F1 - l * F)
    /\ m * (k * (0 + 0 + r - s) - (e - j)) = (m * (k * r) - m * (k * s)) - (m * e - m * j)
    /\ m * (k * (s - r - 0 - 0) - (e - j)) = (m * (k * s) - m * (k * r)) - (m * e - m * j)
BY SMTT(60)

\* The charge of a point, of which t is in physical units, and the divergence of its field.
LEMMA NormPhiPoly ==
  \A n, l, k, p, s, o, t, e, f, x, y, z \in Int :
    n * l * (k * (p - s + o + t) - (-e * x + (e + f) * y - f * z))
      = (l * k) * (n * p - n * s + n * o + n * t)
          - (-((n * l * e) * x) + (n * l * e) * y + (n * l * f) * y - (n * l * f) * z)
BY SMTT(60)

\* How much more n times the levels' charge t gives.
LEMMA NormChargePoly ==
  \A n, k, p, s, o, t, e, f, x, y, z \in Int :
    k * (p - s + o + n * t) - (-(e * x) + e * y + f * y - f * z)
      = (k * (p - s + o + t) - ((-e) * x + (e + f) * y + (-f) * z)) + (n - 1) * k * t
BY SMTT(60)

\* The right hand sides: the potential's, but for the charge of the levels,
LEMMA NormSidePhi ==
  ASSUME NEW d \in Eq!Meshed, NEW v \in Eq!Solution(d), NEW y \in Eq!Points(d),
         Norm!Convertible(d, v), NEW side, side = Norm!RightHandSides(d, v, y)
  PROVE  n0 * l0 * side.phi
           = EqSide(d, v, y, 0).phi + (n0 - 1) * d.h[y] * Norm!Trapped(d, v, y)
<1>1. PICK c, l, r : /\ c = Norm!Stored(d, v, y) /\ l = Norm!Left(d, v, y)
                     /\ r = Norm!Right(d, v, y)
  OBVIOUS
<1>2. PICK h, k, e, f, g, q, t, N, o, n, p :
        /\ h = d.h[y] /\ k = Norm!h(d, y) /\ e = Norm!e(d, y) /\ f = Norm!e(d, y + 1)
        /\ g = d.e[y] /\ q = d.e[y + 1] /\ t = Norm!Trapped(d, v, y) /\ N = d.Nad[y]
        /\ o = d.Nad[y] \div n0 /\ n = v.n[y] /\ p = v.p[y]
  OBVIOUS
<1>3. PICK X, Y, Z : X = Eq!Phi(d, v, y - 1) /\ Y = v.phi[y] /\ Z = Eq!Phi(d, v, y + 1)
  OBVIOUS
<1>4. side.phi = k * (c.p - c.n + o + t) - (-e * l.phi + (e + f) * c.phi - f * r.phi)
  BY <1>1, <1>2, Zenon DEF Norm!RightHandSides
<1>5. /\ c.n \in Int /\ c.p \in Int /\ c.phi \in Int /\ l.phi \in Int /\ r.phi \in Int
      /\ n0 * c.n = n /\ n0 * c.p = p /\ phi0 * c.phi = Y /\ phi0 * l.phi = X /\ phi0 * r.phi = Z
  <2>1. /\ NormReads(c, d, v, y) /\ NormReads(l, d, v, y - 1) /\ NormReads(r, d, v, y + 1)
    BY <1>1, NormOwn, NormAround
  <2>2. ~(y < 0) /\ y # d.ylen
    BY EqDevice DEF Eq!Points
  <2>3. Eq!N(d, v, y) = n /\ Eq!P(d, v, y) = p /\ Eq!Phi(d, v, y) = Y
    BY <1>2, <1>3, <2>2 DEF Eq!N, Eq!P, Eq!Phi, Eq!At
  <2> QED BY <1>3, <2>1, <2>3, Zenon DEF NormReads
<1>6. /\ k \in Int /\ l0 * k = h /\ h \in Int /\ n \in Int /\ p \in Int /\ N \in Int
  <2>1. PICK free : free = Norm!Rfree(d, c)
    OBVIOUS
  <2>2. k \in Int /\ l0 * k = h
    BY <1>1, <1>2, <2>1, NormCell
  <2> QED BY <1>2, <2>2, EqDevice, EqProfile
<1>7. /\ e \in Int /\ f \in Int /\ g \in Int /\ q \in Int
      /\ n0 * l0 * e = phi0 * g /\ n0 * l0 * f = phi0 * q
  <2>1. y \in 0 .. d.ylen /\ y + 1 \in 0 .. d.ylen
    BY EqAround
  <2> QED BY <1>2, <2>1, NormFace
<1>8. n0 * o = N /\ o \in Int /\ n0 \in Int /\ l0 \in Int /\ phi0 \in Int
  <2>1. y \in 0 .. d.ylen - 1 /\ n0 \in Nat \ {0}
    BY NormUnits, EqDevice DEF Eq!Points
  <2>2. n0 * o = N
    BY <1>2, <2>1, Zenon DEF Norm!Convertible, Norm!Whole
  <2>3. o \in Int
    BY <1>2, <1>6, <2>1, NormDiv, Zenon
  <2> QED BY <2>2, <2>3, NormUnits
<1>9. /\ t = Eq!Sum([a \in Eq!Bands(d) |-> v.pt[y][a] - v.nt[y][a]], Eq!Bands(d))
      /\ t \in Int
  <2>1. t = Eq!Sum([a \in Eq!Bands(d) |-> v.pt[y][a] - v.nt[y][a]], Eq!Bands(d))
    BY <1>2, NormTrapped
  <2>2. Eq!Charge(d, v, y) = p - n + N + t
    BY <1>2, <2>1, Zenon DEF Eq!Charge
  <2>3. PICK m : m = [a \in Eq!Bands(d) |-> v.pt[y][a] - v.nt[y][a]]
    OBVIOUS
  <2>4. \A a \in Eq!Bands(d) : v.nt[y][a] \in Int /\ v.pt[y][a] \in Int
    BY EqProfile
  <2>5. m \in [Eq!Bands(d) -> Int] /\ Eq!Bands(d) \in SUBSET Eq!Bands(d)
    BY <2>3, <2>4
  <2>6. Eq!Sum(m, Eq!Bands(d)) \in Int
    BY <2>5, EqSum, EqLevelsType, SumSplit
  <2> QED BY <2>1, <2>3, <2>6, Zenon
<1>10. EqSide(d, v, y, 0).phi = h * (p - n + N + t) - ((-g) * X + (g + q) * Y + (-q) * Z)
  <2>1. Eq!Charge(d, v, y) = p - n + N + t
    BY <1>2, <1>9, Zenon DEF Eq!Charge
  <2> QED BY <1>2, <1>3, <2>1, Zenon DEF EqSide
<1>11. X \in Int /\ Y \in Int /\ Z \in Int
  BY <1>5, <1>8, SMT
<1>12. PICK cn, cp, cphi, lphi, rphi :
         cn = c.n /\ cp = c.p /\ cphi = c.phi /\ lphi = l.phi /\ rphi = r.phi
  OBVIOUS
<1>13. cn \in Int /\ cp \in Int /\ cphi \in Int /\ lphi \in Int /\ rphi \in Int
  BY <1>5, <1>12
<1>14. n0 * l0 * side.phi
         = (l0 * k) * (n0 * cp - n0 * cn + n0 * o + n0 * t)
             - (-((n0 * l0 * e) * lphi) + (n0 * l0 * e) * cphi + (n0 * l0 * f) * cphi
                  - (n0 * l0 * f) * rphi)
  <2>1. n0 * l0 * (k * (cp - cn + o + t) - (-e * lphi + (e + f) * cphi - f * rphi))
          = (l0 * k) * (n0 * cp - n0 * cn + n0 * o + n0 * t)
              - (-((n0 * l0 * e) * lphi) + (n0 * l0 * e) * cphi + (n0 * l0 * f) * cphi
                   - (n0 * l0 * f) * rphi)
    BY <1>6, <1>7, <1>8, <1>9, <1>13, NormPhiPoly
  <2> QED BY <1>4, <1>12, <2>1, Zenon
<1>15. /\ (n0 * l0 * e) * lphi = g * X /\ (n0 * l0 * e) * cphi = g * Y
       /\ (n0 * l0 * f) * cphi = q * Y /\ (n0 * l0 * f) * rphi = q * Z
  <2>1. \A m, x, z \in Int : (m * x) * z = x * (m * z)
    BY SMT
  <2>2. /\ (phi0 * g) * lphi = g * (phi0 * lphi) /\ (phi0 * g) * cphi = g * (phi0 * cphi)
        /\ (phi0 * q) * cphi = q * (phi0 * cphi) /\ (phi0 * q) * rphi = q * (phi0 * rphi)
    BY <1>7, <1>8, <1>13, <2>1
  <2> QED BY <1>5, <1>7, <1>12, <2>2, Zenon
<1>16. n0 * l0 * side.phi = h * (p - n + N + n0 * t) - (-(g * X) + g * Y + q * Y - q * Z)
  BY <1>5, <1>6, <1>8, <1>12, <1>15, <1>14, Zenon
<1>17. h * (p - n + N + n0 * t) - (-(g * X) + g * Y + q * Y - q * Z)
         = (h * (p - n + N + t) - ((-g) * X + (g + q) * Y + (-q) * Z)) + (n0 - 1) * h * t
  BY <1>6, <1>7, <1>8, <1>9, <1>11, NormChargePoly
<1> QED BY <1>2, <1>10, <1>16, <1>17, Zenon

\* and the carriers' where there are none.
LEMMA NormSideCarriers ==
  ASSUME Eq!BernNumeric, NEW d \in Eq!Meshed, NEW v \in Eq!Solution(d), NEW y \in Eq!Points(d),
         NormCan(d), Norm!Convertible(d, v), d.srh_bands = 0,
         NEW side, side = Norm!RightHandSides(d, v, y)
  PROVE  n0 * D0 * side.n = l0 * EqSide(d, v, y, 0).n /\ n0 * D0 * side.p = l0 * EqSide(d, v, y, 0).p
<1>1. PICK c, l, r : /\ c = Norm!Stored(d, v, y) /\ l = Norm!Left(d, v, y)
                     /\ r = Norm!Right(d, v, y)
  OBVIOUS
<1>2. PICK h, g, k, F, F1, G, G1 :
        /\ h = d.h[y] /\ g = d.Gn[y] /\ k = d.Gp[y]
        /\ F = Eq!Flux_n(d, v, y) /\ F1 = Eq!Flux_n(d, v, y + 1)
        /\ G = Eq!Flux_p(d, v, y) /\ G1 = Eq!Flux_p(d, v, y + 1)
  OBVIOUS
<1>3. /\ EqTotal(EqOwn(EqTrapsN(d, v, y))) = 0 /\ EqTotal(EqOther(EqTrapsP(d, v, y))) = 0
      /\ EqTotal(EqOther(EqTrapsN(d, v, y))) = 0 /\ EqTotal(EqOwn(EqTrapsP(d, v, y))) = 0
  BY NormNone
<1>4. /\ h \in Int /\ F \in Int /\ F1 \in Int /\ G \in Int /\ G1 \in Int /\ g \in Int /\ k \in Int
  BY <1>2, EqSideNumbers
<1>5. PICK f, n, p, q, t : /\ f = d.B * Eq!Pairs(d, v, y, y)
                           /\ n = v.n[y] - d.nlast /\ p = v.p[y] - d.plast
                           /\ q = Eq!Pairs(d, v, y, y - 1) /\ t = Eq!Pairs(d, v, y + 1, y)
  OBVIOUS
<1>6. f \in Int /\ n \in Int /\ p \in Int /\ q \in Int /\ t \in Int
  <2>1. y \in -1 .. d.ylen /\ y - 1 \in -1 .. d.ylen /\ y + 1 \in -1 .. d.ylen
    BY EqAround
  <2>2. q \in Int /\ t \in Int
    BY <1>5, <2>1, EqPairsInt
  <2>3. d.B \in Int /\ Eq!Pairs(d, v, y, y) \in Int /\ n \in Int /\ p \in Int
    BY <1>5, EqSideNumbers
  <2>4. \A m, o \in Int : m * o \in Int
    BY SMT
  <2> QED BY <1>5, <2>2, <2>3, <2>4
<1>7. y \in 0 .. d.ylen - 1 /\ d.interface_B[y] = 0 /\ d.go_time = FALSE
  BY EqDevice DEF NormCan, Eq!Points
<1>8. Eq!BLeft(d, y) = 0 /\ Eq!Augers(d, v, y) * Eq!Pairs(d, v, y, y) = 0
  <2>1. PICK J, K : J = EqDrift(d, v, y) /\ K = EqSlopes(d, v, y)
    OBVIOUS
  <2> QED BY <2>1, NormNoTunnel, NormAugers
<1>9. /\ EqSide(d, v, y, 0).n = -((F1 - F) - h * ((0 + 0) + (f + 0 + 0) + 0 * q)) + h * (0 * n - g)
      /\ EqSide(d, v, y, 0).p = -((G1 - G) + h * ((0 + 0) + (f + 0 + 0) + 0 * t)) + h * (k - 0 * p)
  BY <1>2, <1>3, <1>5, <1>7, <1>8, Zenon DEF EqSide
<1>10. /\ EqSide(d, v, y, 0).n = h * (f - g) - (F1 - F)
       /\ EqSide(d, v, y, 0).p = h * (k - f) - (G1 - G)
  <2>1. -((F1 - F) - h * ((0 + 0) + (f + 0 + 0) + 0 * q)) + h * (0 * n - g) = h * (f - g) - (F1 - F)
    BY <1>4, <1>6, NormSidePoly
  <2>2. -((G1 - G) + h * ((0 + 0) + (f + 0 + 0) + 0 * t)) + h * (k - 0 * p) = h * (k - f) - (G1 - G)
    BY <1>4, <1>6, NormSidePoly
  <2> QED BY <1>9, <2>1, <2>2, Zenon
<1>11. PICK fluxes, el, er, hl, hr :
         /\ fluxes = NormFluxes(d, v, y)
         /\ el = fluxes.el /\ er = fluxes.er /\ hl = fluxes.hl /\ hr = fluxes.hr
  OBVIOUS
<1>12. /\ n0 * D0 * el.J = l0 * F /\ n0 * D0 * er.J = l0 * F1
       /\ n0 * D0 * hl.J = l0 * G /\ n0 * D0 * hr.J = l0 * G1
       /\ el.J \in Int /\ er.J \in Int /\ hl.J \in Int /\ hr.J \in Int
  <2>1. PICK J, K : J = EqDrift(d, v, y) /\ K = EqSlopes(d, v, y)
    OBVIOUS
  <2>2. /\ n0 * D0 * el.J = l0 * Eq!Jn(d.Dn[y], Eq!XiFace(d, v, y), Eq!N(d, v, y - 1), Eq!N(d, v, y))
        /\ n0 * D0 * er.J
             = l0 * Eq!Jn(d.Dn[y + 1], Eq!XiFace(d, v, y + 1), Eq!N(d, v, y), Eq!N(d, v, y + 1))
        /\ n0 * D0 * hl.J = l0 * Eq!Jp(d.Dp[y], Eq!XipFace(d, v, y), Eq!P(d, v, y - 1), Eq!P(d, v, y))
        /\ n0 * D0 * hr.J
             = l0 * Eq!Jp(d.Dp[y + 1], Eq!XipFace(d, v, y + 1), Eq!P(d, v, y), Eq!P(d, v, y + 1))
        /\ \A m \in {fluxes.el, fluxes.er, fluxes.hl, fluxes.hr} : m.J \in Int
    BY <1>11, <2>1, NormFaces
  <2>3. /\ Eq!GeLeft(d, y) = 0 /\ Eq!OfFace(d.interface_Ge, y) = 0
        /\ Eq!OfFace(d.interface_Gh, y - 1) = 0 /\ Eq!OfFace(d.interface_Gh, y) = 0
    BY <2>1, NormNoTunnel
  <2>4. Eq!OfFace(d.interface_Ge, y - 1) = 0
    BY <2>3, Zenon DEF Eq!GeLeft
  <2>5. y \in 0 .. d.ylen /\ y + 1 \in 0 .. d.ylen /\ (y + 1) - 1 = y
    BY EqAround
  <2>6. /\ F = Eq!Jn(d.Dn[y], Eq!XiFace(d, v, y), Eq!N(d, v, y - 1), Eq!N(d, v, y))
        /\ G = Eq!Jp(d.Dp[y], Eq!XipFace(d, v, y), Eq!P(d, v, y - 1), Eq!P(d, v, y))
    BY <1>2, <2>3, <2>4, <2>5, NormFlux
  <2>7. /\ Eq!OfFace(d.interface_Ge, (y + 1) - 1) = 0 /\ Eq!OfFace(d.interface_Gh, (y + 1) - 1) = 0
    BY <2>3, <2>5, Zenon
  <2>8. /\ F1 = Eq!Jn(d.Dn[y + 1], Eq!XiFace(d, v, y + 1), Eq!N(d, v, (y + 1) - 1), Eq!N(d, v, y + 1))
        /\ G1 = Eq!Jp(d.Dp[y + 1], Eq!XipFace(d, v, y + 1), Eq!P(d, v, (y + 1) - 1), Eq!P(d, v, y + 1))
    BY <1>2, <2>5, <2>7, NormFlux
  <2>9. el.J \in Int /\ er.J \in Int /\ hl.J \in Int /\ hr.J \in Int
    BY <1>11, <2>2
  <2> QED BY <2>2, <2>5, <2>6, <2>8, <2>9, Zenon
<1>13. PICK rate, s, o, w, m, free :
         /\ free = Norm!Rfree(d, c) /\ rate = free.R /\ s = d.Gn[y] \div Norm!r0
         /\ o = d.Gp[y] \div Norm!r0 /\ w = Norm!h(d, y) /\ m = n0 * D0
  OBVIOUS
<1>14. /\ w \in Int /\ rate \in Int /\ s \in Int /\ o \in Int /\ m \in Int /\ l0 \in Int
       /\ m * (w * rate) = l0 * (h * f) /\ m * (w * s) = l0 * (h * g) /\ m * (w * o) = l0 * (h * k)
  <2>1. m \in Int /\ l0 \in Int
    BY <1>13, NormUnits
  <2>2. /\ w \in Int /\ free.R \in Int /\ d.Gn[y] \div Norm!r0 \in Int /\ d.Gp[y] \div Norm!r0 \in Int
        /\ n0 * D0 * (w * free.R) = l0 * (d.h[y] * (d.B * Eq!Pairs(d, v, y, y)))
        /\ n0 * D0 * (w * (d.Gn[y] \div Norm!r0)) = l0 * (d.h[y] * d.Gn[y])
        /\ n0 * D0 * (w * (d.Gp[y] \div Norm!r0)) = l0 * (d.h[y] * d.Gp[y])
    BY <1>1, <1>13, NormCell
  <2> QED BY <1>2, <1>5, <1>13, <2>1, <2>2, Zenon
<1>15. /\ Norm!Total(Norm!Ntrap(d, v, c), LAMBDA a : a.Rown) = 0
       /\ Norm!Total(Norm!Ntrap(d, v, c), LAMBDA a : a.Rother) = 0
       /\ Norm!Total(Norm!Ptrap(d, v, c), LAMBDA a : a.Rown) = 0
       /\ Norm!Total(Norm!Ptrap(d, v, c), LAMBDA a : a.Rother) = 0
  BY NormNone, Zenon
<1> HIDE DEF Norm!Total
<1>16. /\ side.n = w * (0 + 0 + rate - s) - (er.J - el.J)
       /\ side.p = w * (o - rate - 0 - 0) - (hr.J - hl.J)
  BY <1>1, <1>11, <1>13, <1>15, Zenon DEF Norm!RightHandSides, NormFluxes
<1>17. /\ m * (w * (0 + 0 + rate - s) - (er.J - el.J))
            = (m * (w * rate) - m * (w * s)) - (m * er.J - m * el.J)
       /\ m * (w * (o - rate - 0 - 0) - (hr.J - hl.J))
            = (m * (w * o) - m * (w * rate)) - (m * hr.J - m * hl.J)
  BY <1>12, <1>14, NormSidePoly
<1>18. /\ l0 * (h * (f - g) - (F1 - F)) = (l0 * (h * f) - l0 * (h * g)) - (l0 * F1 - l0 * F)
       /\ l0 * (h * (k - f) - (G1 - G)) = (l0 * (h * k) - l0 * (h * f)) - (l0 * G1 - l0 * G)
  BY <1>4, <1>6, <1>14, NormSidePoly
<1> QED BY <1>10, <1>12, <1>13, <1>14, <1>16, <1>17, <1>18, Zenon

-----------------------------------------------------------------------------

\* Of a device both can solve, what fill_matrix has written is what the other solver would,
\* in units.
LEMMA NormSameSystem == ASSUME Eq!BernNumeric, EqInv, EqSystemInv PROVE SameSystem
<1> SUFFICES ASSUME Eq!Filled, NormCan(dev), Norm!Convertible(dev, u),
                    NEW y \in 0 .. dev.ylen - 1,
                    NEW row, row = Norm!Slopes(dev, u, y),
                    NEW side, side = Norm!RightHandSides(dev, u, y),
                    NEW c, c = Norm!Stored(dev, u, y)
             PROVE  /\ \A f \in PhiFields : phi0 * A[y][f] = n0 * l0 * row[f]
                    /\ \A f \in CarrierFields : SameSlope(A[y][f], row[f])
                    /\ n0 * l0 * side.phi
                         = b[y].phi + (n0 - 1) * dev.h[y] * Norm!Trapped(dev, u, y)
                    /\ SameLevels(A[y].ntrap, Norm!Ntrap(dev, u, c))
                    /\ SameLevels(A[y].ptrap, Norm!Ptrap(dev, u, c))
                    /\ dev.srh_bands = 0 =>
                         /\ \A f \in OwnFields : SameSlope(A[y][f], row[f])
                         /\ n0 * D0 * side.n = l0 * b[y].n /\ n0 * D0 * side.p = l0 * b[y].p
  BY Zenon DEF SameSystem, NormSolves, NormCan
<1>1. dev \in Eq!Meshed /\ u \in Eq!Solution(dev) /\ y \in Eq!Points(dev)
  BY DEF EqInv, EqWhere, EqSystemInv, Eq!Points
<1>2. y < i
  BY <1>1, EqPointsRange DEF Eq!Filled
<1>3. A[y] = EqRow(dev, u, y)
  BY <1>1, <1>2 DEF EqSystemInv, EqRowsInv
<1>4. Eq!NoHoleTunnel /\ Eq!SrhToTheEnd(dev)
  BY EqDevice, <1>1 DEF NormCan, Eq!NoHoleTunnel, Eq!SrhToTheEnd, Eq!Points
<1>5. EqSrh(dev, u, y) = 0
  BY DEF EqSrh, NormCan
<1>6. b[y] = EqSide(dev, u, y, 0)
  BY <1>1, <1>2, <1>4, <1>5 DEF EqSystemInv, EqSidesInv
<1>7. /\ \A f \in PhiFields : phi0 * A[y][f] = n0 * l0 * row[f]
      /\ \A f \in CarrierFields : SameSlope(A[y][f], row[f])
      /\ dev.srh_bands = 0 => \A f \in OwnFields : SameSlope(A[y][f], row[f])
  BY <1>1, <1>3, NormRow
<1>8. n0 * l0 * side.phi = b[y].phi + (n0 - 1) * dev.h[y] * Norm!Trapped(dev, u, y)
  BY <1>1, <1>6, NormSidePhi
<1>9. ASSUME dev.srh_bands = 0
      PROVE  n0 * D0 * side.n = l0 * b[y].n /\ n0 * D0 * side.p = l0 * b[y].p
  BY <1>1, <1>6, <1>9, NormSideCarriers
<1>10. A[y].ntrap = EqTrapsN(dev, u, y) /\ A[y].ptrap = EqTrapsP(dev, u, y)
  BY <1>3, EqRowParts
<1>11. /\ SameLevels(EqTrapsN(dev, u, y), Norm!Ntrap(dev, u, c))
       /\ SameLevels(EqTrapsP(dev, u, y), Norm!Ptrap(dev, u, c))
  BY <1>1, NormTrapLevels
<1> QED BY <1>7, <1>8, <1>9, <1>10, <1>11, Zenon

\* What both parts need of a run.
NormInv == SystemInv /\ (part = "matrix" => MatrixInv)

\* It holds at the start,
LEMMA NormInit == MCInit => NormInv
<1> SUFFICES ASSUME MCInit PROVE NormInv
  OBVIOUS
<1>1. SystemInv
  BY SystemInit
<1>2. part = "matrix" => Init
  BY DEF MCInit
<1> QED BY <1>1, <1>2, MatrixInit DEF NormInv

\* and after every step.
LEMMA NormStep == NormInv /\ [MCNext]_<<vars, part, faces, valuesOnly, planeOnly>> => NormInv'
<1> SUFFICES ASSUME NormInv, [MCNext]_<<vars, part, faces, valuesOnly, planeOnly>>
             PROVE  NormInv'
  OBVIOUS
<1>1. SystemInv'
  BY SystemStep DEF NormInv
<1>2. part' = part
  BY DEF MCNext
<1>3. CASE part = "matrix"
  <2>1. [Next]_vars
    BY <1>3 DEF MCNext
  <2>2. IInv /\ MatrixInv
    BY <1>3 DEF NormInv, SystemInv, PartInv
  <2> QED BY <1>1, <2>1, <2>2, MatrixStep DEF NormInv
<1> QED BY <1>1, <1>2, <1>3 DEF NormInv

\* The two solvers of one dimension write the same system, value by value and place by
\* place, for all units and every mesh, device and solution both can solve: each in its
\* units, but for what newton_norm leaves unconverted of trap levels.
THEOREM NormAgreesHolds == ASSUME Eq!BernNumeric PROVE MCSpec => []NormAgrees
<1>1. NormInv => NormAgrees
  BY NormSameSystem, NormSamePlaces DEF NormInv, SystemInv, PartInv, NormAgrees
<1>2. MCSpec => []NormInv
  BY NormInit, NormStep, PTL DEF MCSpec
<1> QED BY <1>1, <1>2, PTL
=============================================================================
