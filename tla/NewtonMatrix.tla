----------------------------- MODULE NewtonMatrix -----------------------------
(***************************************************************************)
(* The Jacobian of the one dimensional drift-diffusion solver,             *)
(* plugins/newton: memory.c sizes it, offset.c divides its rows between    *)
(* the unknowns, fill_matrix writes it as a list of triplets, update.c and *)
(* error.c read the solution back.  Each computes its indices by itself,   *)
(* and nothing but a message after the fact compares them.                 *)
(*                                                                         *)
(* Here are the indices; Fluxes has the numbers.  A row is written in the  *)
(* order of the code, a group of triplets at a time.  The singlet rows are *)
(* left out: singlet_enabled is FALSE in the whole repository.             *)
(*                                                                         *)
(* A definition X_Other just before X is X with a mistake in it, used to   *)
(* see that the properties notice it; nothing else refers to it.           *)
(***************************************************************************)
EXTENDS Integers, FiniteSets

CONSTANT Devices   \* the devices simulated

Device == [ylen : Nat \ {0}, srh_bands : Nat, schottky : BOOLEAN,
           ntrapnewton : BOOLEAN, ptrapnewton : BOOLEAN,
           ion_ylen : Nat, interfaces_n : Nat]

\* ion_ylen is ystop-ystart of the mobile ions, 0 for none
ASSUME NewtonMatrixAssumption == Devices \subseteq Device

VARIABLES
  dev,            \* the device
  Nion_enabled,   \* with ion_ylen > 0: the ions take part
  nz, M,          \* entries and rows allocated
  T, pos,         \* the triplets' places in the matrix, and how many were written
  b,              \* the rows of the right hand side written
  i,              \* the mesh point
  pc

vars == <<dev, Nion_enabled, nz, M, T, pos, b, i, pc>>

\* offset.c
offset_Je(d) == d.ylen + (IF d.schottky THEN 1 ELSE 0)
offset_Jh(d) == offset_Je(d) + d.ylen
offset_srh_e(d) == offset_Jh(d) + d.ylen
offset_srh_h(d) ==
  offset_srh_e(d) + (IF d.ntrapnewton THEN d.ylen * d.srh_bands ELSE 0)
offset_nion(d) ==
  offset_srh_h(d) + (IF d.ptrapnewton THEN d.ylen * d.srh_bands ELSE 0)

\* solver_cal_memory
NoIons(d) == d.ion_ylen = 0
Bands(d) == (IF d.ntrapnewton THEN d.srh_bands ELSE 0)
              + (IF d.ptrapnewton THEN d.srh_bands ELSE 0)

CalN_Short(d, ions) ==
  5 * (3 * d.ylen - 2) + 4 * d.ylen
    + (IF ions THEN 7 * d.ion_ylen - 4 ELSE 0)
    + 2 * d.interfaces_n + 6 * (d.ylen * Bands(d))
CalN_Wide(d, ions) ==
  5 * (3 * d.ylen) + 4 * d.ylen
    + (IF d.schottky THEN 1 ELSE 0)
    + (IF ions THEN 7 * d.ion_ylen - 4 ELSE 0)
    + 2 * d.interfaces_n + 6 * (d.ylen * Bands(d))
CalN(d, ions) ==
  5 * (3 * d.ylen - 2) + 4 * d.ylen
    + (IF d.schottky THEN 1 ELSE 0)
    + (IF ions THEN 7 * d.ion_ylen - 4 ELSE 0)
    + 2 * d.interfaces_n + 6 * (d.ylen * Bands(d))

CalM(d, ions) ==
  3 * d.ylen + (IF d.schottky THEN 1 ELSE 0)
    + (IF ions THEN d.ion_ylen ELSE 0) + d.ylen * Bands(d)

\* the rows of the trap levels of a kind, at mesh point y
TrapRows(d, o, y) == {o + d.ylen * band + y : band \in 0 .. d.srh_bands - 1}
SrhE(d, y) == IF d.ntrapnewton THEN TrapRows(d, offset_srh_e(d), y) ELSE {}
SrhH(d, y) == IF d.ptrapnewton THEN TrapRows(d, offset_srh_h(d), y) ELSE {}

\* the triplets of fill_matrix for mesh point y, as <<row, column>>
Left(d, y) ==
  IF y = 0 THEN {}
  ELSE {<<y, y - 1>>,
        <<offset_Je(d) + y, offset_Je(d) + y - 1>>, <<offset_Je(d) + y, y - 1>>,
        <<offset_Jh(d) + y, offset_Jh(d) + y - 1>>, <<offset_Jh(d) + y, y - 1>>}

Centre(d, y) ==
  {y, offset_Je(d) + y, offset_Jh(d) + y} \X {y, offset_Je(d) + y, offset_Jh(d) + y}

\* a trap level is coupled to the three equations of its point, and they to it
Trap(d, t, y) ==
  {<<t, t>>, <<t, offset_Je(d) + y>>, <<t, offset_Jh(d) + y>>,
   <<offset_Je(d) + y, t>>, <<offset_Jh(d) + y, t>>, <<y, t>>}
Traps(d, R, y) == UNION {Trap(d, t, y) : t \in R}

Right(d, y) ==
  IF y = d.ylen - 1 THEN {}
  ELSE {<<y, y + 1>>,
        <<offset_Je(d) + y, offset_Je(d) + y + 1>>, <<offset_Je(d) + y, y + 1>>,
        <<offset_Jh(d) + y, offset_Jh(d) + y + 1>>, <<offset_Jh(d) + y, y + 1>>}

\* pos++ once for each triplet written
LeftCount(d, y) == IF y = 0 THEN 0 ELSE 5
CentreCount == 9
RightCount(d, y) == IF y = d.ylen - 1 THEN 0 ELSE 5
TrapCount(on, d) == IF on THEN 6 * d.srh_bands ELSE 0

\* the unknowns of mesh point y: update_solver_vars and get_cur_error
Unknowns(d, y) ==
  {y, offset_Je(d) + y, offset_Jh(d) + y} \cup SrhE(d, y) \cup SrhH(d, y)

Before(d, y) == UNION {Unknowns(d, z) : z \in 0 .. y - 1}

ReadRows_NoCorner(d) == Before(d, d.ylen)
ReadRows(d) ==
  Before(d, d.ylen) \cup (IF d.schottky THEN {offset_Je(d) - 1} ELSE {})

Init ==
  /\ dev \in Devices
  /\ Nion_enabled \in (IF NoIons(dev) THEN {FALSE} ELSE BOOLEAN)
  /\ nz = 0 /\ M = 0
  /\ T = {} /\ pos = 0 /\ b = {} /\ i = 0
  /\ pc = "idle"

\* dllinternal_solver_realloc: nz and M of the device as it is now
Realloc ==
  /\ pc = "idle"
  /\ nz' = CalN(dev, Nion_enabled) /\ M' = CalM(dev, Nion_enabled)
  /\ T' = {} /\ pos' = 0 /\ b' = {}
  /\ UNCHANGED <<dev, Nion_enabled, i, pc>>

\* find_n0 solves without the ions in a matrix that has them, then with them
SwitchIons ==
  /\ pc = "idle" /\ nz # 0 /\ ~NoIons(dev)
  /\ Nion_enabled' = ~Nion_enabled
  /\ UNCHANGED <<dev, nz, M, T, pos, b, i, pc>>

StartFill ==
  /\ pc = "idle" /\ nz # 0
  /\ T' = {} /\ pos' = 0 /\ b' = {} /\ i' = 0
  /\ pc' = "left"
  /\ UNCHANGED <<dev, Nion_enabled, nz, M>>

Put(E, k) == T' = T \cup E /\ pos' = pos + k

FillLeft ==
  /\ pc = "left" /\ i < dev.ylen
  /\ Put(Left(dev, i), LeftCount(dev, i))
  /\ pc' = "centre"
  /\ UNCHANGED <<dev, Nion_enabled, nz, M, b, i>>

FillCentre ==
  /\ pc = "centre"
  /\ Put(Centre(dev, i), CentreCount)
  /\ pc' = "ntrap"
  /\ UNCHANGED <<dev, Nion_enabled, nz, M, b, i>>

FillNtrap ==
  /\ pc = "ntrap"
  /\ Put(Traps(dev, SrhE(dev, i), i), TrapCount(dev.ntrapnewton, dev))
  /\ pc' = "ptrap"
  /\ UNCHANGED <<dev, Nion_enabled, nz, M, b, i>>

FillPtrap ==
  /\ pc = "ptrap"
  /\ Put(Traps(dev, SrhH(dev, i), i), TrapCount(dev.ptrapnewton, dev))
  /\ pc' = "right"
  /\ UNCHANGED <<dev, Nion_enabled, nz, M, b, i>>

FillRight ==
  /\ pc = "right"
  /\ Put(Right(dev, i), RightCount(dev, i))
  /\ pc' = "rhs"
  /\ UNCHANGED <<dev, Nion_enabled, nz, M, b, i>>

\* the right hand sides of the point's equations; the point is done
FillRhs ==
  /\ pc = "rhs"
  /\ b' = b \cup Unknowns(dev, i)
  /\ i' = i + 1
  /\ pc' = "left"
  /\ UNCHANGED <<dev, Nion_enabled, nz, M, T, pos>>

\* after the last point: the equation of a Schottky contact
Corner ==
  /\ pc = "left" /\ i = dev.ylen
  /\ IF dev.schottky
     THEN /\ Put({<<offset_Je(dev) - 1, offset_Je(dev) - 1>>}, 1)
          /\ b' = b \cup {offset_Je(dev) - 1}
     ELSE UNCHANGED <<T, pos, b>>
  /\ pc' = "full"
  /\ UNCHANGED <<dev, Nion_enabled, nz, M, i>>

\* the matrix is solved, the solution read back
Update ==
  /\ pc = "full"
  /\ pc' = "idle"
  /\ UNCHANGED <<dev, Nion_enabled, nz, M, T, pos, b, i>>

Next ==
  \/ Realloc \/ SwitchIons \/ StartFill \/ FillLeft \/ FillCentre
  \/ FillNtrap \/ FillPtrap \/ FillRight \/ FillRhs \/ Corner \/ Update

Spec == Init /\ [][Next]_vars

-----------------------------------------------------------------------------

\* The shapes of the variables.
TypeOK ==
  /\ dev \in Devices /\ Nion_enabled \in BOOLEAN
  /\ nz \in Nat /\ M \in Nat /\ pos \in Nat /\ i \in 0 .. dev.ylen
  /\ T \subseteq Nat \X Nat /\ b \subseteq Nat
  /\ pc \in {"idle", "left", "centre", "ntrap", "ptrap", "right", "rhs", "full"}

\* fill_matrix stays inside the arrays solver_cal_memory gave it; its own
\* check comes after the last write.  Also for a matrix allocated before the
\* ions were switched.
FitsNz == pos <= nz

\* Every row and column written is one of the matrix.
InRange ==
  /\ \A e \in T : e[1] \in 0 .. M - 1 /\ e[2] \in 0 .. M - 1
  /\ b \subseteq 0 .. M - 1

\* Without ions no slot of the arrays and no row is left over; two slots for
\* each interface are, for a coupling fill_matrix never inserts.
ExactFit ==
  pc = "full" /\ NoIons(dev) =>
    /\ pos + 2 * dev.interfaces_n = nz
    /\ \A r \in 0 .. M - 1 : <<r, r>> \in T /\ r \in b

\* The solution is read back from the rows that were filled, and from all of them.
ReadsWhatFillWrote == pc = "full" => ReadRows(dev) = b
=============================================================================
