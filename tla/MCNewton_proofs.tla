---------------------------- MODULE MCNewton_proofs ----------------------------
(***************************************************************************)
(* Proofs about fill_matrix, for every device, mesh, number of trap        *)
(* levels, solution and Bernoulli function.                                *)
(*                                                                         *)
(* NewtonMatrix: IInv says how many triplets have been written at each     *)
(* step of each mesh point, ExactInv that the diagonal of every row is     *)
(* among them.  MatrixInv is the set of them, which NewtonNorm's equal     *)
(* where both solvers can solve.                                           *)
(* Fluxes (names with Eq) and Newton2d (names with Plane): the Bernoulli   *)
(* functions kept for a face and the fluxes through it are those of that   *)
(* face, a function of the device and the solution alone.                  *)
(* Newton2d's places: PlaneCountInv says how many there are after each     *)
(* point, and whose rows they are in; no two points share a row.           *)
(* PartInv puts the three together.                                        *)
(***************************************************************************)
EXTENDS MCNewton, FiniteSetTheorems, FunctionTheorems, TLAPS

\* Products, in the forms the layout needs.
LEMMA MulMono == \A p, q, c \in Nat : p <= q => p * c <= q * c
  BY SMTT(30)

LEMMA MulStep == \A p, c \in Nat : (p + 1) * c = p * c + c /\ p * c \in Nat
  BY SMT

\* Mesh point y of level k lies inside the levels' block.
LEMMA MulBlock ==
  ASSUME NEW k \in Nat, NEW l \in Nat, NEW n \in Nat, NEW y \in Nat, k < l, y < n
  PROVE  n * k + y \in Nat /\ n * k + y < n * l
<1>1. n * (k + 1) <= n * l
  BY SMT
<1>2. n * (k + 1) = n * k + n
  BY SMT
<1>3. n * k \in Nat /\ n * l \in Nat
  BY SMT
<1> QED BY <1>1, <1>2, <1>3

-----------------------------------------------------------------------------

\* The fields of a device.
LEMMA DeviceType ==
  ASSUME NEW d \in Device
  PROVE  /\ d.ylen \in Nat /\ d.ylen >= 1 /\ d.srh_bands \in Nat
         /\ d.schottky \in BOOLEAN /\ d.ntrapnewton \in BOOLEAN
         /\ d.ptrapnewton \in BOOLEAN
         /\ d.ion_ylen \in Nat /\ d.interfaces_n \in Nat
  BY DEF Device

LEMMA BandsType ==
  ASSUME NEW d \in Device
  PROVE  /\ Bands(d) \in Nat /\ d.ylen * Bands(d) \in Nat
         /\ d.ylen * d.srh_bands \in Nat
         /\ 6 * Bands(d) = TrapCount(d.ntrapnewton, d) + TrapCount(d.ptrapnewton, d)
         /\ TrapCount(d.ntrapnewton, d) \in Nat /\ TrapCount(d.ptrapnewton, d) \in Nat
<1>1. Bands(d) \in Nat
  BY DeviceType DEF Bands
<1>2. d.ylen * Bands(d) \in Nat /\ d.ylen * d.srh_bands \in Nat
  BY <1>1, DeviceType, MulStep
<1>3. 6 * Bands(d) = TrapCount(d.ntrapnewton, d) + TrapCount(d.ptrapnewton, d)
  BY DeviceType DEF Bands, TrapCount
<1>4. TrapCount(d.ntrapnewton, d) \in Nat /\ TrapCount(d.ptrapnewton, d) \in Nat
  BY DeviceType DEF TrapCount
<1> QED BY <1>1, <1>2, <1>3, <1>4

\* Rows and entries without the ions.
MinM(d) == CalM(d, FALSE)
MinN(d) == CalN(d, FALSE)

\* The blocks of rows follow each other and end at the last row.
LEMMA Offsets ==
  ASSUME NEW d \in Device
  PROVE  /\ offset_Je(d) \in Nat /\ offset_Jh(d) \in Nat
         /\ offset_srh_e(d) \in Nat /\ offset_srh_h(d) \in Nat
         /\ d.ylen <= offset_Je(d) /\ (d.schottky => d.ylen = offset_Je(d) - 1)
         /\ offset_Jh(d) = offset_Je(d) + d.ylen
         /\ offset_srh_e(d) = offset_Jh(d) + d.ylen
         /\ (d.ntrapnewton => offset_srh_h(d) = offset_srh_e(d) + d.ylen * d.srh_bands)
         /\ offset_srh_e(d) <= offset_srh_h(d)
         /\ offset_srh_h(d) <= MinM(d)
         /\ (d.ptrapnewton => offset_srh_h(d) + d.ylen * d.srh_bands = MinM(d))
         /\ MinM(d) \in Nat
<1> DEFINE p == d.ylen * d.srh_bands
<1>1. p \in Nat
  BY BandsType
<1>2. d.ylen * Bands(d) = (IF d.ntrapnewton THEN p ELSE 0) + (IF d.ptrapnewton THEN p ELSE 0)
  <2>1. CASE d.ntrapnewton /\ d.ptrapnewton
    <3>1. Bands(d) = d.srh_bands + d.srh_bands
      BY <2>1 DEF Bands
    <3>2. d.ylen * (d.srh_bands + d.srh_bands) = p + p
      BY DeviceType
    <3> QED BY <2>1, <3>1, <3>2
  <2>2. CASE d.ntrapnewton # d.ptrapnewton
    <3>1. Bands(d) = d.srh_bands
      BY <2>2, DeviceType DEF Bands
    <3> QED BY <2>2, <3>1, <1>1, DeviceType
  <2>3. CASE ~d.ntrapnewton /\ ~d.ptrapnewton
    <3>1. Bands(d) = 0
      BY <2>3 DEF Bands
    <3> QED BY <2>3, <3>1, DeviceType
  <2> QED BY <2>1, <2>2, <2>3, DeviceType
<1> HIDE DEF p
<1>3. MinM(d) = 3 * d.ylen + (IF d.schottky THEN 1 ELSE 0) + d.ylen * Bands(d)
  BY DeviceType, BandsType DEF CalM, MinM
<1>4. offset_srh_h(d) = offset_srh_e(d) + (IF d.ntrapnewton THEN p ELSE 0)
  BY DEF offset_srh_h, p
<1>5. /\ offset_Je(d) = d.ylen + (IF d.schottky THEN 1 ELSE 0)
      /\ offset_Jh(d) = offset_Je(d) + d.ylen
      /\ offset_srh_e(d) = offset_Jh(d) + d.ylen
  BY DEF offset_Je, offset_Jh, offset_srh_e
<1>6. p = d.ylen * d.srh_bands
  BY DEF p
<1>7. d.ylen \in Nat /\ (d.ntrapnewton \in BOOLEAN /\ d.ptrapnewton \in BOOLEAN /\ d.schottky \in BOOLEAN)
  BY DeviceType
<1>8. /\ offset_Je(d) \in Nat /\ offset_Jh(d) \in Nat /\ offset_srh_e(d) \in Nat
      /\ d.ylen <= offset_Je(d) /\ (d.schottky => d.ylen = offset_Je(d) - 1)
      /\ MinM(d) = offset_srh_e(d) + d.ylen * Bands(d)
  <2>1. CASE d.schottky
    BY <1>3, <1>5, <1>7, <2>1, BandsType
  <2>2. CASE ~d.schottky
    BY <1>3, <1>5, <1>7, <2>2, BandsType
  <2> QED BY <2>1, <2>2
<1>9. /\ offset_srh_h(d) \in Nat /\ MinM(d) \in Nat
      /\ offset_srh_e(d) <= offset_srh_h(d) /\ offset_srh_h(d) <= MinM(d)
      /\ (d.ntrapnewton => offset_srh_h(d) = offset_srh_e(d) + p)
      /\ (d.ptrapnewton => offset_srh_h(d) + p = MinM(d))
  BY <1>1, <1>2, <1>4, <1>7, <1>8
<1> QED BY <1>5, <1>6, <1>8, <1>9

\* The trap levels' rows lie in their own block.
LEMMA TrapRowsRange ==
  ASSUME NEW d \in Device, NEW o \in Nat, NEW y \in Nat, y < d.ylen
  PROVE  \A t \in TrapRows(d, o, y) :
           t \in Nat /\ o <= t /\ t < o + d.ylen * d.srh_bands
<1> TAKE t \in TrapRows(d, o, y)
<1>1. PICK k \in 0 .. d.srh_bands - 1 : t = o + d.ylen * k + y
  BY DEF TrapRows
<1>2. k \in Nat /\ k < d.srh_bands
  BY <1>1, DeviceType
<1>3. d.ylen * k + y \in Nat /\ d.ylen * k + y < d.ylen * d.srh_bands
  BY <1>2, MulBlock, DeviceType
<1>4. d.ylen * k \in Nat /\ d.ylen * d.srh_bands \in Nat
  BY <1>2, MulStep, DeviceType
<1> QED BY <1>1, <1>3, <1>4

\* The rows of mesh point y exist in the smallest matrix of the device.
Rows(d) == 0 .. MinM(d) - 1

LEMMA UnknownsRange ==
  ASSUME NEW d \in Device, NEW y \in Nat, y < d.ylen
  PROVE  /\ Unknowns(d, y) \subseteq Rows(d)
         /\ y \in Rows(d) /\ offset_Je(d) + y \in Rows(d) /\ offset_Jh(d) + y \in Rows(d)
         /\ SrhE(d, y) \subseteq Rows(d) /\ SrhH(d, y) \subseteq Rows(d)
<1>1. y \in Rows(d) /\ offset_Je(d) + y \in Rows(d) /\ offset_Jh(d) + y \in Rows(d)
  BY Offsets, DeviceType DEF Rows
<1>2. SrhE(d, y) \subseteq Rows(d)
  <2>1. SUFFICES ASSUME NEW t \in SrhE(d, y) PROVE t \in Rows(d)
    OBVIOUS
  <2>2. d.ntrapnewton /\ t \in TrapRows(d, offset_srh_e(d), y)
    BY <2>1 DEF SrhE
  <2>3. t \in Nat /\ t < offset_srh_e(d) + d.ylen * d.srh_bands
    BY <2>2, TrapRowsRange, Offsets
  <2>4. offset_srh_h(d) = offset_srh_e(d) + d.ylen * d.srh_bands
    BY <2>2, Offsets
  <2>5. t < offset_srh_h(d)
    BY <2>3, <2>4
  <2> QED BY <2>3, <2>5, Offsets DEF Rows
<1>3. SrhH(d, y) \subseteq Rows(d)
  <2>1. SUFFICES ASSUME NEW t \in SrhH(d, y) PROVE t \in Rows(d)
    OBVIOUS
  <2>2. d.ptrapnewton /\ t \in TrapRows(d, offset_srh_h(d), y)
    BY <2>1 DEF SrhH
  <2>3. t \in Nat /\ t < offset_srh_h(d) + d.ylen * d.srh_bands
    BY <2>2, TrapRowsRange, Offsets
  <2>4. MinM(d) = offset_srh_h(d) + d.ylen * d.srh_bands
    BY <2>2, Offsets
  <2>5. t < MinM(d)
    BY <2>3, <2>4
  <2> QED BY <2>3, <2>5, Offsets DEF Rows
<1> QED BY <1>1, <1>2, <1>3 DEF Unknowns

\* So do the places of its triplets.
LEMMA TripletsRange ==
  ASSUME NEW d \in Device, NEW y \in Nat, y < d.ylen
  PROVE  /\ Left(d, y) \subseteq Rows(d) \X Rows(d)
         /\ Centre(d, y) \subseteq Rows(d) \X Rows(d)
         /\ Traps(d, SrhE(d, y), y) \subseteq Rows(d) \X Rows(d)
         /\ Traps(d, SrhH(d, y), y) \subseteq Rows(d) \X Rows(d)
         /\ Right(d, y) \subseteq Rows(d) \X Rows(d)
<1>1. y \in Rows(d) /\ offset_Je(d) + y \in Rows(d) /\ offset_Jh(d) + y \in Rows(d)
  BY UnknownsRange
<1>2. Left(d, y) \subseteq Rows(d) \X Rows(d)
  <2>1. CASE y = 0
    BY <2>1 DEF Left
  <2>2. CASE y # 0
    <3>1. y - 1 \in Rows(d) /\ offset_Je(d) + y - 1 \in Rows(d) /\ offset_Jh(d) + y - 1 \in Rows(d)
      BY <2>2, Offsets, DeviceType DEF Rows
    <3> QED BY <1>1, <2>2, <3>1 DEF Left
  <2> QED BY <2>1, <2>2
<1>3. Right(d, y) \subseteq Rows(d) \X Rows(d)
  <2>1. CASE y = d.ylen - 1
    BY <2>1 DEF Right
  <2>2. CASE y # d.ylen - 1
    <3>0. y + 1 \in Nat /\ y + 1 < d.ylen
      BY <2>2, DeviceType
    <3>1. y + 1 \in Rows(d) /\ offset_Je(d) + y + 1 \in Rows(d) /\ offset_Jh(d) + y + 1 \in Rows(d)
      BY <3>0, Offsets, DeviceType DEF Rows
    <3> QED BY <1>1, <2>2, <3>1 DEF Right
  <2> QED BY <2>1, <2>2
<1>4. Centre(d, y) \subseteq Rows(d) \X Rows(d)
  BY <1>1 DEF Centre
<1>5. ASSUME NEW rows, rows \subseteq Rows(d)
      PROVE  Traps(d, rows, y) \subseteq Rows(d) \X Rows(d)
  <2>1. \A t \in rows : Trap(d, t, y) \subseteq Rows(d) \X Rows(d)
    BY <1>1, <1>5 DEF Trap
  <2> QED BY <2>1 DEF Traps
<1> QED BY <1>2, <1>3, <1>4, <1>5, UnknownsRange

-----------------------------------------------------------------------------

\* What the mesh points before y have written.
Done(d, y) ==
  (IF y = 0 THEN 0 ELSE 5 * (y - 1)) + 9 * y
    + (IF y = d.ylen THEN 5 * (y - 1) ELSE 5 * y) + 6 * (y * Bands(d))

\* A whole mesh point brings the count from Done(y) to Done(y + 1).
LEMMA DoneStep ==
  ASSUME NEW d \in Device, NEW y \in Nat, y < d.ylen
  PROVE  /\ Done(d, y) \in Nat
         /\ Done(d, y + 1) = Done(d, y) + LeftCount(d, y) + CentreCount
                               + TrapCount(d.ntrapnewton, d) + TrapCount(d.ptrapnewton, d)
                               + RightCount(d, y)
         /\ Done(d, y + 1) <= Done(d, d.ylen)
<1>1. Bands(d) \in Nat /\ d.ylen \in Nat
  BY BandsType, DeviceType
<1>2. y * Bands(d) \in Nat /\ (y + 1) * Bands(d) = y * Bands(d) + Bands(d)
  BY <1>1, MulStep
<1>3. (y + 1) * Bands(d) <= d.ylen * Bands(d)
  BY <1>1, MulMono
<1>4. 6 * Bands(d) = TrapCount(d.ntrapnewton, d) + TrapCount(d.ptrapnewton, d)
  BY BandsType
<1>5. d.ylen * Bands(d) \in Nat
  BY BandsType
<1>6. TrapCount(d.ntrapnewton, d) \in Nat /\ TrapCount(d.ptrapnewton, d) \in Nat
  BY BandsType
<1> DEFINE w == y * Bands(d)
           v == (y + 1) * Bands(d)
           all == d.ylen * Bands(d)
           n == TrapCount(d.ntrapnewton, d)
           p == TrapCount(d.ptrapnewton, d)
<1>a. /\ w \in Nat /\ v = w + Bands(d) /\ v <= all /\ all \in Nat
      /\ 6 * Bands(d) = n + p /\ n \in Nat /\ p \in Nat
  BY <1>2, <1>3, <1>4, <1>5, <1>6
<1>b. /\ Done(d, y) = (IF y = 0 THEN 0 ELSE 5 * (y - 1)) + 9 * y
                        + (IF y = d.ylen THEN 5 * (y - 1) ELSE 5 * y) + 6 * w
      /\ Done(d, y + 1) = (IF y + 1 = 0 THEN 0 ELSE 5 * (y + 1 - 1)) + 9 * (y + 1)
                        + (IF y + 1 = d.ylen THEN 5 * (y + 1 - 1) ELSE 5 * (y + 1)) + 6 * v
      /\ Done(d, d.ylen) = (IF d.ylen = 0 THEN 0 ELSE 5 * (d.ylen - 1)) + 9 * d.ylen
                        + (IF d.ylen = d.ylen THEN 5 * (d.ylen - 1) ELSE 5 * d.ylen) + 6 * all
  BY DEF Done
<1> HIDE DEF w, v, all, n, p
<1>7. Done(d, y) \in Nat
  BY <1>1, <1>a, <1>b
<1>8. Done(d, y + 1) = Done(d, y) + LeftCount(d, y) + CentreCount
                               + TrapCount(d.ntrapnewton, d) + TrapCount(d.ptrapnewton, d)
                               + RightCount(d, y)
  <2>1. Done(d, y + 1) = Done(d, y) + LeftCount(d, y) + CentreCount + n + p + RightCount(d, y)
    BY <1>1, <1>a, <1>b DEF LeftCount, CentreCount, RightCount
  <2> QED BY <2>1 DEF n, p
<1>9. Done(d, y + 1) <= Done(d, d.ylen)
  <2>1. CASE y + 1 = d.ylen
    <3>1. v = all
      BY <2>1 DEF v, all
    <3> QED BY <1>1, <1>a, <1>b, <2>1, <3>1
  <2>2. CASE y + 1 # d.ylen
    <3>1. y + 1 < d.ylen /\ d.ylen >= 1
      BY <1>1, <2>2
    <3>2. Done(d, y + 1) = 5 * y + 9 * (y + 1) + 5 * (y + 1) + 6 * v
      BY <1>1, <1>b, <3>1
    <3>3. Done(d, d.ylen) = 5 * (d.ylen - 1) + 9 * d.ylen + 5 * (d.ylen - 1) + 6 * all
      BY <1>1, <1>b, <3>1
    <3>4. v \in Nat
      BY <1>1, <1>a, BandsType
    <3> QED BY <1>1, <1>a, <3>1, <3>2, <3>3, <3>4
  <2> QED BY <2>1, <2>2
<1> QED BY <1>7, <1>8, <1>9

\* All of them, and the Schottky contact's, fit the smallest allocation.
LEMMA DoneFits ==
  ASSUME NEW d \in Device
  PROVE  /\ Done(d, d.ylen) \in Nat /\ MinN(d) \in Nat
         /\ Done(d, d.ylen) + (IF d.schottky THEN 1 ELSE 0) + 2 * d.interfaces_n
              = MinN(d)
  BY DeviceType, BandsType DEF Done, CalN, MinN

\* An allocation with the ions is no smaller.
LEMMA IonsAdd ==
  ASSUME NEW d \in Device, NEW ions \in BOOLEAN, ions => d.ion_ylen >= 1
  PROVE  /\ CalN(d, ions) \in Nat /\ CalN(d, ions) >= MinN(d)
         /\ CalM(d, ions) \in Nat /\ CalM(d, ions) >= MinM(d)
  BY DeviceType, BandsType DEF CalN, CalM, MinN, MinM

LEMMA MinType ==
  ASSUME NEW d \in Device
  PROVE  MinN(d) \in Nat /\ MinN(d) > 0 /\ MinM(d) \in Nat
  BY DeviceType, BandsType DEF CalN, CalM, MinN, MinM

-----------------------------------------------------------------------------
(* The inductive invariant. *)

Mid == {"centre", "ntrap", "ptrap", "right", "rhs"}

TypeInv ==
  /\ dev \in Devices /\ Nion_enabled \in BOOLEAN
  /\ nz \in Nat /\ M \in Nat /\ pos \in Nat /\ i \in Nat /\ i <= dev.ylen
  /\ pc \in {"idle", "left", "full"} \cup Mid
  /\ pc \in Mid => i < dev.ylen

\* What has been allocated holds the device without its ions.
AllocInv ==
  /\ Nion_enabled => dev.ion_ylen >= 1
  /\ nz = 0 => pc = "idle" /\ pos = 0 /\ T = {} /\ b = {}
  /\ nz # 0 => nz >= MinN(dev) /\ M >= MinM(dev)

RangeInv == T \subseteq Rows(dev) \X Rows(dev) /\ b \subseteq Rows(dev)

\* How far the count is at each step of mesh point i.
CountInv ==
  /\ pc = "left" => pos = Done(dev, i)
  /\ pc = "centre" => pos = Done(dev, i) + LeftCount(dev, i)
  /\ pc = "ntrap" => pos = Done(dev, i) + LeftCount(dev, i) + CentreCount
  /\ pc = "ptrap" => pos = Done(dev, i) + LeftCount(dev, i) + CentreCount
                             + TrapCount(dev.ntrapnewton, dev)
  /\ pc = "right" => pos = Done(dev, i) + LeftCount(dev, i) + CentreCount
                             + TrapCount(dev.ntrapnewton, dev)
                             + TrapCount(dev.ptrapnewton, dev)
  /\ pc = "rhs" => pos = Done(dev, i + 1)
  /\ pc \in {"idle", "full"} => pos <= nz

\* The right hand sides of the points done.
RhsInv ==
  /\ pc \in {"left"} \cup Mid => b = Before(dev, i)
  /\ pc = "full" => b = ReadRows(dev)

IInv == TypeInv /\ AllocInv /\ RangeInv /\ CountInv /\ RhsInv

LEMMA DevType == TypeInv => dev \in Device
  BY NewtonMatrixAssumption DEF TypeInv

LEMMA Counts ==
  ASSUME NEW d \in Device, NEW y
  PROVE  /\ LeftCount(d, y) \in Nat /\ CentreCount \in Nat /\ RightCount(d, y) \in Nat
         /\ TrapCount(d.ntrapnewton, d) \in Nat /\ TrapCount(d.ptrapnewton, d) \in Nat
  BY BandsType DEF LeftCount, CentreCount, RightCount

LEMMA FilledStep ==
  ASSUME NEW d, NEW y \in Nat
  PROVE  Before(d, 0) = {} /\ Before(d, y + 1) = Before(d, y) \cup Unknowns(d, y)
<1>1. 0 .. (y + 1) - 1 = (0 .. y - 1) \cup {y} /\ 0 .. 0 - 1 = {}
  OBVIOUS
<1> QED BY <1>1, Zenon DEF Before

LEMMA InitInv == Init => IInv
<1> SUFFICES ASSUME Init PROVE IInv
  OBVIOUS
<1>1. dev \in Device
  BY NewtonMatrixAssumption DEF Init
<1>2. dev.ylen \in Nat /\ dev.ion_ylen \in Nat
  BY <1>1, DeviceType
<1>a. Nion_enabled \in BOOLEAN /\ (Nion_enabled => dev.ion_ylen >= 1)
  <2>1. CASE dev.ion_ylen = 0
    BY <2>1 DEF Init, NoIons
  <2>2. CASE dev.ion_ylen # 0
    BY <1>2, <2>2 DEF Init, NoIons
  <2> QED BY <2>1, <2>2
<1>b. TypeInv
  BY <1>2, <1>a DEF Init, TypeInv, Mid
<1>3. AllocInv
  BY <1>a DEF Init, AllocInv
<1>4. RangeInv
  BY DEF Init, RangeInv
<1>5. CountInv /\ RhsInv
  BY DEF Init, CountInv, RhsInv, Mid
<1> QED BY <1>b, <1>3, <1>4, <1>5 DEF IInv

\* A step of a mesh point changes T and pos by one group of triplets.
LEMMA StepInv == IInv /\ [Next]_vars => IInv'
<1> SUFFICES ASSUME IInv, [Next]_vars PROVE IInv'
  OBVIOUS
<1>0. dev \in Device /\ i \in Nat
  BY DevType DEF IInv, TypeInv
<1>t. /\ dev.ylen \in Nat /\ dev.ylen >= 1 /\ dev.ion_ylen \in Nat
      /\ MinN(dev) \in Nat /\ MinN(dev) > 0 /\ MinM(dev) \in Nat
  BY <1>0, DeviceType, MinType
<1>c. /\ LeftCount(dev, i) \in Nat /\ CentreCount \in Nat /\ RightCount(dev, i) \in Nat
      /\ TrapCount(dev.ntrapnewton, dev) \in Nat /\ TrapCount(dev.ptrapnewton, dev) \in Nat
  BY <1>0, Counts
<1>1. CASE Realloc
  <2>1. CalN(dev, Nion_enabled) \in Nat /\ CalN(dev, Nion_enabled) >= MinN(dev)
          /\ CalM(dev, Nion_enabled) \in Nat /\ CalM(dev, Nion_enabled) >= MinM(dev)
    BY <1>0, IonsAdd DEF IInv, TypeInv, AllocInv
  <2>2. TypeInv'
    BY <1>1, <2>1 DEF Realloc, IInv, TypeInv, Mid
  <2>3. AllocInv'
    BY <1>1, <1>t, <2>1 DEF Realloc, IInv, AllocInv
  <2>4. RangeInv' /\ CountInv' /\ RhsInv'
    BY <1>1, <2>1 DEF Realloc, RangeInv, CountInv, RhsInv, Mid
  <2> QED BY <2>2, <2>3, <2>4 DEF IInv
<1>2. CASE SwitchIons
  <2>1. TypeInv' /\ RangeInv' /\ CountInv' /\ RhsInv'
    BY <1>2 DEF SwitchIons, IInv, TypeInv, RangeInv, CountInv, RhsInv, Mid
  <2>2. AllocInv'
    BY <1>2, <1>t DEF SwitchIons, IInv, AllocInv, NoIons
  <2> QED BY <2>1, <2>2 DEF IInv
<1>3. CASE StartFill
  <2>1. Done(dev, 0) = 0
    BY <1>t, <1>0, BandsType DEF Done
  <2>2. TypeInv' /\ AllocInv' /\ RangeInv'
    BY <1>3, <1>t DEF StartFill, IInv, TypeInv, AllocInv, RangeInv, Mid
  <2>3. CountInv'
    BY <1>3, <2>1 DEF StartFill, CountInv
  <2>4. RhsInv'
    BY <1>3, <1>0, FilledStep DEF StartFill, RhsInv, Mid
  <2> QED BY <2>2, <2>3, <2>4 DEF IInv
<1>4. CASE FillLeft
  <2>1. pos' = pos + LeftCount(dev, i) /\ T' = T \cup Left(dev, i)
    BY <1>4 DEF FillLeft, Put
  <2>2. TypeInv' /\ AllocInv'
    BY <1>4, <2>1, <1>c DEF FillLeft, IInv, TypeInv, AllocInv, Mid
  <2>3. RangeInv'
    BY <1>4, <2>1, <1>0, TripletsRange DEF FillLeft, IInv, RangeInv
  <2>4. CountInv'
    BY <1>4, <2>1 DEF FillLeft, IInv, CountInv
  <2>5. RhsInv'
    BY <1>4 DEF FillLeft, IInv, RhsInv, Mid
  <2> QED BY <2>2, <2>3, <2>4, <2>5 DEF IInv
<1>5. CASE FillCentre
  <2>0. i < dev.ylen
    BY <1>5 DEF FillCentre, IInv, TypeInv, Mid
  <2>1. pos' = pos + CentreCount /\ T' = T \cup Centre(dev, i)
    BY <1>5 DEF FillCentre, Put
  <2>2. TypeInv' /\ AllocInv'
    BY <1>5, <2>0, <2>1, <1>c DEF FillCentre, IInv, TypeInv, AllocInv, Mid
  <2>3. RangeInv'
    BY <1>5, <2>0, <2>1, <1>0, TripletsRange DEF FillCentre, IInv, RangeInv
  <2>4. CountInv'
    BY <1>5, <2>1 DEF FillCentre, IInv, CountInv
  <2>5. RhsInv'
    BY <1>5 DEF FillCentre, IInv, RhsInv, Mid
  <2> QED BY <2>2, <2>3, <2>4, <2>5 DEF IInv
<1>6. CASE FillNtrap
  <2>0. i < dev.ylen
    BY <1>6 DEF FillNtrap, IInv, TypeInv, Mid
  <2>1. pos' = pos + TrapCount(dev.ntrapnewton, dev) /\ T' = T \cup Traps(dev, SrhE(dev, i), i)
    BY <1>6 DEF FillNtrap, Put
  <2>2. TypeInv' /\ AllocInv'
    BY <1>6, <2>0, <2>1, <1>c DEF FillNtrap, IInv, TypeInv, AllocInv, Mid
  <2>3. RangeInv'
    BY <1>6, <2>0, <2>1, <1>0, TripletsRange DEF FillNtrap, IInv, RangeInv
  <2>4. CountInv'
    BY <1>6, <2>1 DEF FillNtrap, IInv, CountInv
  <2>5. RhsInv'
    BY <1>6 DEF FillNtrap, IInv, RhsInv, Mid
  <2> QED BY <2>2, <2>3, <2>4, <2>5 DEF IInv
<1>7. CASE FillPtrap
  <2>0. i < dev.ylen
    BY <1>7 DEF FillPtrap, IInv, TypeInv, Mid
  <2>1. pos' = pos + TrapCount(dev.ptrapnewton, dev) /\ T' = T \cup Traps(dev, SrhH(dev, i), i)
    BY <1>7 DEF FillPtrap, Put
  <2>2. TypeInv' /\ AllocInv'
    BY <1>7, <2>0, <2>1, <1>c DEF FillPtrap, IInv, TypeInv, AllocInv, Mid
  <2>3. RangeInv'
    BY <1>7, <2>0, <2>1, <1>0, TripletsRange DEF FillPtrap, IInv, RangeInv
  <2>4. CountInv'
    BY <1>7, <2>1 DEF FillPtrap, IInv, CountInv
  <2>5. RhsInv'
    BY <1>7 DEF FillPtrap, IInv, RhsInv, Mid
  <2> QED BY <2>2, <2>3, <2>4, <2>5 DEF IInv
<1>8. CASE FillRight
  <2>0. i < dev.ylen
    BY <1>8 DEF FillRight, IInv, TypeInv, Mid
  <2>1. pos' = pos + RightCount(dev, i) /\ T' = T \cup Right(dev, i)
    BY <1>8 DEF FillRight, Put
  <2>2. TypeInv' /\ AllocInv'
    BY <1>8, <2>0, <2>1, <1>c DEF FillRight, IInv, TypeInv, AllocInv, Mid
  <2>3. RangeInv'
    BY <1>8, <2>0, <2>1, <1>0, TripletsRange DEF FillRight, IInv, RangeInv
  <2>4. pos' = Done(dev, i + 1)
    BY <1>8, <2>0, <2>1, <1>0, DoneStep DEF FillRight, IInv, CountInv
  <2>5. CountInv'
    BY <1>8, <2>4 DEF FillRight, CountInv
  <2>6. RhsInv'
    BY <1>8 DEF FillRight, IInv, RhsInv, Mid
  <2> QED BY <2>2, <2>3, <2>5, <2>6 DEF IInv
<1>9. CASE FillRhs
  <2>0. i < dev.ylen
    BY <1>9 DEF FillRhs, IInv, TypeInv, Mid
  <2>1. TypeInv' /\ AllocInv'
    BY <1>9, <2>0, <1>0, <1>t DEF FillRhs, IInv, TypeInv, AllocInv, Mid
  <2>2. RangeInv'
    BY <1>9, <2>0, <1>0, UnknownsRange DEF FillRhs, IInv, RangeInv
  <2>3. CountInv'
    BY <1>9 DEF FillRhs, IInv, CountInv
  <2>4. RhsInv'
    <3>2. b' = Before(dev, i) \cup Unknowns(dev, i)
      BY <1>9 DEF FillRhs, IInv, RhsInv, Mid
    <3>3. b' = Before(dev, i + 1)
      BY <3>2, <1>0, FilledStep
    <3> QED BY <1>9, <3>3 DEF FillRhs, RhsInv, Mid
  <2> QED BY <2>1, <2>2, <2>3, <2>4 DEF IInv
<1>10. CASE Corner
  <2>0. /\ i = dev.ylen /\ pos = Done(dev, dev.ylen) /\ nz >= MinN(dev)
        /\ b = Before(dev, dev.ylen)
    BY <1>10, <1>0 DEF Corner, IInv, AllocInv, CountInv, RhsInv
  <2>1. Done(dev, dev.ylen) \in Nat
          /\ Done(dev, dev.ylen) + (IF dev.schottky THEN 1 ELSE 0) <= MinN(dev)
    BY <1>0, DoneFits, DeviceType
  <2>2. dev.schottky => offset_Je(dev) - 1 \in Rows(dev)
    BY <1>0, <1>t, Offsets DEF Rows
  <2>3. pos' = pos + (IF dev.schottky THEN 1 ELSE 0)
    BY <1>10 DEF Corner, Put, IInv, TypeInv
  <2>4. TypeInv' /\ AllocInv'
    BY <1>10, <2>3 DEF Corner, IInv, TypeInv, AllocInv, Mid
  <2>5. RangeInv'
    BY <1>10, <2>2 DEF Corner, Put, IInv, RangeInv
  <2>6. CountInv'
    <3>1. pos' <= nz
      BY <2>0, <2>1, <2>3, <1>t DEF IInv, TypeInv
    <3> QED BY <1>10, <3>1 DEF Corner, CountInv
  <2>7. RhsInv'
    <3>1. b' = b \cup (IF dev.schottky THEN {offset_Je(dev) - 1} ELSE {})
      BY <1>10 DEF Corner
    <3>2. b' = ReadRows(dev)
      BY <2>0, <3>1 DEF ReadRows
    <3> QED BY <1>10, <3>2 DEF Corner, RhsInv, Mid
  <2> QED BY <2>4, <2>5, <2>6, <2>7 DEF IInv
<1>11. CASE Update
  BY <1>11 DEF Update, IInv, TypeInv, AllocInv, RangeInv, CountInv, RhsInv, Mid
<1>12. CASE UNCHANGED vars
  BY <1>12 DEF vars, IInv, TypeInv, AllocInv, RangeInv, CountInv, RhsInv, Mid
<1> QED
  BY <1>1, <1>2, <1>3, <1>4, <1>5, <1>6, <1>7, <1>8, <1>9, <1>10, <1>11, <1>12 DEF Next

LEMMA Invariant == Spec => []IInv
  BY InitInv, StepInv, PTL DEF Spec

-----------------------------------------------------------------------------

\* Type correctness, for every set of devices.
THEOREM TypeCorrect == Spec => []TypeOK
<1>1. IInv => TypeOK
  <2> SUFFICES ASSUME IInv PROVE TypeOK
    OBVIOUS
  <2>1. dev \in Device /\ MinM(dev) \in Nat
    BY DevType, Offsets DEF IInv
  <2>2. Rows(dev) \subseteq Nat
    BY <2>1 DEF Rows
  <2>3. T \subseteq Nat \X Nat /\ b \subseteq Nat
    BY <2>2 DEF IInv, RangeInv
  <2>4. i \in 0 .. dev.ylen
    BY <2>1, DeviceType DEF IInv, TypeInv
  <2> QED BY <2>3, <2>4 DEF IInv, TypeInv, TypeOK, Mid
<1> QED BY <1>1, Invariant, PTL

\* fill_matrix never writes past the arrays that solver_cal_memory sized, on
\* any mesh and with any number of trap levels.
THEOREM StaysInArrays == Spec => []FitsNz
<1>1. IInv => FitsNz
  <2> SUFFICES ASSUME IInv PROVE FitsNz
    OBVIOUS
  <2>1. dev \in Device /\ i \in Nat
    BY DevType DEF IInv, TypeInv
  <2>2. /\ Done(dev, dev.ylen) \in Nat /\ Done(dev, dev.ylen) <= MinN(dev)
        /\ MinN(dev) \in Nat
    BY <2>1, DoneFits, DeviceType
  <2>3. CASE pc \in {"idle", "full"}
    BY <2>3 DEF IInv, CountInv, FitsNz
  <2>4. CASE pc \in {"left"} \cup Mid
    <3>1. nz >= MinN(dev)
      BY <2>4 DEF IInv, AllocInv, Mid
    <3>2. CASE pc = "left" /\ i = dev.ylen
      BY <3>1, <3>2, <2>2 DEF IInv, TypeInv, CountInv, FitsNz
    <3>3. CASE i < dev.ylen
      <4>1. /\ Done(dev, i) \in Nat /\ Done(dev, i + 1) <= Done(dev, dev.ylen)
            /\ Done(dev, i + 1) = Done(dev, i) + LeftCount(dev, i) + CentreCount
                               + TrapCount(dev.ntrapnewton, dev) + TrapCount(dev.ptrapnewton, dev)
                               + RightCount(dev, i)
        BY <3>3, <2>1, DoneStep
      <4>2. /\ LeftCount(dev, i) \in Nat /\ CentreCount \in Nat /\ RightCount(dev, i) \in Nat
            /\ TrapCount(dev.ntrapnewton, dev) \in Nat /\ TrapCount(dev.ptrapnewton, dev) \in Nat
        BY <2>1, Counts
      <4>3. Done(dev, i + 1) <= nz
        BY <4>1, <4>2, <2>2, <3>1 DEF IInv, TypeInv
      <4>4. pos <= Done(dev, i + 1)
        BY <4>1, <4>2, <2>4 DEF IInv, CountInv, Mid
      <4> QED BY <4>1, <4>2, <4>3, <4>4 DEF IInv, TypeInv, FitsNz
    <3> QED BY <3>2, <3>3, <2>4, <2>1, DeviceType DEF IInv, TypeInv, Mid
  <2> QED BY <2>3, <2>4 DEF IInv, TypeInv
<1> QED BY <1>1, Invariant, PTL

\* Every triplet and every right hand side is of a row and a column of the matrix.
THEOREM IndicesInRange == Spec => []InRange
<1>1. IInv => InRange
  <2> SUFFICES ASSUME IInv PROVE InRange
    OBVIOUS
  <2>1. dev \in Device /\ MinM(dev) \in Nat /\ M \in Nat
    BY DevType, Offsets DEF IInv, TypeInv
  <2>2. CASE nz = 0
    BY <2>2 DEF IInv, AllocInv, InRange
  <2>3. CASE nz # 0
    <3>1. Rows(dev) \subseteq 0 .. M - 1
      BY <2>1, <2>3 DEF IInv, AllocInv, Rows
    <3> QED BY <3>1 DEF IInv, RangeInv, InRange
  <2> QED BY <2>2, <2>3
<1> QED BY <1>1, Invariant, PTL

\* update_solver_vars and get_cur_error read the rows fill_matrix has filled,
\* and each of them.
THEOREM ReadBack == Spec => []ReadsWhatFillWrote
<1>1. IInv => ReadsWhatFillWrote
  BY DEF IInv, RhsInv, ReadsWhatFillWrote
<1> QED BY <1>1, Invariant, PTL

-----------------------------------------------------------------------------

EqIsOnPoints(f) == f = [y \in Eq!Points(dev) |-> f[y]]

EqShapes ==
  /\ EqIsOnPoints(By_xi) /\ EqIsOnPoints(By_xip)
  /\ EqIsOnPoints(Jnl) /\ EqIsOnPoints(Jnr) /\ EqIsOnPoints(Jpl) /\ EqIsOnPoints(Jpr)

EqWhere ==
  /\ dev \in Eq!Meshed /\ i \in 0 .. dev.ylen
  /\ pc \in {"electrons", "holes", "tunnel", "recombine", "ntrap", "ptrap", "rhs"}
  /\ pc # "electrons" => i < dev.ylen

EqPast(y, S) == y < i \/ (y = i /\ pc \in S)
EqAfterElectrons == {"holes", "tunnel", "recombine", "ntrap", "ptrap", "rhs"}
EqAfterHoles == {"tunnel", "recombine", "ntrap", "ptrap", "rhs"}
EqAfterTunnel == {"recombine", "ntrap", "ptrap", "rhs"}

EqCaches ==
  \A y \in Eq!Points(dev) :
    /\ EqPast(y, EqAfterElectrons) => By_xi[y] = Eq!XiFace(dev, u, y + 1)
    /\ EqPast(y, EqAfterHoles) => By_xip[y] = Eq!XipFace(dev, u, y + 1)

\* drift and diffusion through a face, without tunnelling
EqDDn(d, v, y) == Eq!Jn(d.Dn[y], Eq!XiFace(d, v, y), Eq!N(d, v, y - 1), Eq!N(d, v, y))
EqDDp(d, v, y) == Eq!Jp(d.Dp[y], Eq!XipFace(d, v, y), Eq!P(d, v, y - 1), Eq!P(d, v, y))

EqHalfDone ==
  /\ pc \in {"holes", "tunnel"} => Jnl[i] = EqDDn(dev, u, i) /\ Jnr[i] = EqDDn(dev, u, i + 1)
  /\ pc = "tunnel" => Jpl[i] = EqDDp(dev, u, i) /\ Jpr[i] = EqDDp(dev, u, i + 1)

EqDone ==
  \A y \in Eq!Points(dev) : EqPast(y, EqAfterTunnel) =>
    /\ Jnl[y] = Eq!Flux_n(dev, u, y) /\ Jnr[y] = Eq!Flux_n(dev, u, y + 1)
    /\ Eq!NoHoleTunnel => Jpl[y] = Eq!Flux_p(dev, u, y) /\ Jpr[y] = Eq!Flux_p(dev, u, y + 1)

EqInv == EqShapes /\ EqWhere /\ EqCaches /\ EqHalfDone /\ EqDone

-----------------------------------------------------------------------------

\* A device that is simulated has a mesh point.
LEMMA EqMeshHasPoints == \A d \in Eq!Meshed : d.ylen \in Nat \ {0}
BY DEF Eq!Meshed

LEMMA EqInPoints ==
  ASSUME NEW d \in Eq!Meshed, NEW k \in 0 .. d.ylen, k < d.ylen
  PROVE  k \in Eq!Points(d)
BY EqMeshHasPoints DEF Eq!Points

LEMMA EqPointsRange ==
  ASSUME NEW d \in Eq!Meshed, NEW y \in Eq!Points(d)
  PROVE  y \in Int /\ y >= 0 /\ y < d.ylen /\ ~(y < 0) /\ y # d.ylen
BY EqMeshHasPoints DEF Eq!Points

\* the values of a point itself
LEMMA EqAtPoint ==
  ASSUME NEW d \in Eq!Meshed, NEW v, NEW y \in Eq!Points(d)
  PROVE  /\ Eq!N(d, v, y) = v.n[y] /\ Eq!P(d, v, y) = v.p[y]
         /\ \A f : Eq!OfFace(f, y) = f[y]
BY EqPointsRange DEF Eq!N, Eq!P, Eq!At, Eq!OfFace

\* The initial state.
LEMMA EqInitInv == Eq!Init => EqInv
<1> SUFFICES ASSUME Eq!Init PROVE EqInv
  OBVIOUS
<1>1. EqShapes
  BY DEF Eq!Init, EqShapes, EqIsOnPoints
<1>2. EqWhere
  BY EqMeshHasPoints DEF Eq!Init, EqWhere
<1>3. \A y \in Eq!Points(dev) : ~(y < i)
  BY EqMeshHasPoints DEF Eq!Init, Eq!Points
<1>4. EqCaches /\ EqHalfDone /\ EqDone
  BY <1>3 DEF Eq!Init, EqCaches, EqHalfDone, EqDone, EqPast, EqAfterElectrons, EqAfterHoles,
     EqAfterTunnel
<1> QED
  BY <1>1, <1>2, <1>4 DEF EqInv

\* The left face of a point is the right face of the one before.
LEMMA EqLeftFaces ==
  ASSUME EqInv, i < dev.ylen
  PROVE  /\ Eq!LeftXi(i) = Eq!XiFace(dev, u, i)
         /\ Eq!LeftXip(i) = Eq!XipFace(dev, u, i)
<1>1. CASE i = 0
  BY <1>1 DEF Eq!LeftXi, Eq!LeftXip
<1>2. CASE i # 0
  <2>1. i - 1 \in Eq!Points(dev) /\ i - 1 < i /\ (i - 1) + 1 = i
    BY <1>2, EqMeshHasPoints DEF EqInv, EqWhere, Eq!Points
  <2>2. By_xi[i - 1] = Eq!XiFace(dev, u, i) /\ By_xip[i - 1] = Eq!XipFace(dev, u, i)
    BY <2>1 DEF EqInv, EqCaches, EqPast
  <2> QED
    BY <1>2, <2>2 DEF Eq!LeftXi, Eq!LeftXip
<1> QED
  BY <1>1, <1>2

LEMMA EqElectronsInv == EqInv /\ Eq!Electrons => EqInv'
<1> SUFFICES ASSUME EqInv, Eq!Electrons PROVE EqInv'
  OBVIOUS
<1>1. i \in Eq!Points(dev) /\ i < dev.ylen /\ i \in Int /\ pc = "electrons" /\ pc' = "holes"
      /\ UNCHANGED <<dev, u, i>>
  BY EqInPoints DEF EqInv, EqWhere, Eq!Electrons, Eq!Points
<1>2. Eq!LeftXi(i) = Eq!XiFace(dev, u, i)
  BY EqLeftFaces, <1>1
<1>3. u.n[i] = Eq!N(dev, u, i)
  BY EqAtPoint, <1>1 DEF EqInv, EqWhere
<1>4. /\ By_xi' = [By_xi EXCEPT ![i] = Eq!XiFace(dev, u, i + 1)]
      /\ Jnl' = [Jnl EXCEPT ![i] = Eq!Jn(dev.Dn[i], Eq!LeftXi(i), Eq!N(dev, u, i - 1), u.n[i])]
      /\ Jnr' = [Jnr EXCEPT ![i] = Eq!Jn(dev.Dn[i + 1], Eq!XiFace(dev, u, i + 1), u.n[i], Eq!N(dev, u, i + 1))]
      /\ UNCHANGED <<By_xip, Jpl, Jpr>>
  BY DEF Eq!Electrons
<1>5. (i + 1) - 1 = i
  BY <1>1
<1>6. Jnl'[i] = EqDDn(dev, u, i) /\ Jnr'[i] = EqDDn(dev, u, i + 1) /\ By_xi'[i] = Eq!XiFace(dev, u, i + 1)
  BY <1>1, <1>2, <1>3, <1>4, <1>5 DEF EqDDn, EqInv, EqShapes, EqIsOnPoints
<1>7. \A y \in Eq!Points(dev) : y # i => /\ By_xi'[y] = By_xi[y] /\ Jnl'[y] = Jnl[y] /\ Jnr'[y] = Jnr[y]
  BY <1>1, <1>4 DEF EqInv, EqShapes, EqIsOnPoints
<1>8. \A y \in Eq!Points(dev) : y < i => y # i
  BY <1>1 DEF Eq!Points
<1>9. EqShapes'
  BY <1>1, <1>4 DEF EqInv, EqShapes, EqIsOnPoints, Eq!Points
<1>10. EqWhere'
  BY <1>1 DEF EqInv, EqWhere
<1>11. EqCaches'
  BY <1>1, <1>4, <1>6, <1>7, <1>8 DEF EqInv, EqCaches, EqPast, EqAfterElectrons, EqAfterHoles,
     Eq!Points, Eq!XiFace, Eq!XipFace
<1>12. EqHalfDone'
  BY <1>1, <1>6 DEF EqHalfDone, EqDDn
<1>13. EqDone'
  BY <1>1, <1>4, <1>7, <1>8 DEF EqInv, EqDone, EqPast, EqAfterTunnel, Eq!Points, Eq!NoHoleTunnel
<1> QED
  BY <1>9, <1>10, <1>11, <1>12, <1>13 DEF EqInv

LEMMA EqHolesInv == EqInv /\ Eq!Holes => EqInv'
<1> SUFFICES ASSUME EqInv, Eq!Holes PROVE EqInv'
  OBVIOUS
<1>1. i \in Eq!Points(dev) /\ i < dev.ylen /\ i \in Int /\ pc = "holes" /\ pc' = "tunnel"
      /\ UNCHANGED <<dev, u, i>>
  BY EqInPoints DEF EqInv, EqWhere, Eq!Holes, Eq!Points
<1>2. Eq!LeftXip(i) = Eq!XipFace(dev, u, i)
  BY EqLeftFaces, <1>1
<1>3. u.p[i] = Eq!P(dev, u, i)
  BY EqAtPoint, <1>1 DEF EqInv, EqWhere
<1>4. /\ By_xip' = [By_xip EXCEPT ![i] = Eq!XipFace(dev, u, i + 1)]
      /\ Jpl' = [Jpl EXCEPT ![i] = Eq!Jp(dev.Dp[i], Eq!LeftXip(i), Eq!P(dev, u, i - 1), u.p[i])]
      /\ Jpr' = [Jpr EXCEPT ![i] = Eq!Jp(dev.Dp[i + 1], Eq!XipFace(dev, u, i + 1), u.p[i], Eq!P(dev, u, i + 1))]
      /\ UNCHANGED <<By_xi, Jnl, Jnr>>
  BY DEF Eq!Holes
<1>5. (i + 1) - 1 = i
  BY <1>1
<1>6. Jpl'[i] = EqDDp(dev, u, i) /\ Jpr'[i] = EqDDp(dev, u, i + 1) /\ By_xip'[i] = Eq!XipFace(dev, u, i + 1)
  BY <1>1, <1>2, <1>3, <1>4, <1>5 DEF EqDDp, EqInv, EqShapes, EqIsOnPoints
<1>7. \A y \in Eq!Points(dev) : y # i => /\ By_xip'[y] = By_xip[y] /\ Jpl'[y] = Jpl[y] /\ Jpr'[y] = Jpr[y]
  BY <1>1, <1>4 DEF EqInv, EqShapes, EqIsOnPoints
<1>8. \A y \in Eq!Points(dev) : y < i => y # i
  BY <1>1 DEF Eq!Points
<1>9. EqShapes'
  BY <1>1, <1>4 DEF EqInv, EqShapes, EqIsOnPoints, Eq!Points
<1>10. EqWhere'
  BY <1>1 DEF EqInv, EqWhere
<1>11. EqCaches'
  BY <1>1, <1>4, <1>6, <1>7, <1>8 DEF EqInv, EqCaches, EqPast, EqAfterElectrons, EqAfterHoles,
     Eq!Points, Eq!XiFace, Eq!XipFace
<1>12. EqHalfDone'
  BY <1>1, <1>4, <1>6 DEF EqInv, EqHalfDone, EqDDn, EqDDp
<1>13. EqDone'
  BY <1>1, <1>4, <1>7, <1>8 DEF EqInv, EqDone, EqPast, EqAfterTunnel, Eq!Points, Eq!NoHoleTunnel
<1> QED
  BY <1>9, <1>10, <1>11, <1>12, <1>13 DEF EqInv

LEMMA EqTunnelInv == EqInv /\ Eq!Tunnel => EqInv'
<1> SUFFICES ASSUME EqInv, Eq!Tunnel PROVE EqInv'
  OBVIOUS
<1>1. i \in Eq!Points(dev) /\ i < dev.ylen /\ i \in Int /\ pc = "tunnel" /\ pc' = "recombine"
      /\ dev \in Eq!Meshed /\ UNCHANGED <<dev, u, i>>
  BY EqInPoints DEF EqInv, EqWhere, Eq!Tunnel, Eq!Points
<1>2. /\ Jnl' = [Jnl EXCEPT ![i] = @ - Eq!GeLeft(dev, i) * (Eq!En(dev, u, i - 1) - Eq!En(dev, u, i))]
      /\ Jnr' = [Jnr EXCEPT ![i] = @ - dev.interface_Ge[i] * (Eq!En(dev, u, i) - Eq!En(dev, u, i + 1))]
      /\ Jpl' = [Jpl EXCEPT ![i] = @ + Eq!GhLeft(dev, i) * (Eq!Ep(dev, u, i - 1) - Eq!Ep(dev, u, i))]
      /\ Jpr' = [Jpr EXCEPT ![i] = @ + dev.interface_Gh[i] * (Eq!Ep(dev, u, i) - Eq!Ep(dev, u, i + 1))]
      /\ UNCHANGED <<By_xi, By_xip>>
  BY DEF Eq!Tunnel
<1>3. (i + 1) - 1 = i /\ Eq!OfFace(dev.interface_Ge, i) = dev.interface_Ge[i]
      /\ Eq!OfFace(dev.interface_Gh, i) = dev.interface_Gh[i]
  <2>1. (i + 1) - 1 = i
    BY <1>1
  <2>2. \A f : Eq!OfFace(f, i) = f[i]
    BY <1>1, EqAtPoint, Zenon
  <2> QED
    BY <2>1, <2>2
<1>4. Jnl'[i] = Eq!Flux_n(dev, u, i) /\ Jnr'[i] = Eq!Flux_n(dev, u, i + 1)
  <2>1. Jnl[i] = EqDDn(dev, u, i) /\ Jnr[i] = EqDDn(dev, u, i + 1)
    BY <1>1 DEF EqInv, EqHalfDone
  <2>2. /\ Jnl'[i] = Jnl[i] - Eq!GeLeft(dev, i) * (Eq!En(dev, u, i - 1) - Eq!En(dev, u, i))
        /\ Jnr'[i] = Jnr[i] - dev.interface_Ge[i] * (Eq!En(dev, u, i) - Eq!En(dev, u, i + 1))
    BY <1>1, <1>2 DEF EqInv, EqShapes, EqIsOnPoints
  <2> QED
    BY <1>3, <2>1, <2>2 DEF Eq!Flux_n, EqDDn, Eq!GeLeft
<1>5. Eq!NoHoleTunnel => Eq!GhLeft(dev, i) = Eq!OfFace(dev.interface_Gh, i - 1)
  <2> SUFFICES ASSUME Eq!NoHoleTunnel PROVE Eq!GhLeft(dev, i) = Eq!OfFace(dev.interface_Gh, i - 1)
    OBVIOUS
  <2>1. dev.interface_Gh[i] = 0
    BY <1>1 DEF Eq!NoHoleTunnel
  <2>2. Eq!OfFace(dev.interface_Gh, i - 1) = 0
    <3>1. CASE i - 1 < 0
      <4>1. 0 \in Eq!Points(dev)
        BY <1>1, EqMeshHasPoints DEF Eq!Points
      <4> QED
        BY <3>1, <4>1 DEF Eq!OfFace, Eq!NoHoleTunnel
    <3>2. CASE ~(i - 1 < 0)
      <4>1. i - 1 \in Eq!Points(dev)
        BY <1>1, <3>2, EqMeshHasPoints DEF Eq!Points
      <4> QED
        BY <3>2, <4>1 DEF Eq!OfFace, Eq!NoHoleTunnel
    <3> QED
      BY <3>1, <3>2
  <2> QED
    BY <2>1, <2>2 DEF Eq!GhLeft
<1>6. Eq!NoHoleTunnel => Jpl'[i] = Eq!Flux_p(dev, u, i) /\ Jpr'[i] = Eq!Flux_p(dev, u, i + 1)
  <2>1. Jpl[i] = EqDDp(dev, u, i) /\ Jpr[i] = EqDDp(dev, u, i + 1)
    BY <1>1 DEF EqInv, EqHalfDone
  <2>2. /\ Jpl'[i] = Jpl[i] + Eq!GhLeft(dev, i) * (Eq!Ep(dev, u, i - 1) - Eq!Ep(dev, u, i))
        /\ Jpr'[i] = Jpr[i] + dev.interface_Gh[i] * (Eq!Ep(dev, u, i) - Eq!Ep(dev, u, i + 1))
    BY <1>1, <1>2 DEF EqInv, EqShapes, EqIsOnPoints
  <2> QED
    BY <1>3, <1>5, <2>1, <2>2 DEF Eq!Flux_p, EqDDp
<1>7. \A y \in Eq!Points(dev) : y # i => /\ Jnl'[y] = Jnl[y] /\ Jnr'[y] = Jnr[y]
                                      /\ Jpl'[y] = Jpl[y] /\ Jpr'[y] = Jpr[y]
  BY <1>1, <1>2 DEF EqInv, EqShapes, EqIsOnPoints
<1>8. \A y \in Eq!Points(dev) : y < i => y # i
  BY <1>1 DEF Eq!Points
<1>9. EqShapes'
  BY <1>1, <1>2 DEF EqInv, EqShapes, EqIsOnPoints, Eq!Points
<1>10. EqWhere'
  BY <1>1 DEF EqInv, EqWhere
<1>11. EqCaches'
  BY <1>1, <1>2 DEF EqInv, EqCaches, EqPast, EqAfterElectrons, EqAfterHoles, Eq!XiFace, Eq!XipFace
<1>12. EqHalfDone'
  BY <1>1 DEF EqHalfDone
<1>13. EqDone'
  BY <1>1, <1>2, <1>4, <1>6, <1>7, <1>8 DEF EqInv, EqDone, EqPast, EqAfterTunnel, Eq!NoHoleTunnel
<1> QED
  BY <1>9, <1>10, <1>11, <1>12, <1>13 DEF EqInv

\* Recombination, traps and the right hand side leave the fluxes alone.
LEMMA EqOthersInv ==
  ASSUME EqInv, Eq!Recombine \/ Eq!Ntrap \/ Eq!Ptrap \/ Eq!Rhs
  PROVE  EqInv'
<1>1. /\ UNCHANGED <<dev, u, By_xi, By_xip, Jnl, Jnr, Jpl, Jpr>>
      /\ \/ pc \in {"recombine", "ntrap", "ptrap"} /\ pc' \in {"ntrap", "ptrap", "rhs"} /\ i' = i
         \/ pc = "rhs" /\ pc' = "electrons" /\ i' = i + 1
  BY DEF Eq!Recombine, Eq!Ntrap, Eq!Ptrap, Eq!Rhs, Eq!fluxes
<1>2. i \in 0 .. dev.ylen /\ i < dev.ylen /\ dev \in Eq!Meshed /\ dev.ylen \in Nat
  BY <1>1, EqMeshHasPoints DEF EqInv, EqWhere
<1>3. EqShapes'
  BY <1>1 DEF EqInv, EqShapes, EqIsOnPoints, Eq!Points
<1>4. EqWhere'
  BY <1>1, <1>2 DEF EqWhere
<1>5. \A y \in Eq!Points(dev) :
        /\ EqPast(y, EqAfterElectrons)' => EqPast(y, EqAfterElectrons)
        /\ EqPast(y, EqAfterHoles)' => EqPast(y, EqAfterHoles)
        /\ EqPast(y, EqAfterTunnel)' => EqPast(y, EqAfterTunnel)
  BY <1>1, <1>2 DEF EqPast, EqAfterElectrons, EqAfterHoles, EqAfterTunnel, Eq!Points
<1>6. EqCaches'
  BY <1>1, <1>5 DEF EqInv, EqCaches, Eq!XiFace, Eq!XipFace
<1>7. EqHalfDone'
  BY <1>1 DEF EqHalfDone
<1>8. EqDone'
  BY <1>1, <1>5 DEF EqInv, EqDone, Eq!NoHoleTunnel
<1> QED
  BY <1>3, <1>4, <1>6, <1>7, <1>8 DEF EqInv

LEMMA EqRefillInv == EqInv /\ Eq!Refill => EqInv'
<1> SUFFICES ASSUME EqInv, Eq!Refill PROVE EqInv'
  OBVIOUS
<1>1. /\ UNCHANGED <<dev, By_xi, By_xip, Jnl, Jnr, Jpl, Jpr, pc>>
      /\ pc = "electrons" /\ i' = 0
  BY DEF Eq!Refill, Eq!Filled, Eq!fluxes
<1>2. dev \in Eq!Meshed /\ dev.ylen \in Nat
  BY EqMeshHasPoints DEF EqInv, EqWhere
<1>3. \A y \in Eq!Points(dev) : ~(y < i')
  BY <1>1, <1>2 DEF Eq!Points
<1>4. EqShapes'
  BY <1>1 DEF EqInv, EqShapes, EqIsOnPoints, Eq!Points
<1>5. EqWhere'
  BY <1>1, <1>2 DEF EqWhere
<1>6. EqCaches' /\ EqHalfDone' /\ EqDone'
  BY <1>1, <1>3 DEF EqCaches, EqHalfDone, EqDone, EqPast, EqAfterElectrons, EqAfterHoles,
     EqAfterTunnel
<1> QED
  BY <1>4, <1>5, <1>6 DEF EqInv

LEMMA EqStutterInv == EqInv /\ UNCHANGED Eq!vars => EqInv'
BY DEF Eq!vars, Eq!fluxes, EqInv, EqShapes, EqIsOnPoints, EqWhere, EqCaches, EqHalfDone, EqDone,
   EqPast, Eq!Points,
       Eq!NoHoleTunnel, Eq!XiFace, Eq!XipFace, EqDDn, EqDDp, Eq!Flux_n, Eq!Flux_p

LEMMA EqStep == EqInv /\ [Eq!Next]_Eq!vars => EqInv'
BY EqElectronsInv, EqHolesInv, EqTunnelInv, EqOthersInv, EqRefillInv, EqStutterInv DEF Eq!Next

\* The inductive invariant of the fill.
THEOREM EqInvHolds == Eq!Spec => []EqInv
BY EqInitInv, EqStep, PTL DEF Eq!Spec

\* Both sides of a finished face hold its flux.
LEMMA EqConserves == EqInv => Eq!FluxConserved
<1> SUFFICES ASSUME EqInv, NEW y \in Eq!Points(dev), y + 1 < i
             PROVE  Jnr[y] = Jnl[y + 1] /\ (Eq!NoHoleTunnel => Jpr[y] = Jpl[y + 1])
  BY DEF Eq!FluxConserved
<1>1. y + 1 \in Eq!Points(dev) /\ y < i
  BY EqMeshHasPoints DEF EqInv, EqWhere, Eq!Points
<1> QED
  BY <1>1 DEF EqInv, EqDone, EqPast

\* A face carries one flux: what leaves a point enters the next, electrons always,
\* holes where none tunnel.
THEOREM FluxConservedHolds == Eq!Spec => []Eq!FluxConserved
BY EqInvHolds, EqConserves, PTL

-----------------------------------------------------------------------------

PlaneXiY(c, r) == Plane!BdB(Plane!EcY(c, r) - Plane!EcY(c, r - 1))
PlaneXipY(c, r) == Plane!BdB(Plane!EvY(c, r) - Plane!EvY(c, r - 1))
PlaneXipX(c, r) == Plane!BdB(Plane!EvX(c, r) - Plane!EvX(c - 1, r))

PlaneFluxNY(c, r) ==
  Plane!Electrons(dev.Dn[r], PlaneXiY(c, r), Plane!AtY(u.n, dev.n_contact, c, r - 1), Plane!AtY(u.n, dev.n_contact, c, r))
PlaneFluxPY(c, r) ==
  Plane!Holes(dev.Dp[r], PlaneXipY(c, r), Plane!AtY(u.p, dev.p_contact, c, r - 1), Plane!AtY(u.p, dev.p_contact, c, r))
PlaneFluxPX(c, r) ==
  Plane!Holes(dev.Dp_x[c], PlaneXipX(c, r), Plane!AtX(u.p, c - 1, r), Plane!AtX(u.p, c, r))

PlaneOnGrid(f) == f = [g \in Plane!Grid(dev) |-> f[g]]

PlaneShapes ==
  /\ PlaneOnGrid(By_xi) /\ PlaneOnGrid(By_xip) /\ PlaneOnGrid(Bx_xip)
  /\ PlaneOnGrid(Jn) /\ PlaneOnGrid(Jp) /\ PlaneOnGrid(Jp_x)

PlaneWorking == {"y", "x", "entries", "rhs"}

PlaneWhere ==
  /\ dev \in Plane!Meshed /\ px \in 0 .. dev.xlen /\ py \in 0 .. dev.ylen - 1
  /\ pc \in PlaneWorking \cup {"realloc", "filled"}
  /\ pc \in PlaneWorking \cup {"realloc"} => px < dev.xlen
  /\ pc = "realloc" => px = 0 /\ py = 0

PlanePast(g, S) == Plane!Done(g) \/ (g = <<px, py>> /\ pc \in S)
PlaneAfterY == {"x", "entries", "rhs"}
PlaneAfterX == {"entries", "rhs"}

PlaneFacesY(g) ==
  /\ By_xi[g] = PlaneXiY(g[1], g[2] + 1) /\ By_xip[g] = PlaneXipY(g[1], g[2] + 1)
  /\ Jn[g][1] = PlaneFluxNY(g[1], g[2]) /\ Jn[g][2] = PlaneFluxNY(g[1], g[2] + 1)
  /\ Jp[g][1] = PlaneFluxPY(g[1], g[2]) /\ Jp[g][2] = PlaneFluxPY(g[1], g[2] + 1)
PlaneFacesX(g) ==
  /\ Bx_xip[g] = PlaneXipX(g[1] + 1, g[2])
  /\ Jp_x[g][1] = PlaneFluxPX(g[1], g[2]) /\ Jp_x[g][2] = PlaneFluxPX(g[1] + 1, g[2])

PlaneInv ==
  /\ PlaneShapes /\ PlaneWhere
  /\ \A g \in Plane!Grid(dev) :
       /\ PlanePast(g, PlaneAfterY) => PlaneFacesY(g)
       /\ PlanePast(g, PlaneAfterX) => PlaneFacesX(g)

-----------------------------------------------------------------------------

\* A mesh that is simulated has points, two of them in x.
LEMMA PlaneMeshHasPoints ==
  \A d \in Plane!Meshed : d.xlen \in Nat /\ d.ylen \in Nat /\ d.xlen > 1 /\ d.ylen > 0
BY DEF Plane!Meshed

\* The point being filled, and which points are done.
LEMMA PlaneHere ==
  ASSUME PlaneInv, px < dev.xlen
  PROVE  /\ <<px, py>> \in Plane!Grid(dev) /\ px \in Int /\ py \in Int /\ px >= 0 /\ py >= 0
         /\ ~Plane!Done(<<px, py>>)
         /\ py # 0 => <<px, py - 1>> \in Plane!Grid(dev) /\ Plane!Done(<<px, py - 1>>)
         /\ px # 0 => <<px - 1, py>> \in Plane!Grid(dev) /\ Plane!Done(<<px - 1, py>>)
BY PlaneMeshHasPoints DEF PlaneInv, PlaneWhere, Plane!Grid, Plane!Done

\* The initial state.
LEMMA PlaneInitInv == Plane!Init => PlaneInv
<1> SUFFICES ASSUME Plane!Init PROVE PlaneInv
  OBVIOUS
<1>1. PlaneShapes
  BY DEF Plane!Init, PlaneShapes, PlaneOnGrid
<1>2. PlaneWhere
  BY PlaneMeshHasPoints DEF Plane!Init, PlaneWhere, PlaneWorking
<1>3. \A g \in Plane!Grid(dev) : ~PlanePast(g, PlaneAfterY) /\ ~PlanePast(g, PlaneAfterX)
  BY PlaneMeshHasPoints DEF Plane!Init, PlanePast, Plane!Done, Plane!Grid, PlaneAfterX, PlaneAfterY
<1> QED
  BY <1>1, <1>2, <1>3 DEF PlaneInv

\* The fluxes in y.
LEMMA PlaneYFluxesInv == PlaneInv /\ Plane!YFluxes => PlaneInv'
<1> SUFFICES ASSUME PlaneInv, Plane!YFluxes PROVE PlaneInv'
  OBVIOUS
<1> DEFINE g == <<px, py>>
           xil == IF py = 0 THEN Plane!BdB(Plane!EcY(px, 0) - Plane!EcY(px, -1)) ELSE By_xi[<<px, py - 1>>]
           xipl == IF py = 0 THEN Plane!BdB(Plane!EvY(px, 0) - Plane!EvY(px, -1)) ELSE By_xip[<<px, py - 1>>]
<1>1. pc = "y" /\ pc' = "x" /\ px < dev.xlen /\ UNCHANGED <<dev, u, px, py, Bx_xip, Jp_x>>
  BY DEF PlaneInv, PlaneWhere, Plane!YFluxes, Plane!kept, PlaneWorking
<1>2. g \in Plane!Grid(dev) /\ px \in Int /\ py \in Int
  BY PlaneHere, <1>1
<1>3. xil = PlaneXiY(px, py) /\ xipl = PlaneXipY(px, py)
  <2>1. CASE py = 0
    BY <2>1 DEF PlaneXiY, PlaneXipY
  <2>2. CASE py # 0
    <3>1. PlaneFacesY(<<px, py - 1>>)
      BY <1>1, <2>2, PlaneHere DEF PlaneInv, PlanePast
    <3>2. (py - 1) + 1 = py
      BY <1>2
    <3> QED
      BY <2>2, <3>1, <3>2 DEF PlaneFacesY
  <2> QED
    BY <2>1, <2>2
<1>4. (py + 1) - 1 = py
  BY <1>2
<1>5. /\ By_xi' = [By_xi EXCEPT ![g] = PlaneXiY(px, py + 1)]
      /\ By_xip' = [By_xip EXCEPT ![g] = PlaneXipY(px, py + 1)]
      /\ Jn' = [Jn EXCEPT ![g] = <<PlaneFluxNY(px, py), PlaneFluxNY(px, py + 1)>>]
      /\ Jp' = [Jp EXCEPT ![g] = <<PlaneFluxPY(px, py), PlaneFluxPY(px, py + 1)>>]
  BY <1>3, <1>4 DEF Plane!YFluxes, PlaneXiY, PlaneXipY, PlaneFluxNY, PlaneFluxPY
<1>6. \A c, r : /\ PlaneXiY(c, r)' = PlaneXiY(c, r)
                /\ PlaneXipY(c, r)' = PlaneXipY(c, r)
                /\ PlaneXipX(c, r)' = PlaneXipX(c, r)
                /\ PlaneFluxNY(c, r)' = PlaneFluxNY(c, r)
                /\ PlaneFluxPY(c, r)' = PlaneFluxPY(c, r)
                /\ PlaneFluxPX(c, r)' = PlaneFluxPX(c, r)
  BY <1>1 DEF PlaneXiY, PlaneXipY, PlaneXipX, PlaneFluxNY, PlaneFluxPY, PlaneFluxPX, Plane!EcY,
     Plane!EvY, Plane!EcX, Plane!EvX, Plane!AtY, Plane!AtX, Plane!InY, Plane!InX
<1>7. PlaneShapes'
  BY <1>1, <1>5 DEF PlaneInv, PlaneShapes, PlaneOnGrid
<1>8. PlaneWhere'
  BY <1>1 DEF PlaneInv, PlaneWhere, PlaneWorking
<1>9. PlaneFacesY(g)'
  BY <1>1, <1>2, <1>5, <1>6 DEF PlaneFacesY, PlaneInv, PlaneShapes, PlaneOnGrid
<1>10. ASSUME NEW h \in Plane!Grid(dev)'
       PROVE (PlanePast(h, PlaneAfterY) => PlaneFacesY(h))' /\ (PlanePast(h, PlaneAfterX) => PlaneFacesX(h))'
  <2>1. h \in Plane!Grid(dev) /\ (Plane!Done(h))' = Plane!Done(h)
    BY <1>1 DEF Plane!Grid, Plane!Done
  <2>2. CASE h = g
    BY <1>1, <1>9, <2>1, <2>2, PlaneHere DEF PlanePast, PlaneAfterX
  <2>3. CASE h # g
    <3>1. By_xi'[h] = By_xi[h] /\ By_xip'[h] = By_xip[h] /\ Jn'[h] = Jn[h] /\ Jp'[h] = Jp[h]
      BY <1>5, <2>1, <2>3 DEF PlaneInv, PlaneShapes, PlaneOnGrid
    <3>2. PlaneFacesY(h)' = PlaneFacesY(h) /\ PlaneFacesX(h)' = PlaneFacesX(h)
      BY <1>1, <1>6, <3>1 DEF PlaneFacesY, PlaneFacesX
    <3>3. PlanePast(h, PlaneAfterY)' => Plane!Done(h)
      BY <1>1, <2>1, <2>3 DEF PlanePast
    <3>4. PlanePast(h, PlaneAfterX)' => Plane!Done(h)
      BY <1>1, <2>1, <2>3 DEF PlanePast
    <3> QED
      BY <2>1, <3>2, <3>3, <3>4 DEF PlaneInv, PlanePast
  <2> QED
    BY <2>2, <2>3
<1> QED
  BY <1>7, <1>8, <1>10 DEF PlaneInv

\* The fluxes in x.
LEMMA PlaneXFluxesInv == PlaneInv /\ Plane!XFluxes => PlaneInv'
<1> SUFFICES ASSUME PlaneInv, Plane!XFluxes PROVE PlaneInv'
  OBVIOUS
<1> DEFINE g == <<px, py>>
<1>1. /\ pc = "x" /\ pc' = "entries" /\ px < dev.xlen
      /\ UNCHANGED <<dev, u, px, py, By_xi, By_xip, Jn, Jp>>
  BY DEF PlaneInv, PlaneWhere, Plane!XFluxes, PlaneWorking
<1>2. g \in Plane!Grid(dev) /\ px \in Int /\ py \in Int
  BY PlaneHere, <1>1
<1>3. Plane!LeftXip(px, py) = PlaneXipX(px, py)
  <2>1. CASE px = 0
    BY <2>1 DEF Plane!LeftXip, PlaneXipX
  <2>2. CASE px # 0
    <3>1. PlaneFacesX(<<px - 1, py>>)
      BY <1>1, <2>2, PlaneHere DEF PlaneInv, PlanePast
    <3>2. (px - 1) + 1 = px
      BY <1>2
    <3> QED
      BY <2>2, <3>1, <3>2 DEF PlaneFacesX, Plane!LeftXip
  <2> QED
    BY <2>1, <2>2
<1>4. (px + 1) - 1 = px
  BY <1>2
<1>5. /\ Bx_xip' = [Bx_xip EXCEPT ![g] = PlaneXipX(px + 1, py)]
      /\ Jp_x' = [Jp_x EXCEPT ![g] = <<PlaneFluxPX(px, py), PlaneFluxPX(px + 1, py)>>]
  BY <1>3, <1>4 DEF Plane!XFluxes, PlaneXipX, PlaneFluxPX
<1>6. \A c, r : /\ PlaneXiY(c, r)' = PlaneXiY(c, r)
                /\ PlaneXipY(c, r)' = PlaneXipY(c, r)
                /\ PlaneXipX(c, r)' = PlaneXipX(c, r)
                /\ PlaneFluxNY(c, r)' = PlaneFluxNY(c, r)
                /\ PlaneFluxPY(c, r)' = PlaneFluxPY(c, r)
                /\ PlaneFluxPX(c, r)' = PlaneFluxPX(c, r)
  BY <1>1 DEF PlaneXiY, PlaneXipY, PlaneXipX, PlaneFluxNY, PlaneFluxPY, PlaneFluxPX, Plane!EcY,
     Plane!EvY, Plane!EcX, Plane!EvX, Plane!AtY, Plane!AtX, Plane!InY, Plane!InX
<1>7. PlaneShapes'
  BY <1>1, <1>5 DEF PlaneInv, PlaneShapes, PlaneOnGrid
<1>8. PlaneWhere'
  BY <1>1 DEF PlaneInv, PlaneWhere, PlaneWorking
<1>9. PlaneFacesX(g)'
  BY <1>1, <1>2, <1>5, <1>6 DEF PlaneFacesX, PlaneInv, PlaneShapes, PlaneOnGrid
<1>10. PlaneFacesY(g)'
  <2>1. PlaneFacesY(g)
    BY <1>1, <1>2 DEF PlaneInv, PlanePast, PlaneAfterY
  <2> QED
    BY <1>1, <1>6, <2>1 DEF PlaneFacesY
<1>11. ASSUME NEW h \in Plane!Grid(dev)'
       PROVE (PlanePast(h, PlaneAfterY) => PlaneFacesY(h))' /\ (PlanePast(h, PlaneAfterX) => PlaneFacesX(h))'
  <2>1. h \in Plane!Grid(dev) /\ (Plane!Done(h))' = Plane!Done(h)
    BY <1>1 DEF Plane!Grid, Plane!Done
  <2>2. CASE h = g
    BY <1>1, <1>9, <1>10, <2>2
  <2>3. CASE h # g
    <3>1. Bx_xip'[h] = Bx_xip[h] /\ Jp_x'[h] = Jp_x[h]
      BY <1>5, <2>1, <2>3 DEF PlaneInv, PlaneShapes, PlaneOnGrid
    <3>2. PlaneFacesY(h)' = PlaneFacesY(h) /\ PlaneFacesX(h)' = PlaneFacesX(h)
      BY <1>1, <1>6, <3>1 DEF PlaneFacesY, PlaneFacesX
    <3>3. PlanePast(h, PlaneAfterY)' => Plane!Done(h)
      BY <1>1, <2>1, <2>3 DEF PlanePast
    <3>4. PlanePast(h, PlaneAfterX)' => Plane!Done(h)
      BY <1>1, <2>1, <2>3 DEF PlanePast
    <3> QED
      BY <2>1, <3>2, <3>3, <3>4 DEF PlaneInv, PlanePast
  <2> QED
    BY <2>2, <2>3
<1> QED
  BY <1>7, <1>8, <1>11 DEF PlaneInv

\* The next point, row by row and column by column: the one left is done.
LEMMA PlaneRhsInv == PlaneInv /\ Plane!Rhs => PlaneInv'
<1> SUFFICES ASSUME PlaneInv, Plane!Rhs PROVE PlaneInv'
  OBVIOUS
<1>1. pc = "rhs" /\ px < dev.xlen /\ UNCHANGED <<dev, u, Plane!kept, Plane!fluxes>>
  BY DEF PlaneInv, PlaneWhere, Plane!Rhs, PlaneWorking
<1>2. UNCHANGED <<By_xi, By_xip, Bx_xip, Jn, Jp, Jp_x>>
  BY <1>1 DEF Plane!kept, Plane!fluxes
<1>3. /\ px \in Int /\ py \in Int /\ 0 <= px /\ 0 <= py /\ py < dev.ylen
      /\ dev.xlen \in Nat /\ dev.ylen \in Nat /\ dev.xlen > 1 /\ dev.ylen > 0
  BY PlaneMeshHasPoints DEF PlaneInv, PlaneWhere
<1>4. \/ py < dev.ylen - 1 /\ py' = py + 1 /\ px' = px /\ pc' = "y"
      \/ py = dev.ylen - 1 /\ py' = 0 /\ px' = px + 1 /\ pc' = IF px = dev.xlen - 1 THEN "filled" ELSE "y"
  BY <1>3 DEF Plane!Rhs
<1>5. PlaneWhere'
  BY <1>1, <1>3, <1>4 DEF PlaneInv, PlaneWhere, PlaneWorking
<1>6. PlaneShapes'
  BY <1>1, <1>2 DEF PlaneInv, PlaneShapes, PlaneOnGrid
<1>7. ASSUME NEW h \in Plane!Grid(dev)'
      PROVE (PlanePast(h, PlaneAfterY) => PlaneFacesY(h))' /\ (PlanePast(h, PlaneAfterX) => PlaneFacesX(h))'
  <2>1. h \in Plane!Grid(dev)
    BY <1>1 DEF Plane!Grid
  <2>2. (Plane!Done(h))' => Plane!Done(h) \/ h = <<px, py>>
    BY <1>1, <1>3, <1>4, <2>1 DEF Plane!Grid, Plane!Done
  <2>3. PlanePast(h, PlaneAfterY)' \/ PlanePast(h, PlaneAfterX)' => PlanePast(h, PlaneAfterY) /\ PlanePast(h, PlaneAfterX)
    BY <1>1, <1>4, <2>2 DEF PlanePast, PlaneAfterX, PlaneAfterY
  <2>4. \A c, r : /\ PlaneXiY(c, r)' = PlaneXiY(c, r)
                  /\ PlaneXipY(c, r)' = PlaneXipY(c, r)
                  /\ PlaneXipX(c, r)' = PlaneXipX(c, r)
                  /\ PlaneFluxNY(c, r)' = PlaneFluxNY(c, r)
                  /\ PlaneFluxPY(c, r)' = PlaneFluxPY(c, r)
                  /\ PlaneFluxPX(c, r)' = PlaneFluxPX(c, r)
    BY <1>1 DEF PlaneXiY, PlaneXipY, PlaneXipX, PlaneFluxNY, PlaneFluxPY, PlaneFluxPX, Plane!EcY,
       Plane!EvY, Plane!EcX, Plane!EvX, Plane!AtY, Plane!AtX, Plane!InY, Plane!InX
  <2>5. (PlaneFacesY(h) => PlaneFacesY(h)') /\ (PlaneFacesX(h) => PlaneFacesX(h)')
    BY <1>2, <2>4 DEF PlaneFacesY, PlaneFacesX
  <2>6. PlanePast(h, PlaneAfterY)' \/ PlanePast(h, PlaneAfterX)' => PlaneFacesY(h) /\ PlaneFacesX(h)
    BY <2>1, <2>3 DEF PlaneInv
  <2> QED
    BY <2>5, <2>6
<1> QED
  BY <1>5, <1>6, <1>7 DEF PlaneInv

\* Allocation, the places of the entries, and a new solution.
LEMMA PlaneOtherInv ==
  PlaneInv /\ (Plane!Realloc \/ Plane!Entries \/ Plane!Update \/ UNCHANGED Plane!vars) => PlaneInv'
<1> SUFFICES ASSUME PlaneInv, Plane!Realloc \/ Plane!Entries \/ Plane!Update \/ UNCHANGED Plane!vars
             PROVE PlaneInv'
  OBVIOUS
<1>1. UNCHANGED <<dev, By_xi, By_xip, Bx_xip, Jn, Jp, Jp_x>>
  BY DEF Plane!Realloc, Plane!Entries, Plane!Update, Plane!vars, Plane!kept, Plane!fluxes
<1>2. PlaneShapes'
  BY <1>1 DEF PlaneInv, PlaneShapes, PlaneOnGrid
<1>3. CASE Plane!Realloc
  <2>1. px' = 0 /\ py' = 0 /\ pc' = "y"
    BY <1>3 DEF Plane!Realloc, PlaneInv, PlaneWhere
  <2>2. \A h \in Plane!Grid(dev)' : ~PlanePast(h, PlaneAfterY)' /\ ~PlanePast(h, PlaneAfterX)'
    BY <1>1, <2>1, PlaneMeshHasPoints DEF PlanePast, PlaneAfterX, PlaneAfterY, Plane!Done,
       Plane!Grid, PlaneInv, PlaneWhere
  <2>3. PlaneWhere'
    BY <1>1, <2>1, PlaneMeshHasPoints DEF PlaneInv, PlaneWhere, PlaneWorking
  <2> QED
    BY <1>2, <2>2, <2>3 DEF PlaneInv
<1>4. CASE Plane!Update
  <2>1. px' = 0 /\ py' = 0 /\ pc' = "y"
    BY <1>4 DEF Plane!Update
  <2>2. \A h \in Plane!Grid(dev)' : ~PlanePast(h, PlaneAfterY)' /\ ~PlanePast(h, PlaneAfterX)'
    BY <1>1, <2>1, PlaneMeshHasPoints DEF PlanePast, PlaneAfterX, PlaneAfterY, Plane!Done,
       Plane!Grid, PlaneInv, PlaneWhere
  <2>3. PlaneWhere'
    BY <1>1, <2>1, PlaneMeshHasPoints DEF PlaneInv, PlaneWhere, PlaneWorking
  <2> QED
    BY <1>2, <2>2, <2>3 DEF PlaneInv
<1>5. CASE Plane!Entries \/ UNCHANGED Plane!vars
  <2>1. UNCHANGED <<u, px, py>> /\ ((pc = "entries" /\ pc' = "rhs") \/ pc' = pc)
    BY <1>5 DEF Plane!Entries, Plane!vars
  <2>2. \A h : (PlaneFacesY(h) => PlaneFacesY(h)') /\ (PlaneFacesX(h) => PlaneFacesX(h)')
    <3>1. \A c, r : /\ PlaneXiY(c, r)' = PlaneXiY(c, r)
                    /\ PlaneXipY(c, r)' = PlaneXipY(c, r)
                    /\ PlaneXipX(c, r)' = PlaneXipX(c, r)
                    /\ PlaneFluxNY(c, r)' = PlaneFluxNY(c, r)
                    /\ PlaneFluxPY(c, r)' = PlaneFluxPY(c, r)
                    /\ PlaneFluxPX(c, r)' = PlaneFluxPX(c, r)
      BY <1>1, <2>1 DEF PlaneXiY, PlaneXipY, PlaneXipX, PlaneFluxNY, PlaneFluxPY, PlaneFluxPX,
         Plane!EcY, Plane!EvY, Plane!EcX, Plane!EvX, Plane!AtY, Plane!AtX, Plane!InY, Plane!InX
    <3> QED
      BY <1>1, <3>1 DEF PlaneFacesY, PlaneFacesX
  <2>3. \A h : (PlanePast(h, PlaneAfterY)' => PlanePast(h, PlaneAfterY)) /\ (PlanePast(h, PlaneAfterX)' => PlanePast(h, PlaneAfterX))
    BY <2>1 DEF PlanePast, PlaneAfterX, PlaneAfterY, Plane!Done
  <2>4. Plane!Grid(dev)' = Plane!Grid(dev)
    BY <1>1 DEF Plane!Grid
  <2>5. PlaneWhere'
    BY <1>1, <2>1 DEF PlaneInv, PlaneWhere, PlaneWorking
  <2> QED
    BY <1>2, <2>2, <2>3, <2>4, <2>5 DEF PlaneInv
<1> QED
  BY <1>3, <1>4, <1>5

LEMMA PlaneStep == PlaneInv /\ [Plane!Next]_Plane!vars => PlaneInv'
BY PlaneYFluxesInv, PlaneXFluxesInv, PlaneRhsInv, PlaneOtherInv DEF Plane!Next

\* Both sides of every face have found its flux.
THEOREM PlaneInvHolds == Plane!Spec => []PlaneInv
BY PlaneInitInv, PlaneStep, PTL DEF Plane!Spec

\* Both sides of a finished face hold its flux.
LEMMA PlaneConserves == PlaneInv => Plane!FluxConserved2d
<1> SUFFICES ASSUME PlaneInv, NEW g \in Plane!Grid(dev), Plane!Done(g)
             PROVE  /\ g[2] > 0 => /\ Jp[g][1] = Jp[<<g[1], g[2] - 1>>][2]
                                   /\ Jn[g][1] = Jn[<<g[1], g[2] - 1>>][2]
                    /\ g[1] > 0 => Jp_x[g][1] = Jp_x[<<g[1] - 1, g[2]>>][2]
  BY DEF Plane!FluxConserved2d
<1>1. g[1] \in Int /\ g[2] \in Int /\ px \in Int /\ py \in Int
  BY PlaneMeshHasPoints DEF Plane!Grid, PlaneInv, PlaneWhere
<1>2. PlaneFacesY(g) /\ PlaneFacesX(g)
  BY DEF PlaneInv, PlanePast
<1>3. ASSUME g[2] > 0
      PROVE Jp[g][1] = Jp[<<g[1], g[2] - 1>>][2] /\ Jn[g][1] = Jn[<<g[1], g[2] - 1>>][2]
  <2>1. <<g[1], g[2] - 1>> \in Plane!Grid(dev) /\ Plane!Done(<<g[1], g[2] - 1>>) /\ (g[2] - 1) + 1 = g[2]
    BY <1>1, <1>3, PlaneMeshHasPoints DEF Plane!Grid, Plane!Done, PlaneInv, PlaneWhere
  <2>2. PlaneFacesY(<<g[1], g[2] - 1>>)
    BY <2>1 DEF PlaneInv, PlanePast
  <2> QED
    BY <1>2, <2>1, <2>2 DEF PlaneFacesY
<1>4. ASSUME g[1] > 0 PROVE Jp_x[g][1] = Jp_x[<<g[1] - 1, g[2]>>][2]
  <2>1. <<g[1] - 1, g[2]>> \in Plane!Grid(dev) /\ Plane!Done(<<g[1] - 1, g[2]>>) /\ (g[1] - 1) + 1 = g[1]
    BY <1>1, <1>4, PlaneMeshHasPoints DEF Plane!Grid, Plane!Done, PlaneInv, PlaneWhere
  <2>2. PlaneFacesX(<<g[1] - 1, g[2]>>)
    BY <2>1 DEF PlaneInv, PlanePast
  <2> QED
    BY <1>2, <2>1, <2>2 DEF PlaneFacesX
<1> QED
  BY <1>3, <1>4

\* What leaves a point enters the next.
THEOREM FluxConserved2dHolds == Plane!Spec => []Plane!FluxConserved2d
BY PlaneInvHolds, PlaneConserves, PTL

-----------------------------------------------------------------------------
(* In one dimension no place is missing or left over. *)

\* Every number below n * l is in one of the l blocks of n.
LEMMA InBlock ==
  ASSUME NEW n \in Nat \ {0}, NEW l \in Nat, NEW r \in Nat, r < n * l
  PROVE  \E k \in 0 .. l - 1, y \in 0 .. n - 1 : r = n * k + y
<1> DEFINE k == r \div n
           y == r % n
<1>1. r = n * k + y /\ k \in Nat /\ y \in 0 .. n - 1
  BY SMT
<1> HIDE DEF k, y
<1>2. k < l
  <2> SUFFICES ASSUME k >= l PROVE FALSE
    BY <1>1
  <2>1. n * l <= n * k
    BY <1>1, SMT
  <2>2. n * l \in Nat /\ n * k \in Nat
    BY <1>1, SMT
  <2> QED BY <1>1, <2>1, <2>2
<1> QED BY <1>1, <1>2

\* A row of the trap levels' block is one of a mesh point.
LEMMA TrapCovers ==
  ASSUME NEW d \in Device, NEW o \in Nat, NEW r \in Nat, o <= r, r < o + d.ylen * d.srh_bands
  PROVE  \E y \in 0 .. d.ylen - 1 : r \in TrapRows(d, o, y)
<1>1. d.ylen \in Nat \ {0} /\ d.srh_bands \in Nat /\ d.ylen * d.srh_bands \in Nat
  BY DeviceType, BandsType
<1>2. PICK q \in Nat : q = r - o /\ q < d.ylen * d.srh_bands
  BY <1>1
<1>3. PICK k \in 0 .. d.srh_bands - 1, y \in 0 .. d.ylen - 1 : q = d.ylen * k + y
  BY <1>1, <1>2, InBlock
<1>4. PICK p \in Nat : p = d.ylen * k
  BY <1>1, MulStep
<1>5. q = p + y
  BY <1>3, <1>4
<1>6. r = o + p + y
  BY <1>1, <1>2, <1>5
<1>7. r = o + d.ylen * k + y
  BY <1>4, <1>6
<1> QED BY <1>3, <1>7 DEF TrapRows

\* Every row of the smallest matrix is one that is read.
LEMMA ReadsCover ==
  ASSUME NEW d \in Device
  PROVE  Rows(d) \subseteq ReadRows(d)
<1>1. d.ylen \in Nat \ {0}
  BY DeviceType
<1>2. \A y \in 0 .. d.ylen - 1 : Unknowns(d, y) \subseteq ReadRows(d)
  BY Zenon DEF ReadRows, Before
<1> SUFFICES ASSUME NEW r \in Rows(d) PROVE r \in ReadRows(d)
  OBVIOUS
<1>3. r \in Nat /\ r < MinM(d)
  BY Offsets DEF Rows
<1>4. CASE r < d.ylen
  BY <1>1, <1>2, <1>3, <1>4 DEF Unknowns
<1>5. CASE d.ylen <= r /\ r < offset_Je(d)
  <2>1. d.schottky /\ r = offset_Je(d) - 1
    BY <1>1, <1>3, <1>5, DeviceType DEF offset_Je
  <2> QED BY <2>1 DEF ReadRows
<1>6. CASE offset_Je(d) <= r /\ r < offset_Jh(d)
  <2>1. PICK y : y = r - offset_Je(d)
    OBVIOUS
  <2>2. y \in 0 .. d.ylen - 1 /\ r = offset_Je(d) + y
    BY <1>1, <1>3, <1>6, <2>1, Offsets
  <2> QED BY <1>2, <2>2 DEF Unknowns
<1>7. CASE offset_Jh(d) <= r /\ r < offset_srh_e(d)
  <2>1. PICK y : y = r - offset_Jh(d)
    OBVIOUS
  <2>2. y \in 0 .. d.ylen - 1 /\ r = offset_Jh(d) + y
    BY <1>1, <1>3, <1>7, <2>1, Offsets
  <2> QED BY <1>2, <2>2 DEF Unknowns
<1>8. CASE offset_srh_e(d) <= r /\ r < offset_srh_h(d)
  <2>1. d.ntrapnewton
    <3> SUFFICES ASSUME ~d.ntrapnewton PROVE FALSE
      OBVIOUS
    <3>1. offset_srh_h(d) = offset_srh_e(d)
      BY Offsets DEF offset_srh_h
    <3> QED BY <1>3, <1>8, <3>1, Offsets
  <2>2. PICK y \in 0 .. d.ylen - 1 : r \in TrapRows(d, offset_srh_e(d), y)
    BY <1>3, <1>8, <2>1, Offsets, TrapCovers
  <2> QED BY <1>2, <2>1, <2>2 DEF Unknowns, SrhE
<1>9. CASE offset_srh_h(d) <= r
  <2>1. d.ptrapnewton
    <3> SUFFICES ASSUME ~d.ptrapnewton PROVE FALSE
      OBVIOUS
    <3>1. MinM(d) = offset_srh_h(d)
      <4>1. d.ylen * Bands(d) = (IF d.ntrapnewton THEN d.ylen * d.srh_bands ELSE 0)
        <5>1. Bands(d) = (IF d.ntrapnewton THEN d.srh_bands ELSE 0)
          BY DeviceType DEF Bands
        <5>2. d.ylen * 0 = 0
          BY <1>1
        <5> QED BY <5>1, <5>2
      <4>2. MinM(d) = 3 * d.ylen + (IF d.schottky THEN 1 ELSE 0) + d.ylen * Bands(d)
        BY DeviceType, BandsType DEF CalM, MinM
      <4>3. d.ylen * d.srh_bands \in Nat /\ d.ylen * Bands(d) \in Nat
        BY BandsType
      <4> QED BY <1>1, <4>1, <4>2, <4>3, DeviceType DEF offset_srh_h, offset_srh_e, offset_Jh,
                 offset_Je
    <3> QED BY <1>3, <1>9, <3>1, Offsets
  <2>2. PICK y \in 0 .. d.ylen - 1 : r \in TrapRows(d, offset_srh_h(d), y)
    BY <1>3, <1>9, <2>1, Offsets, TrapCovers
  <2> QED BY <1>2, <2>1, <2>2 DEF Unknowns, SrhH
<1> QED BY <1>1, <1>3, <1>4, <1>5, <1>6, <1>7, <1>8, <1>9, Offsets

-----------------------------------------------------------------------------
(* That nothing is left over. *)

OnDiagonal(S) == \A r \in S : <<r, r>> \in T
ThreeRows == {i, offset_Je(dev) + i, offset_Jh(dev) + i}
ExactInv ==
  /\ NoIons(dev) /\ nz # 0 => nz = MinN(dev) /\ M = MinM(dev)
  /\ pc = "full" => pos = Done(dev, dev.ylen) + (IF dev.schottky THEN 1 ELSE 0)
  /\ OnDiagonal(b)
  /\ pc \in {"ntrap", "ptrap", "right", "rhs"} => OnDiagonal(ThreeRows)
  /\ pc \in {"ptrap", "right", "rhs"} => OnDiagonal(SrhE(dev, i))
  /\ pc \in {"right", "rhs"} => OnDiagonal(SrhH(dev, i))

\* Diagonals written stay written.
LEMMA DiagonalsStay ==
  ASSUME ExactInv, T \subseteq T', UNCHANGED <<dev, i, b>>
  PROVE  /\ OnDiagonal(b)'
         /\ OnDiagonal(ThreeRows) => OnDiagonal(ThreeRows)'
         /\ OnDiagonal(SrhE(dev, i)) => OnDiagonal(SrhE(dev, i))'
         /\ OnDiagonal(SrhH(dev, i)) => OnDiagonal(SrhH(dev, i))'
  BY DEF ExactInv, OnDiagonal, ThreeRows

LEMMA ExactInit == Init => ExactInv
  BY DEF Init, ExactInv, OnDiagonal

LEMMA ExactStep == IInv /\ ExactInv /\ [Next]_vars => ExactInv'
<1> SUFFICES ASSUME IInv, ExactInv, [Next]_vars PROVE ExactInv'
  OBVIOUS
<1>1. CASE Realloc
  <2>1. NoIons(dev) => Nion_enabled = FALSE
    BY DevType, DeviceType DEF IInv, TypeInv, AllocInv, NoIons
  <2>2. NoIons(dev) => nz' = MinN(dev) /\ M' = MinM(dev)
    BY <1>1, <2>1 DEF Realloc, MinN, MinM
  <2> QED BY <1>1, <2>2 DEF Realloc, ExactInv, OnDiagonal, NoIons, MinN, MinM
<1>2. CASE SwitchIons
  BY <1>2 DEF SwitchIons, ExactInv, OnDiagonal, NoIons
<1>3. CASE StartFill
  BY <1>3 DEF StartFill, ExactInv, OnDiagonal
<1>4. CASE FillLeft
  <2>1. T \subseteq T' /\ pc' = "centre" /\ UNCHANGED <<dev, i, b, nz, M>>
    BY <1>4 DEF FillLeft, Put
  <2> QED BY <2>1, DiagonalsStay DEF ExactInv
<1>5. CASE FillCentre
  <2>1. T' = T \cup Centre(dev, i) /\ pc' = "ntrap" /\ UNCHANGED <<dev, i, b, nz, M>>
    BY <1>5 DEF FillCentre, Put
  <2>2. OnDiagonal(ThreeRows)'
    BY <2>1 DEF OnDiagonal, ThreeRows, Centre
  <2> QED BY <2>1, <2>2, DiagonalsStay DEF ExactInv
<1>6. CASE FillNtrap
  <2>1. /\ T' = T \cup Traps(dev, SrhE(dev, i), i)
        /\ pc = "ntrap" /\ pc' = "ptrap" /\ UNCHANGED <<dev, i, b, nz, M>>
    BY <1>6 DEF FillNtrap, Put
  <2>2. \A t \in SrhE(dev, i) : <<t, t>> \in T'
    <3>1. \A t \in SrhE(dev, i) : <<t, t>> \in Trap(dev, t, i)
      BY DEF Trap
    <3>2. \A t \in SrhE(dev, i) : Trap(dev, t, i) \subseteq Traps(dev, SrhE(dev, i), i)
      BY Zenon DEF Traps
    <3> QED BY <2>1, <3>1, <3>2
  <2>3. OnDiagonal(SrhE(dev, i))'
    BY <2>1, <2>2 DEF OnDiagonal
  <2> QED BY <2>1, <2>3, DiagonalsStay DEF ExactInv
<1>7. CASE FillPtrap
  <2>1. /\ T' = T \cup Traps(dev, SrhH(dev, i), i)
        /\ pc = "ptrap" /\ pc' = "right" /\ UNCHANGED <<dev, i, b, nz, M>>
    BY <1>7 DEF FillPtrap, Put
  <2>2. \A t \in SrhH(dev, i) : <<t, t>> \in T'
    <3>1. \A t \in SrhH(dev, i) : <<t, t>> \in Trap(dev, t, i)
      BY DEF Trap
    <3>2. \A t \in SrhH(dev, i) : Trap(dev, t, i) \subseteq Traps(dev, SrhH(dev, i), i)
      BY Zenon DEF Traps
    <3> QED BY <2>1, <3>1, <3>2
  <2>3. OnDiagonal(SrhH(dev, i))'
    BY <2>1, <2>2 DEF OnDiagonal
  <2> QED BY <2>1, <2>3, DiagonalsStay DEF ExactInv
<1>8. CASE FillRight
  <2>1. /\ T \subseteq T' /\ pc = "right" /\ pc' = "rhs" /\ UNCHANGED <<dev, i, b, nz, M>>
    BY <1>8 DEF FillRight, Put
  <2> QED BY <2>1, DiagonalsStay DEF ExactInv
<1>9. CASE FillRhs
  <2>1. /\ pc = "rhs" /\ pc' = "left" /\ b' = b \cup Unknowns(dev, i)
        /\ UNCHANGED <<dev, nz, M, T>>
    BY <1>9 DEF FillRhs
  <2>2. OnDiagonal(b)'
    BY <2>1 DEF ExactInv, OnDiagonal, ThreeRows, Unknowns
  <2> QED BY <2>1, <2>2 DEF ExactInv
<1>10. CASE Corner
  <2>1. pc = "left" /\ i = dev.ylen /\ pc' = "full" /\ UNCHANGED <<dev, nz, M>>
    BY <1>10 DEF Corner
  <2>2. pos = Done(dev, dev.ylen) /\ pos \in Nat
    BY <2>1 DEF IInv, CountInv, TypeInv
  <2>3. pos' = pos + (IF dev.schottky THEN 1 ELSE 0)
    BY <1>10, <2>2 DEF Corner, Put
  <2>4. OnDiagonal(b)'
    <3>1. CASE dev.schottky
      <4>1. /\ T' = T \cup {<<offset_Je(dev) - 1, offset_Je(dev) - 1>>}
            /\ b' = b \cup {offset_Je(dev) - 1}
        BY <1>10, <3>1 DEF Corner, Put
      <4>2. \A r \in b : <<r, r>> \in T
        BY DEF ExactInv, OnDiagonal
      <4> QED BY <4>1, <4>2, Zenon DEF OnDiagonal
    <3>2. CASE ~dev.schottky
      <4>1. UNCHANGED <<T, b>>
        BY <1>10, <3>2 DEF Corner
      <4>2. \A r \in b : <<r, r>> \in T
        BY DEF ExactInv, OnDiagonal
      <4> QED BY <4>1, <4>2, Zenon DEF OnDiagonal
    <3> QED BY <3>1, <3>2
  <2> QED BY <2>1, <2>2, <2>3, <2>4 DEF ExactInv
<1>11. CASE Update
  BY <1>11 DEF Update, ExactInv, OnDiagonal
<1>12. CASE UNCHANGED vars
  BY <1>12 DEF vars, ExactInv, OnDiagonal, ThreeRows
<1> QED
  BY <1>1, <1>2, <1>3, <1>4, <1>5, <1>6, <1>7, <1>8, <1>9, <1>10, <1>11, <1>12 DEF Next

LEMMA NothingLeft == IInv /\ ExactInv => ExactFit
<1> SUFFICES ASSUME IInv, ExactInv, pc = "full", NoIons(dev)
             PROVE  /\ pos + 2 * dev.interfaces_n = nz
                    /\ \A r \in 0 .. M - 1 : <<r, r>> \in T /\ r \in b
  BY DEF ExactFit
<1>1. dev \in Device
  BY DevType DEF IInv
<1>2. nz = MinN(dev) /\ M = MinM(dev)
  BY DEF IInv, AllocInv, ExactInv
<1>3. pos + 2 * dev.interfaces_n = nz
  BY <1>1, <1>2, DoneFits DEF ExactInv
<1>4. \A r \in 0 .. M - 1 : r \in b
  BY <1>1, <1>2, ReadsCover DEF IInv, RhsInv, Rows
<1> QED BY <1>3, <1>4 DEF ExactInv, OnDiagonal

-----------------------------------------------------------------------------
(* In two dimensions: the rows, the places of a point, and how many. *)

\* Two numbers made of a block and a place in it are the same only if both are.
LEMMA SameBlock ==
  ASSUME NEW n \in Nat, NEW k \in Nat, NEW y \in 0 .. n - 1, NEW l \in Nat, NEW z \in 0 .. n - 1,
         n * k + y = n * l + z
  PROVE  k = l /\ y = z
<1>1. \A p, q \in Nat : p < q => n * p + n <= n * q
  <2> SUFFICES ASSUME NEW p \in Nat, NEW q \in Nat, p < q PROVE n * p + n <= n * q
    OBVIOUS
  <2>1. n * (p + 1) <= n * q
    BY SMT
  <2>2. n * (p + 1) = n * p + n
    BY SMT
  <2> QED BY <2>1, <2>2
<1>2. n * k \in Nat /\ n * l \in Nat
  BY SMT
<1>3. ~(k < l) /\ ~(l < k)
  BY <1>1, <1>2
<1>4. k = l
  BY <1>3
<1> QED BY <1>2, <1>4

(* The rows of the plane: each point has one for the potential, one for     *)
(* each carrier and one for each level of the traps.                        *)
PlaneLevels == 3 + Plane!Bands(dev)
PlaneRow(c, k, r) == x_matrix_offset * c + dev.ylen * k + r
PlaneRowsOf(g) == {PlaneRow(g[1], k, g[2]) : k \in 0 .. PlaneLevels - 1}
PlaneSized ==
  /\ dev \in Plane!Meshed /\ dev.srh_bands \in Nat
  /\ x_matrix_offset = Plane!ColumnM(dev)
PlaneAllRows == 0 .. x_matrix_offset * dev.xlen - 1

LEMMA PlaneSizes ==
  ASSUME PlaneSized
  PROVE  /\ dev.xlen \in Nat /\ dev.ylen \in Nat \ {0} /\ dev.xlen > 1
         /\ Plane!Bands(dev) \in Nat /\ PlaneLevels \in Nat /\ PlaneLevels >= 3
         /\ x_matrix_offset \in Nat /\ x_matrix_offset = dev.ylen * PlaneLevels
<1>1. dev.xlen \in Nat /\ dev.ylen \in Nat \ {0} /\ dev.xlen > 1
  BY PlaneMeshHasPoints DEF PlaneSized
<1>2. Plane!Bands(dev) \in Nat
  BY DEF Plane!Bands, PlaneSized
<1>3. PlaneLevels \in Nat /\ PlaneLevels >= 3
  BY <1>2 DEF PlaneLevels
<1>4. x_matrix_offset = 3 * dev.ylen + dev.ylen * Plane!Bands(dev)
  BY DEF PlaneSized, Plane!ColumnM
<1>5. dev.ylen * PlaneLevels = 3 * dev.ylen + dev.ylen * Plane!Bands(dev)
  <2>1. \A n, k \in Nat : n * (3 + k) = 3 * n + n * k
    BY SMT
  <2> QED BY <1>1, <1>2, <2>1 DEF PlaneLevels
<1>6. \A n, k \in Nat : n * k \in Nat
  BY SMT
<1> QED BY <1>1, <1>2, <1>3, <1>4, <1>5, <1>6

LEMMA PlaneGrid ==
  ASSUME PlaneSized, NEW g \in Plane!Grid(dev)
  PROVE  /\ g = <<g[1], g[2]>> /\ g[1] \in Nat /\ g[1] < dev.xlen
         /\ g[2] \in Nat /\ g[2] < dev.ylen
  BY PlaneSizes DEF Plane!Grid

\* A row's place in its column.
LEMMA PlaneRowIn ==
  ASSUME PlaneSized, NEW k \in 0 .. PlaneLevels - 1, NEW r \in 0 .. dev.ylen - 1
  PROVE  dev.ylen * k + r \in 0 .. x_matrix_offset - 1
  BY PlaneSizes, MulBlock

LEMMA PlaneRowType ==
  ASSUME PlaneSized, NEW g \in Plane!Grid(dev), NEW k \in 0 .. PlaneLevels - 1
  PROVE  /\ PlaneRow(g[1], k, g[2]) \in PlaneAllRows
         /\ PlaneRow(g[1], k, g[2]) = x_matrix_offset * g[1] + (dev.ylen * k + g[2])
<1>1. g[1] \in Nat /\ g[1] < dev.xlen /\ g[2] \in 0 .. dev.ylen - 1
  BY PlaneGrid, PlaneSizes
<1>2. PICK p : p = dev.ylen * k + g[2]
  OBVIOUS
<1>3. p \in Nat /\ p < x_matrix_offset
  BY <1>1, <1>2, PlaneRowIn, PlaneSizes
<1>4. x_matrix_offset * g[1] + p \in Nat /\ x_matrix_offset * g[1] + p < x_matrix_offset * dev.xlen
  BY <1>1, <1>3, PlaneSizes, MulBlock
<1>5. dev.ylen * k \in Nat /\ x_matrix_offset * g[1] \in Nat
  BY <1>1, PlaneSizes, MulStep
<1>6. PlaneRow(g[1], k, g[2]) = x_matrix_offset * g[1] + p
  BY <1>1, <1>2, <1>5 DEF PlaneRow
<1>7. x_matrix_offset * dev.xlen \in Nat
  BY PlaneSizes, MulStep
<1> QED BY <1>2, <1>4, <1>6, <1>7 DEF PlaneAllRows

\* No two equations share a row.
LEMMA PlaneRowOnce ==
  ASSUME PlaneSized, NEW g \in Plane!Grid(dev), NEW h \in Plane!Grid(dev),
         NEW k \in 0 .. PlaneLevels - 1, NEW l \in 0 .. PlaneLevels - 1,
         PlaneRow(g[1], k, g[2]) = PlaneRow(h[1], l, h[2])
  PROVE  g = h /\ k = l
<1>1. /\ g[1] \in Nat /\ g[2] \in 0 .. dev.ylen - 1 /\ h[1] \in Nat /\ h[2] \in 0 .. dev.ylen - 1
      /\ g = <<g[1], g[2]>> /\ h = <<h[1], h[2]>>
  BY PlaneGrid, PlaneSizes
<1>2. PICK p : p = dev.ylen * k + g[2]
  OBVIOUS
<1>3. PICK q : q = dev.ylen * l + h[2]
  OBVIOUS
<1>4. p \in 0 .. x_matrix_offset - 1 /\ q \in 0 .. x_matrix_offset - 1
  BY <1>1, <1>2, <1>3, PlaneRowIn
<1>5. x_matrix_offset * g[1] + p = x_matrix_offset * h[1] + q
  BY <1>2, <1>3, PlaneRowType
<1>6. g[1] = h[1] /\ p = q
  BY <1>1, <1>4, <1>5, PlaneSizes, SameBlock
<1>7. k = l /\ g[2] = h[2]
  BY <1>1, <1>2, <1>3, <1>6, PlaneSizes, SameBlock
<1> QED BY <1>1, <1>6, <1>7

\* Every row of the matrix is some point's.
LEMMA PlaneRowsCover ==
  ASSUME PlaneSized, NEW w \in PlaneAllRows
  PROVE  \E g \in Plane!Grid(dev) : w \in PlaneRowsOf(g)
<1>0. w \in Nat /\ w < x_matrix_offset * dev.xlen /\ x_matrix_offset \in Nat \ {0}
  <2>1. x_matrix_offset * dev.xlen \in Nat
    BY PlaneSizes, MulStep
  <2>2. x_matrix_offset # 0
    <3>1. \A n \in Nat \ {0} : \A k \in Nat : k >= 3 => n * k # 0
      BY SMT
    <3> QED BY <3>1, PlaneSizes
  <2> QED BY <2>1, <2>2, PlaneSizes DEF PlaneAllRows
<1>1. PICK c \in 0 .. dev.xlen - 1, q \in 0 .. x_matrix_offset - 1 : w = x_matrix_offset * c + q
  BY <1>0, PlaneSizes, InBlock
<1>2. PICK k \in 0 .. PlaneLevels - 1, r \in 0 .. dev.ylen - 1 : q = dev.ylen * k + r
  <2>1. q \in Nat /\ q < dev.ylen * PlaneLevels
    BY PlaneSizes
  <2> QED BY <2>1, PlaneSizes, InBlock
<1>3. <<c, r>> \in Plane!Grid(dev)
  BY DEF Plane!Grid
<1>4. PlaneRow(c, k, r) = w
  BY <1>1, <1>2, <1>3, PlaneRowType
<1>5. <<c, r>>[1] = c /\ <<c, r>>[2] = r
  OBVIOUS
<1> QED BY <1>3, <1>4, <1>5 DEF PlaneRowsOf

LEMMA ImageSize ==
  ASSUME NEW S, IsFiniteSet(S), NEW f, \A s, t \in S : f[s] = f[t] => s = t
  PROVE  IsFiniteSet({f[s] : s \in S}) /\ Cardinality({f[s] : s \in S}) = Cardinality(S)
<1> DEFINE I == {f[s] : s \in S}
           g == [s \in S |-> f[s]]
<1>1. g \in [S -> I] /\ (\A s, t \in S : g[s] = g[t] => s = t) /\ \A w \in I : \E s \in S : g[s] = w
  OBVIOUS
<1>2. g \in Bijection(S, I)
  BY <1>1, Fun_IsBij
<1>3. ExistsBijection(S, I)
  BY <1>2 DEF ExistsBijection
<1> QED BY <1>3, FS_Bijection

LEMMA DisjointSum ==
  ASSUME NEW S, NEW U, IsFiniteSet(S), IsFiniteSet(U), \A e \in S : e \notin U
  PROVE  IsFiniteSet(S \cup U) /\ Cardinality(S \cup U) = Cardinality(S) + Cardinality(U)
<1>1. S \cap U = {}
  OBVIOUS
<1>2. Cardinality(S) \in Nat /\ Cardinality(U) \in Nat
  BY FS_CardinalityType
<1> QED BY <1>1, <1>2, FS_Union, FS_EmptySet

LEMMA PairSize ==
  ASSUME NEW e, NEW f, e # f
  PROVE  IsFiniteSet({e, f}) /\ Cardinality({e, f}) = 2
<1>1. {e, f} = {e} \cup {f}
  OBVIOUS
<1>2. IsFiniteSet({e}) /\ Cardinality({e}) = 1 /\ f \notin {e}
  BY FS_Singleton
<1> QED BY <1>1, <1>2, FS_AddElement

LEMMA TripleSize ==
  ASSUME NEW e, NEW f, NEW g, e # f, e # g, f # g
  PROVE  IsFiniteSet({e, f, g}) /\ Cardinality({e, f, g}) = 3
<1>1. {e, f, g} = {e, f} \cup {g} /\ g \notin {e, f}
  OBVIOUS
<1>2. IsFiniteSet({g}) /\ Cardinality({g}) = 1
  BY FS_Singleton
<1>3. IsFiniteSet({e, f}) /\ Cardinality({e, f}) = 2 /\ \A w \in {e, f} : w \notin {g}
  BY PairSize
<1>4. IsFiniteSet({e, f} \cup {g}) /\ Cardinality({e, f} \cup {g}) = Cardinality({e, f}) + Cardinality({g})
  BY <1>2, <1>3, DisjointSum
<1> QED BY <1>1, <1>2, <1>3, <1>4

LEMMA DiagonalSize ==
  ASSUME NEW S, IsFiniteSet(S)
  PROVE  IsFiniteSet({<<t, t>> : t \in S}) /\ Cardinality({<<t, t>> : t \in S}) = Cardinality(S)
<1> DEFINE f == [t \in S |-> <<t, t>>]
<1>1. \A s, t \in S : f[s] = f[t] => s = t
  OBVIOUS
<1>2. {f[t] : t \in S} = {<<t, t>> : t \in S}
  OBVIOUS
<1> HIDE DEF f
<1>3. IsFiniteSet({f[t] : t \in S}) /\ Cardinality({f[t] : t \in S}) = Cardinality(S)
  BY <1>1, ImageSize
<1> QED BY <1>2, <1>3

\* The places of a point's equations a, e and h: those three with each other, with the
\* rows L of the levels and with the rows NA, NE and NH of the neighbours.
PointPlaces(a, e, h, L, NA, NE, NH) ==
  (((({a, e, h} \X {a, e, h}) \cup ({a, e, h} \X L)) \cup {<<t, t>> : t \in L})
     \cup (L \X {e, h}))
  \cup ((({a} \X NA) \cup ({e} \X (NE \cup NA))) \cup ({h} \X (NH \cup NA)))

\* They are as many as they are written.
LEMMA PlacesOfPoint ==
  ASSUME NEW a, NEW e, NEW h, a # e, a # h, e # h,
         NEW L, IsFiniteSet(L), \A t \in L : t \notin {a, e, h},
         NEW NA, NEW NE, NEW NH, IsFiniteSet(NA), IsFiniteSet(NE), IsFiniteSet(NH),
         Cardinality(NE) = Cardinality(NA), Cardinality(NH) = Cardinality(NA),
         \A t \in NA : t \notin NE /\ t \notin NH,
         \A t \in NA \cup NE \cup NH : t \notin L /\ t \notin {a, e, h}
  PROVE  /\ IsFiniteSet(PointPlaces(a, e, h, L, NA, NE, NH))
         /\ Cardinality(PointPlaces(a, e, h, L, NA, NE, NH))
              = 9 + 6 * Cardinality(L) + 5 * Cardinality(NA)
<1> DEFINE S == PointPlaces(a, e, h, L, NA, NE, NH)
           E == {a, e, h}
           A1 == E \X E
           A2 == E \X L
           A3 == {<<t, t>> : t \in L}
           A4 == L \X {e, h}
           A5 == {a} \X NA
           A6 == {e} \X (NE \cup NA)
           A7 == {h} \X (NH \cup NA)
           m == Cardinality(L)
           n == Cardinality(NA)
<1>1. m \in Nat /\ n \in Nat
  BY FS_CardinalityType
<1>2. IsFiniteSet(E) /\ Cardinality(E) = 3 /\ IsFiniteSet({e, h}) /\ Cardinality({e, h}) = 2
  BY TripleSize, PairSize
<1>3. IsFiniteSet(A1) /\ Cardinality(A1) = 9
  <2>1. IsFiniteSet(A1) /\ Cardinality(A1) = Cardinality(E) * Cardinality(E)
    <3> HIDE DEF E
    <3> QED BY <1>2, FS_Product
  <2> HIDE DEF A1, E
  <2> QED BY <1>2, <2>1
<1>4. IsFiniteSet(A2) /\ Cardinality(A2) = 3 * m
  BY <1>2, FS_Product
<1>5. IsFiniteSet(A3) /\ Cardinality(A3) = m
  BY DiagonalSize
<1>6. IsFiniteSet(A4) /\ Cardinality(A4) = m * 2
  BY <1>2, FS_Product
<1>7. IsFiniteSet(A5) /\ Cardinality(A5) = n
  <2>1. IsFiniteSet({a}) /\ Cardinality({a}) = 1
    BY FS_Singleton
  <2>2. IsFiniteSet(A5) /\ Cardinality(A5) = Cardinality({a}) * Cardinality(NA)
    BY <2>1, FS_Product
  <2> HIDE DEF A5
  <2> QED BY <1>1, <2>1, <2>2
<1>8. IsFiniteSet(A6) /\ Cardinality(A6) = 2 * n
  <2>1. IsFiniteSet({e}) /\ Cardinality({e}) = 1
    BY FS_Singleton
  <2>2. IsFiniteSet(NE \cup NA) /\ Cardinality(NE \cup NA) = n + n
    BY DisjointSum
  <2>3. IsFiniteSet(A6) /\ Cardinality(A6) = Cardinality({e}) * Cardinality(NE \cup NA)
    BY <2>1, <2>2, FS_Product
  <2> HIDE DEF A6
  <2> QED BY <1>1, <2>1, <2>2, <2>3
<1>9. IsFiniteSet(A7) /\ Cardinality(A7) = 2 * n
  <2>1. IsFiniteSet({h}) /\ Cardinality({h}) = 1
    BY FS_Singleton
  <2>2. IsFiniteSet(NH \cup NA) /\ Cardinality(NH \cup NA) = n + n
    BY DisjointSum
  <2>3. IsFiniteSet(A7) /\ Cardinality(A7) = Cardinality({h}) * Cardinality(NH \cup NA)
    BY <2>1, <2>2, FS_Product
  <2> HIDE DEF A7
  <2> QED BY <1>1, <2>1, <2>2, <2>3
<1> HIDE DEF m, n
<1>10. IsFiniteSet(A1 \cup A2) /\ Cardinality(A1 \cup A2) = 9 + 3 * m
  <2>1. \A p \in A1 : p \notin A2
    OBVIOUS
  <2> HIDE DEF A1, A2
  <2> QED BY <1>3, <1>4, <2>1, DisjointSum
<1>11. IsFiniteSet((A1 \cup A2) \cup A3) /\ Cardinality((A1 \cup A2) \cup A3) = 9 + 3 * m + m
  <2>1. \A p \in A1 \cup A2 : p \notin A3
    OBVIOUS
  <2> HIDE DEF A1, A2, A3
  <2> QED BY <1>5, <1>10, <2>1, DisjointSum
<1> DEFINE B == (A1 \cup A2) \cup A3
<1>12. IsFiniteSet(B \cup A4) /\ Cardinality(B \cup A4) = 9 + 3 * m + m + m * 2
  <2>1. \A p \in B : p \notin A4
    OBVIOUS
  <2>2. IsFiniteSet(B) /\ Cardinality(B) = 9 + 3 * m + m
    BY <1>11
  <2> HIDE DEF B, A4
  <2> QED BY <1>6, <2>1, <2>2, DisjointSum
<1>13. IsFiniteSet(A5 \cup A6) /\ Cardinality(A5 \cup A6) = n + 2 * n
  <2>1. \A p \in A5 : p \notin A6
    OBVIOUS
  <2> HIDE DEF A5, A6
  <2> QED BY <1>7, <1>8, <2>1, DisjointSum
<1> DEFINE C == A5 \cup A6
<1>14. IsFiniteSet(C \cup A7) /\ Cardinality(C \cup A7) = n + 2 * n + 2 * n
  <2>1. \A p \in C : p \notin A7
    OBVIOUS
  <2>2. IsFiniteSet(C) /\ Cardinality(C) = n + 2 * n
    BY <1>13
  <2> HIDE DEF C, A7
  <2>3. IsFiniteSet(C \cup A7) /\ Cardinality(C \cup A7) = Cardinality(C) + Cardinality(A7)
    BY <1>9, <2>1, <2>2, DisjointSum
  <2> QED BY <1>1, <1>9, <2>2, <2>3
<1> DEFINE F == B \cup A4
           G == C \cup A7
<1>15. \A p \in F : p \notin G
  <2>1. \A p \in F : p[2] \in L \/ p[2] \in {a, e, h}
    OBVIOUS
  <2>2. \A p \in G : p[2] \in NA \cup NE \cup NH
    OBVIOUS
  <2> HIDE DEF F, G
  <2> QED BY <2>1, <2>2
<1>16. IsFiniteSet(F) /\ Cardinality(F) = 9 + 3 * m + m + m * 2
  BY <1>12
<1>17. IsFiniteSet(G) /\ Cardinality(G) = n + 2 * n + 2 * n
  BY <1>14
<1>18. S = F \cup G
  BY DEF PointPlaces
<1> HIDE DEF F, G, S
<1>19. IsFiniteSet(S) /\ Cardinality(S) = (9 + 3 * m + m + m * 2) + (n + 2 * n + 2 * n)
  BY <1>15, <1>16, <1>17, <1>18, DisjointSum
<1>20. IsFiniteSet(S) /\ Cardinality(S) = 9 + 6 * m + 5 * n
  BY <1>1, <1>19
<1> QED BY <1>20 DEF m, n, S

PlaneLevelRows(g) == {PlaneRow(g[1], k, g[2]) : k \in 3 .. PlaneLevels - 1}
PlaneBehind(g, k) == {PlaneRow(h[1], k, h[2]) : h \in Plane!Neighbours(g[1], g[2])}
PlanePlaces(g) ==
  Plane!Own(g[1], g[2])
    \cup UNION {Plane!Coupled(g[1], g[2], h[1], h[2]) : h \in Plane!Neighbours(g[1], g[2])}

\* The rows' names.
LEMMA PlaneNames ==
  ASSUME PlaneSized, NEW g \in Plane!Grid(dev)
  PROVE  /\ Plane!Phi(g[1], g[2]) = PlaneRow(g[1], 0, g[2])
         /\ Plane!Je(g[1], g[2]) = PlaneRow(g[1], 1, g[2])
         /\ Plane!Jh(g[1], g[2]) = PlaneRow(g[1], 2, g[2])
         /\ Plane!TrapRows(g[1], g[2]) = PlaneLevelRows(g)
         /\ PlaneRowsOf(g) = {Plane!Phi(g[1], g[2]), Plane!Je(g[1], g[2]), Plane!Jh(g[1], g[2])}
                               \cup PlaneLevelRows(g)
<1>1. dev.ylen \in Nat /\ g[1] \in Nat /\ g[2] \in Nat /\ x_matrix_offset * g[1] \in Nat
  BY PlaneGrid, PlaneSizes, MulStep
<1>2. PICK o \in Nat : o = x_matrix_offset * g[1]
  BY <1>1
<1>3. dev.ylen * 0 = 0 /\ dev.ylen * 1 = dev.ylen /\ dev.ylen * 2 = 2 * dev.ylen
  BY <1>1
<1>4. PlaneRow(g[1], 0, g[2]) = o + g[2]
  BY <1>1, <1>2, <1>3 DEF PlaneRow
<1>5. PlaneRow(g[1], 1, g[2]) = o + dev.ylen + g[2]
  BY <1>1, <1>2, <1>3 DEF PlaneRow
<1>6. PlaneRow(g[1], 2, g[2]) = o + 2 * dev.ylen + g[2]
  BY <1>1, <1>2, <1>3 DEF PlaneRow
<1>7. /\ Plane!Phi(g[1], g[2]) = o + g[2]
      /\ Plane!Je(g[1], g[2]) = o + dev.ylen + g[2]
      /\ Plane!Jh(g[1], g[2]) = o + 2 * dev.ylen + g[2]
  BY <1>2 DEF Plane!Phi, Plane!Je, Plane!Jh
<1>8. Plane!TrapRows(g[1], g[2]) = PlaneLevelRows(g)
  <2>1. PlaneLevels = 3 + Plane!Bands(dev) /\ Plane!Bands(dev) \in Nat
    BY PlaneSizes DEF PlaneLevels
  <2>2. ASSUME NEW k \in 0 .. Plane!Bands(dev) - 1
        PROVE  3 + k \in 3 .. PlaneLevels - 1
    BY <2>1
  <2>3. ASSUME NEW k \in 3 .. PlaneLevels - 1
        PROVE  k - 3 \in 0 .. Plane!Bands(dev) - 1 /\ 3 + (k - 3) = k
    BY <2>1
  <2>4. Plane!TrapRows(g[1], g[2]) = {PlaneRow(g[1], 3 + k, g[2]) : k \in 0 .. Plane!Bands(dev) - 1}
    BY Zenon DEF Plane!TrapRows, PlaneRow
  <2>5. Plane!TrapRows(g[1], g[2]) \subseteq PlaneLevelRows(g)
    BY <2>2, <2>4, Zenon DEF PlaneLevelRows
  <2>6. ASSUME NEW w \in PlaneLevelRows(g) PROVE w \in Plane!TrapRows(g[1], g[2])
    <3>1. PICK k \in 3 .. PlaneLevels - 1 : w = PlaneRow(g[1], k, g[2])
      BY DEF PlaneLevelRows
    <3>2. w = PlaneRow(g[1], 3 + (k - 3), g[2]) /\ k - 3 \in 0 .. Plane!Bands(dev) - 1
      BY <2>3, <3>1, Zenon
    <3> QED BY <2>4, <3>2, Zenon
  <2> QED BY <2>5, <2>6
<1>9. 0 .. PlaneLevels - 1 = {0, 1, 2} \cup (3 .. PlaneLevels - 1)
  BY PlaneSizes
<1>10. /\ Plane!Phi(g[1], g[2]) = PlaneRow(g[1], 0, g[2])
       /\ Plane!Je(g[1], g[2]) = PlaneRow(g[1], 1, g[2])
       /\ Plane!Jh(g[1], g[2]) = PlaneRow(g[1], 2, g[2])
  BY <1>4, <1>5, <1>6, <1>7
<1>11. PlaneRowsOf(g) = {PlaneRow(g[1], 0, g[2]), PlaneRow(g[1], 1, g[2]), PlaneRow(g[1], 2, g[2])}
                          \cup PlaneLevelRows(g)
  BY <1>9, Zenon DEF PlaneRowsOf, PlaneLevelRows
<1> QED BY <1>8, <1>10, <1>11, Zenon

\* A point is not its own neighbour.
LEMMA PlaneNeighbours ==
  ASSUME PlaneSized, NEW g \in Plane!Grid(dev)
  PROVE  /\ Plane!Neighbours(g[1], g[2]) \subseteq Plane!Grid(dev)
         /\ g \notin Plane!Neighbours(g[1], g[2])
         /\ IsFiniteSet(Plane!Neighbours(g[1], g[2]))
<1>1. Plane!Neighbours(g[1], g[2]) \subseteq Plane!Grid(dev)
  BY DEF Plane!Neighbours
<1>2. g \notin Plane!Neighbours(g[1], g[2])
  BY PlaneGrid DEF Plane!Neighbours
<1>3. IsFiniteSet(Plane!Grid(dev))
  <2>1. IsFiniteSet(0 .. dev.xlen - 1) /\ IsFiniteSet(0 .. dev.ylen - 1)
    <3>1. 0 \in Int /\ dev.xlen - 1 \in Int /\ dev.ylen - 1 \in Int
      BY PlaneSizes
    <3> QED BY <3>1, FS_Interval
  <2> QED BY <2>1, FS_Product DEF Plane!Grid
<1> QED BY <1>1, <1>2, <1>3, FS_Subset

\* The rows of the levels, and of one kind of the neighbours' equations.
LEMMA PlaneRowCounts ==
  ASSUME PlaneSized, NEW g \in Plane!Grid(dev)
  PROVE  /\ IsFiniteSet(PlaneLevelRows(g)) /\ Cardinality(PlaneLevelRows(g)) = Plane!Bands(dev)
         /\ \A k \in 0 .. PlaneLevels - 1 :
              /\ IsFiniteSet(PlaneBehind(g, k))
              /\ Cardinality(PlaneBehind(g, k)) = Cardinality(Plane!Neighbours(g[1], g[2]))
<1>1. IsFiniteSet(PlaneLevelRows(g)) /\ Cardinality(PlaneLevelRows(g)) = Plane!Bands(dev)
  <2> DEFINE S == 3 .. PlaneLevels - 1
             f == [k \in S |-> PlaneRow(g[1], k, g[2])]
  <2>1. S \subseteq 0 .. PlaneLevels - 1
    BY PlaneSizes
  <2>2. \A k, l \in S : f[k] = f[l] => k = l
    BY <2>1, PlaneRowOnce
  <2>3. IsFiniteSet(S) /\ Cardinality(S) = Plane!Bands(dev)
    <3>1. 3 \in Int /\ PlaneLevels - 1 \in Int
      BY PlaneSizes
    <3>2. IsFiniteSet(S) /\ Cardinality(S) = IF 3 > PlaneLevels - 1 THEN 0 ELSE (PlaneLevels - 1) - 3 + 1
      BY <3>1, FS_Interval
    <3>3. PlaneLevels = 3 + Plane!Bands(dev) /\ Plane!Bands(dev) \in Nat
      BY PlaneSizes DEF PlaneLevels
    <3> HIDE DEF S
    <3> QED BY <3>2, <3>3
  <2>4. PlaneLevelRows(g) = {f[k] : k \in S}
    BY DEF PlaneLevelRows
  <2> HIDE DEF f, S
  <2> QED BY <2>2, <2>3, <2>4, ImageSize
<1>2. ASSUME NEW k \in 0 .. PlaneLevels - 1
      PROVE  /\ IsFiniteSet(PlaneBehind(g, k))
             /\ Cardinality(PlaneBehind(g, k)) = Cardinality(Plane!Neighbours(g[1], g[2]))
  <2> DEFINE S == Plane!Neighbours(g[1], g[2])
             f == [h \in S |-> PlaneRow(h[1], k, h[2])]
  <2>1. \A h, j \in S : f[h] = f[j] => h = j
    BY PlaneNeighbours, PlaneRowOnce
  <2>2. IsFiniteSet(S)
    BY PlaneNeighbours
  <2>3. PlaneBehind(g, k) = {f[h] : h \in S}
    BY DEF PlaneBehind
  <2> HIDE DEF f, S
  <2>4. IsFiniteSet(PlaneBehind(g, k)) /\ Cardinality(PlaneBehind(g, k)) = Cardinality(S)
    BY <2>1, <2>2, <2>3, ImageSize
  <2> QED BY <2>4 DEF S
<1> QED BY <1>1, <1>2

\* The places as a union of products.
LEMMA PlanePlacesShape ==
  ASSUME PlaneSized, NEW g \in Plane!Grid(dev), NEW a, NEW e, NEW h,
         a = PlaneRow(g[1], 0, g[2]), e = PlaneRow(g[1], 1, g[2]), h = PlaneRow(g[1], 2, g[2]),
         NEW L, L = PlaneLevelRows(g), NEW NA, NA = PlaneBehind(g, 0),
         NEW NE, NE = PlaneBehind(g, 1), NEW NH, NH = PlaneBehind(g, 2)
  PROVE  PlanePlaces(g) = PointPlaces(a, e, h, L, NA, NE, NH)
<1>1. /\ Plane!Phi(g[1], g[2]) = a /\ Plane!Je(g[1], g[2]) = e /\ Plane!Jh(g[1], g[2]) = h
      /\ Plane!TrapRows(g[1], g[2]) = L
  BY PlaneNames
<1>2. Plane!Own(g[1], g[2]) =
        ({a, e, h} \X {a, e, h}) \cup UNION {({t} \X {t, e, h}) \cup ({a, e, h} \X {t}) : t \in L}
  BY <1>1, Zenon DEF Plane!Own
<1>3. UNION {({t} \X {t, e, h}) \cup ({a, e, h} \X {t}) : t \in L}
        = (({a, e, h} \X L) \cup {<<t, t>> : t \in L}) \cup (L \X {e, h})
  OBVIOUS
<1>4. ASSUME NEW n \in Plane!Neighbours(g[1], g[2])
      PROVE  /\ Plane!Phi(n[1], n[2]) = PlaneRow(n[1], 0, n[2])
             /\ Plane!Je(n[1], n[2]) = PlaneRow(n[1], 1, n[2])
             /\ Plane!Jh(n[1], n[2]) = PlaneRow(n[1], 2, n[2])
  BY PlaneNeighbours, PlaneNames
<1>5. ASSUME NEW n \in Plane!Neighbours(g[1], g[2])
      PROVE  Plane!Coupled(g[1], g[2], n[1], n[2]) =
               {<<a, PlaneRow(n[1], 0, n[2])>>, <<e, PlaneRow(n[1], 1, n[2])>>,
                <<e, PlaneRow(n[1], 0, n[2])>>, <<h, PlaneRow(n[1], 2, n[2])>>,
                <<h, PlaneRow(n[1], 0, n[2])>>}
  BY <1>1, <1>4, Zenon DEF Plane!Coupled
<1> DEFINE U == UNION {Plane!Coupled(g[1], g[2], n[1], n[2]) : n \in Plane!Neighbours(g[1], g[2])}
           W == (({a} \X NA) \cup ({e} \X (NE \cup NA))) \cup ({h} \X (NH \cup NA))
<1>6. ASSUME NEW p \in U PROVE p \in W
  <2>1. PICK n \in Plane!Neighbours(g[1], g[2]) : p \in Plane!Coupled(g[1], g[2], n[1], n[2])
    BY <1>6
  <2>2. PlaneRow(n[1], 0, n[2]) \in NA /\ PlaneRow(n[1], 1, n[2]) \in NE /\ PlaneRow(n[1], 2, n[2]) \in NH
    BY DEF PlaneBehind
  <2> QED BY <1>5, <2>1, <2>2
<1>7. ASSUME NEW p \in W PROVE p \in U
  <2>1. \A n \in Plane!Neighbours(g[1], g[2]) : Plane!Coupled(g[1], g[2], n[1], n[2]) \subseteq U
    OBVIOUS
  <2>2. CASE p[1] = a /\ p[2] \in NA /\ p = <<p[1], p[2]>>
    BY <1>5, <2>1, <2>2 DEF PlaneBehind
  <2>3. CASE p[1] = e /\ p[2] \in NE /\ p = <<p[1], p[2]>>
    BY <1>5, <2>1, <2>3 DEF PlaneBehind
  <2>4. CASE p[1] = e /\ p[2] \in NA /\ p = <<p[1], p[2]>>
    BY <1>5, <2>1, <2>4 DEF PlaneBehind
  <2>5. CASE p[1] = h /\ p[2] \in NH /\ p = <<p[1], p[2]>>
    BY <1>5, <2>1, <2>5 DEF PlaneBehind
  <2>6. CASE p[1] = h /\ p[2] \in NA /\ p = <<p[1], p[2]>>
    BY <1>5, <2>1, <2>6 DEF PlaneBehind
  <2> QED BY <1>7, <2>2, <2>3, <2>4, <2>5, <2>6
<1>8. U = W
  BY <1>6, <1>7
<1>9. PlanePlaces(g) = Plane!Own(g[1], g[2]) \cup U
  BY DEF PlanePlaces
<1> HIDE DEF U
<1> QED BY <1>2, <1>3, <1>8, <1>9 DEF PointPlaces

\* A point's places: how many, in whose rows, and in which columns.
LEMMA PlanePlacesSize ==
  ASSUME PlaneSized, NEW g \in Plane!Grid(dev)
  PROVE  /\ IsFiniteSet(PlanePlaces(g))
         /\ Cardinality(PlanePlaces(g)) =
              Plane!OwnCount + 5 * Cardinality(Plane!Neighbours(g[1], g[2]))
         /\ \A p \in PlanePlaces(g) : p[1] \in PlaneRowsOf(g) /\ p[2] \in PlaneAllRows
<1>1. PICK a : a = PlaneRow(g[1], 0, g[2])
  OBVIOUS
<1>2. PICK e : e = PlaneRow(g[1], 1, g[2])
  OBVIOUS
<1>3. PICK h : h = PlaneRow(g[1], 2, g[2])
  OBVIOUS
<1>4. PICK L : L = PlaneLevelRows(g)
  OBVIOUS
<1>5. PICK NA : NA = PlaneBehind(g, 0)
  OBVIOUS
<1>6. PICK NE : NE = PlaneBehind(g, 1)
  OBVIOUS
<1>7. PICK NH : NH = PlaneBehind(g, 2)
  OBVIOUS
<1>8. /\ 0 \in 0 .. PlaneLevels - 1 /\ 1 \in 0 .. PlaneLevels - 1 /\ 2 \in 0 .. PlaneLevels - 1
      /\ 3 .. PlaneLevels - 1 \subseteq 0 .. PlaneLevels - 1
      /\ \A k \in 3 .. PlaneLevels - 1 : k # 0 /\ k # 1 /\ k # 2
  BY PlaneSizes
<1>9. a # e /\ a # h /\ e # h
  BY <1>1, <1>2, <1>3, <1>8, PlaneRowOnce
<1>10. \A t \in L : t \notin {a, e, h}
  BY <1>1, <1>2, <1>3, <1>4, <1>8, PlaneRowOnce DEF PlaneLevelRows
<1>11. \A t \in NA : t \notin NE /\ t \notin NH
  BY <1>5, <1>6, <1>7, <1>8, PlaneNeighbours, PlaneRowOnce DEF PlaneBehind
<1>12. \A t \in NA \cup NE \cup NH : t \notin L /\ t \notin {a, e, h}
  <2>1. ASSUME NEW j \in Plane!Neighbours(g[1], g[2]), NEW k \in 0 .. PlaneLevels - 1,
               NEW l \in 0 .. PlaneLevels - 1
        PROVE  PlaneRow(j[1], k, j[2]) # PlaneRow(g[1], l, g[2])
    BY PlaneNeighbours, PlaneRowOnce
  <2>2. ASSUME NEW j \in Plane!Neighbours(g[1], g[2]), NEW k \in 0 .. PlaneLevels - 1
        PROVE  PlaneRow(j[1], k, j[2]) \notin L /\ PlaneRow(j[1], k, j[2]) \notin {a, e, h}
    BY <2>1, <1>1, <1>2, <1>3, <1>4, <1>8 DEF PlaneLevelRows
  <2> QED BY <2>2, <1>5, <1>6, <1>7, <1>8 DEF PlaneBehind
<1>13. /\ IsFiniteSet(L) /\ Cardinality(L) = Plane!Bands(dev)
       /\ IsFiniteSet(NA) /\ IsFiniteSet(NE) /\ IsFiniteSet(NH)
       /\ Cardinality(NA) = Cardinality(Plane!Neighbours(g[1], g[2]))
       /\ Cardinality(NE) = Cardinality(NA) /\ Cardinality(NH) = Cardinality(NA)
  BY <1>4, <1>5, <1>6, <1>7, <1>8, PlaneRowCounts
<1>14. PICK S : S = PlanePlaces(g)
  OBVIOUS
<1>15. S = PointPlaces(a, e, h, L, NA, NE, NH)
  BY <1>1, <1>2, <1>3, <1>4, <1>5, <1>6, <1>7, <1>14, PlanePlacesShape
<1>16. IsFiniteSet(S) /\ Cardinality(S) = 9 + 6 * Cardinality(L) + 5 * Cardinality(NA)
  BY <1>9, <1>10, <1>11, <1>12, <1>13, <1>15, PlacesOfPoint
<1>17. PlaneRowsOf(g) = {a, e, h} \cup L
  BY <1>1, <1>2, <1>3, <1>4, PlaneNames
<1>18. PlaneRowsOf(g) \subseteq PlaneAllRows
  BY PlaneRowType DEF PlaneRowsOf
<1>19. NA \cup NE \cup NH \subseteq PlaneAllRows
  BY <1>5, <1>6, <1>7, <1>8, PlaneNeighbours, PlaneRowType DEF PlaneBehind
<1>20. \A p \in S : p[1] \in {a, e, h} \cup L /\ p[2] \in {a, e, h} \cup L \cup NA \cup NE \cup NH
  BY <1>15 DEF PointPlaces
<1> QED BY <1>13, <1>14, <1>16, <1>17, <1>18, <1>19, <1>20 DEF Plane!OwnCount

\* How many neighbours there are.
PlaneDegree(c, r) ==
  ((IF c = 0 THEN 0 ELSE 1) + (IF c = dev.xlen - 1 THEN 0 ELSE 1))
    + ((IF r = 0 THEN 0 ELSE 1) + (IF r = dev.ylen - 1 THEN 0 ELSE 1))

LEMMA OneOrNone ==
  ASSUME NEW Q \in BOOLEAN, NEW w
  PROVE  /\ IsFiniteSet(IF Q THEN {} ELSE {w})
         /\ Cardinality(IF Q THEN {} ELSE {w}) = IF Q THEN 0 ELSE 1
<1>1. CASE Q
  BY <1>1, FS_EmptySet
<1>2. CASE ~Q
  BY <1>2, FS_Singleton
<1> QED BY <1>1, <1>2

LEMMA PlaneDegrees ==
  ASSUME PlaneSized, NEW g \in Plane!Grid(dev)
  PROVE  Cardinality(Plane!Neighbours(g[1], g[2])) = PlaneDegree(g[1], g[2])
<1>1. PICK c, r : c = g[1] /\ r = g[2]
  OBVIOUS
<1>2. c \in Nat /\ c < dev.xlen /\ r \in Nat /\ r < dev.ylen /\ dev.xlen \in Nat /\ dev.ylen \in Nat
  BY <1>1, PlaneGrid, PlaneSizes
<1>3. PICK W : W = IF c = 0 THEN {} ELSE {<<c - 1, r>>}
  OBVIOUS
<1>4. PICK E : E = IF c = dev.xlen - 1 THEN {} ELSE {<<c + 1, r>>}
  OBVIOUS
<1>5. PICK S : S = IF r = 0 THEN {} ELSE {<<c, r - 1>>}
  OBVIOUS
<1>6. PICK N : N = IF r = dev.ylen - 1 THEN {} ELSE {<<c, r + 1>>}
  OBVIOUS
<1>7. Plane!Neighbours(c, r) = (W \cup E) \cup (S \cup N)
  <2>1. ASSUME NEW h \in Plane!Neighbours(c, r) PROVE h \in (W \cup E) \cup (S \cup N)
    <3>1. /\ h = <<h[1], h[2]>> /\ h[1] \in 0 .. dev.xlen - 1 /\ h[2] \in 0 .. dev.ylen - 1
          /\ (h[1] = c /\ h[2] \in {r - 1, r + 1}) \/ (h[2] = r /\ h[1] \in {c - 1, c + 1})
      BY DEF Plane!Neighbours, Plane!Grid
    <3>2. CASE h = <<c, r - 1>> /\ r # 0
      BY <3>2, <1>5
    <3>3. CASE h = <<c, r + 1>> /\ r # dev.ylen - 1
      BY <3>3, <1>6
    <3>4. CASE h = <<c - 1, r>> /\ c # 0
      BY <3>4, <1>3
    <3>5. CASE h = <<c + 1, r>> /\ c # dev.xlen - 1
      BY <3>5, <1>4
    <3> QED BY <1>2, <3>1, <3>2, <3>3, <3>4, <3>5
  <2>2. W \subseteq Plane!Neighbours(c, r)
    BY <1>2, <1>3 DEF Plane!Neighbours, Plane!Grid
  <2>3. E \subseteq Plane!Neighbours(c, r)
    BY <1>2, <1>4 DEF Plane!Neighbours, Plane!Grid
  <2>4. S \subseteq Plane!Neighbours(c, r)
    BY <1>2, <1>5 DEF Plane!Neighbours, Plane!Grid
  <2>5. N \subseteq Plane!Neighbours(c, r)
    BY <1>2, <1>6 DEF Plane!Neighbours, Plane!Grid
  <2> QED BY <2>1, <2>2, <2>3, <2>4, <2>5
<1>8. /\ IsFiniteSet(W) /\ Cardinality(W) = IF c = 0 THEN 0 ELSE 1
      /\ IsFiniteSet(E) /\ Cardinality(E) = IF c = dev.xlen - 1 THEN 0 ELSE 1
      /\ IsFiniteSet(S) /\ Cardinality(S) = IF r = 0 THEN 0 ELSE 1
      /\ IsFiniteSet(N) /\ Cardinality(N) = IF r = dev.ylen - 1 THEN 0 ELSE 1
  BY <1>3, <1>4, <1>5, <1>6, OneOrNone
<1>9. \A h \in W : h[1] = c - 1
  BY <1>3
<1>10. \A h \in E : h[1] = c + 1
  BY <1>4
<1>11. \A h \in S : h[1] = c /\ h[2] = r - 1
  BY <1>5
<1>12. \A h \in N : h[1] = c /\ h[2] = r + 1
  BY <1>6
<1>13. IsFiniteSet(W \cup E) /\ Cardinality(W \cup E) = Cardinality(W) + Cardinality(E)
  <2>1. \A h \in W : h \notin E
    BY <1>2, <1>9, <1>10
  <2> QED BY <1>8, <2>1, DisjointSum
<1>14. IsFiniteSet(S \cup N) /\ Cardinality(S \cup N) = Cardinality(S) + Cardinality(N)
  <2>1. \A h \in S : h \notin N
    BY <1>2, <1>11, <1>12
  <2> QED BY <1>8, <2>1, DisjointSum
<1>15. Cardinality((W \cup E) \cup (S \cup N)) = Cardinality(W \cup E) + Cardinality(S \cup N)
  <2>1. \A h \in W \cup E : h \notin S \cup N
    BY <1>2, <1>9, <1>10, <1>11, <1>12
  <2> QED BY <1>13, <1>14, <2>1, DisjointSum
<1>16. Cardinality(Plane!Neighbours(c, r)) = PlaneDegree(c, r)
  BY <1>7, <1>8, <1>13, <1>14, <1>15 DEF PlaneDegree
<1> QED BY <1>1, <1>16

\* How many places the points before one have.
PlaneBehindColumns(c) == IF c = 0 THEN 0 ELSE IF c = dev.xlen THEN 2 * dev.xlen - 2 ELSE 2 * c - 1
PlaneSides(c) == (IF c = 0 THEN 0 ELSE 1) + (IF c = dev.xlen - 1 THEN 0 ELSE 1)
PlaneBefore(c, r) ==
  (c * dev.ylen + r) * Plane!OwnCount
    + 5 * (c * (2 * (dev.ylen - 1)) + (IF r = 0 THEN 0 ELSE 2 * r - 1)
             + PlaneBehindColumns(c) * dev.ylen + PlaneSides(c) * r)

LEMMA PlaneBeforeStart ==
  ASSUME dev \in Plane!Meshed, dev.srh_bands \in Nat
  PROVE  PlaneBefore(0, 0) = 0
<1>1. dev.ylen \in Nat /\ Plane!OwnCount \in Nat
  BY PlaneMeshHasPoints DEF Plane!OwnCount, Plane!Bands
<1>2. PlaneBehindColumns(0) = 0 /\ PlaneSides(0) \in Nat
  BY DEF PlaneBehindColumns, PlaneSides
<1>3. \A k \in Int : 0 * k = 0 /\ k * 0 = 0
  BY SMT
<1>4. 0 * dev.ylen = 0 /\ 0 * (2 * (dev.ylen - 1)) = 0 /\ PlaneSides(0) * 0 = 0 /\ 0 * Plane!OwnCount = 0
  <2>1. 2 * (dev.ylen - 1) \in Int
    BY <1>1
  <2> QED BY <1>1, <1>2, <1>3, <2>1
<1> QED BY <1>2, <1>4 DEF PlaneBefore

\* The next point of a column.
LEMMA PlaneBeforeUp ==
  ASSUME PlaneSized, NEW c \in Nat, c < dev.xlen, NEW r \in Nat, r < dev.ylen - 1
  PROVE  PlaneBefore(c, r + 1) = PlaneBefore(c, r) + (Plane!OwnCount + 5 * PlaneDegree(c, r))
<1>1. dev.ylen \in Nat /\ dev.xlen \in Nat /\ Plane!OwnCount \in Nat
  BY PlaneSizes DEF Plane!OwnCount
<1>2. PlaneBehindColumns(c) \in Nat /\ PlaneSides(c) \in Nat
  BY <1>1 DEF PlaneBehindColumns, PlaneSides
<1>3. PICK o : o = Plane!OwnCount
  OBVIOUS
<1>4. PICK w : w = PlaneSides(c)
  OBVIOUS
<1>5. PICK n : n = c * dev.ylen + r
  OBVIOUS
<1>6. n \in Nat
  BY <1>1, <1>5, MulStep
<1>7. PICK a : a = c * (2 * (dev.ylen - 1))
  OBVIOUS
<1>8. PICK s : s = PlaneBehindColumns(c) * dev.ylen
  OBVIOUS
<1>9. a \in Int /\ s \in Int
  <2>1. \A k, l \in Int : k * l \in Int
    BY SMT
  <2>2. 2 * (dev.ylen - 1) \in Int
    BY <1>1
  <2> QED BY <1>1, <1>2, <1>7, <1>8, <2>1, <2>2
<1>10. (n + 1) * o = n * o + o /\ n * o \in Nat
  BY <1>1, <1>3, <1>6, MulStep
<1>11. w * (r + 1) = w * r + w /\ w * r \in Nat
  <2>1. \A k, l \in Nat : l * (k + 1) = l * k + l /\ l * k \in Nat
    BY SMT
  <2> QED BY <1>2, <1>4, <2>1
<1>12. c * dev.ylen + (r + 1) = n + 1
  BY <1>1, <1>5, MulStep
<1>13. PlaneBefore(c, r) = n * o + 5 * (a + (IF r = 0 THEN 0 ELSE 2 * r - 1) + s + w * r)
  BY <1>3, <1>4, <1>5, <1>7, <1>8, Zenon DEF PlaneBefore
<1>14. PlaneBefore(c, r + 1) = (n + 1) * o + 5 * (a + (IF r + 1 = 0 THEN 0 ELSE 2 * (r + 1) - 1) + s + w * (r + 1))
  BY <1>3, <1>4, <1>7, <1>8, <1>12, Zenon DEF PlaneBefore
<1>15. PlaneDegree(c, r) = w + ((IF r = 0 THEN 0 ELSE 1) + 1)
  BY <1>1, <1>4 DEF PlaneDegree, PlaneSides
<1>16. PICK no \in Nat : no = n * o
  BY <1>10
<1>17. PICK wr \in Nat : wr = w * r
  BY <1>11
<1>18. PlaneBefore(c, r) = no + 5 * (a + (IF r = 0 THEN 0 ELSE 2 * r - 1) + s + wr)
  BY <1>13, <1>16, <1>17
<1>19. PlaneBefore(c, r + 1) = (no + o) + 5 * (a + (2 * (r + 1) - 1) + s + (wr + w))
  BY <1>10, <1>11, <1>14, <1>16, <1>17
<1>20. o \in Nat /\ w \in Nat
  BY <1>1, <1>2, <1>3, <1>4
<1> QED BY <1>3, <1>9, <1>15, <1>18, <1>19, <1>20

\* The first point of the next column.
LEMMA PlaneBeforeAcross ==
  ASSUME PlaneSized, NEW c \in Nat, c < dev.xlen
  PROVE  PlaneBefore(c + 1, 0) =
           PlaneBefore(c, dev.ylen - 1) + (Plane!OwnCount + 5 * PlaneDegree(c, dev.ylen - 1))
<1>1. /\ dev.ylen \in Nat /\ dev.ylen > 0 /\ dev.xlen \in Nat /\ dev.xlen > 1
      /\ Plane!OwnCount \in Nat
  BY PlaneSizes DEF Plane!OwnCount
<1>2. PICK r : r = dev.ylen - 1
  OBVIOUS
<1>3. r \in Nat /\ dev.ylen = r + 1
  BY <1>1, <1>2
<1>4. PICK w : w = PlaneSides(c)
  OBVIOUS
<1>5. PICK s : s = PlaneBehindColumns(c)
  OBVIOUS
<1>6. w \in Nat /\ s \in Nat /\ PlaneBehindColumns(c + 1) = s + w
  BY <1>1, <1>4, <1>5 DEF PlaneBehindColumns, PlaneSides
<1>7. PICK o : o = Plane!OwnCount
  OBVIOUS
<1>8. PICK cy \in Nat : cy = c * dev.ylen
  BY <1>1, MulStep
<1>9. (c + 1) * dev.ylen = cy + (r + 1)
  BY <1>1, <1>3, <1>8, MulStep
<1>10. PICK no \in Nat : no = (cy + r) * o
  BY <1>1, <1>3, <1>7, MulStep
<1>11. (cy + (r + 1)) * o = no + o
  <2>1. cy + r \in Nat /\ cy + (r + 1) = (cy + r) + 1
    BY <1>3
  <2> QED BY <1>1, <1>7, <1>10, <2>1, MulStep
<1>12. PICK a \in Nat : a = c * (2 * r)
  <2>1. 2 * r \in Nat
    BY <1>3
  <2> QED BY <2>1, MulStep
<1>13. (c + 1) * (2 * r) = a + 2 * r
  <2>1. 2 * r \in Nat
    BY <1>3
  <2> QED BY <1>12, <2>1, MulStep
<1>14. PICK sn \in Nat : sn = s * dev.ylen
  BY <1>1, <1>6, MulStep
<1>15. PICK wr \in Nat : wr = w * r
  BY <1>3, <1>6, MulStep
<1>16. (s + w) * dev.ylen = sn + (wr + w)
  <2>1. \A j, k, l \in Nat : (j + k) * l = j * l + k * l
    BY SMT
  <2>2. \A j, k \in Nat : k * (j + 1) = k * j + k
    BY SMT
  <2>3. (s + w) * dev.ylen = s * dev.ylen + w * dev.ylen
    BY <1>1, <1>6, <2>1
  <2>4. w * (r + 1) = w * r + w
    BY <1>3, <1>6, <2>2
  <2> QED BY <1>3, <1>14, <1>15, <2>3, <2>4
<1>17. PlaneBefore(c, r) = no + 5 * (a + (IF r = 0 THEN 0 ELSE 2 * r - 1) + sn + wr)
  BY <1>2, <1>4, <1>5, <1>7, <1>8, <1>10, <1>12, <1>14, <1>15, Zenon DEF PlaneBefore
<1>18. PlaneBefore(c + 1, 0) =
         ((cy + (r + 1)) + 0) * o + 5 * ((a + 2 * r) + 0 + (sn + (wr + w)) + PlaneSides(c + 1) * 0)
  BY <1>2, <1>6, <1>7, <1>9, <1>13, <1>16, Zenon DEF PlaneBefore
<1>19. (cy + (r + 1)) + 0 = cy + (r + 1)
  BY <1>3
<1>20. PlaneSides(c + 1) * 0 = 0
  <2>1. PlaneSides(c + 1) \in Nat
    BY DEF PlaneSides
  <2>2. \A k \in Nat : k * 0 = 0
    BY SMT
  <2> QED BY <2>1, <2>2
<1>21. PlaneBefore(c + 1, 0) = (no + o) + 5 * ((a + 2 * r) + 0 + (sn + (wr + w)) + 0)
  BY <1>11, <1>18, <1>19, <1>20
<1>22. PlaneDegree(c, r) = w + ((IF r = 0 THEN 0 ELSE 1) + 0)
  BY <1>2, <1>3, <1>4 DEF PlaneDegree, PlaneSides
<1>23. PlaneBefore(c + 1, 0) = PlaneBefore(c, r) + (o + 5 * PlaneDegree(c, r))
  BY <1>1, <1>3, <1>6, <1>7, <1>17, <1>21, <1>22
<1> QED BY <1>2, <1>7, <1>23

\* All of them together.
LEMMA PlaneBeforeAll ==
  ASSUME PlaneSized
  PROVE  PlaneBefore(dev.xlen, 0) = Plane!ColumnN(dev) * dev.xlen + Plane!Across(dev)
<1>1. PICK n : n = dev.ylen
  OBVIOUS
<1>2. PICK k : k = dev.xlen
  OBVIOUS
<1>3. PICK B : B = Plane!Bands(dev)
  OBVIOUS
<1>4. n \in Nat /\ n > 0 /\ k \in Nat /\ k > 1 /\ B \in Nat
  BY <1>1, <1>2, <1>3, PlaneSizes
<1>5. PlaneBehindColumns(k) = 2 * k - 2
  BY <1>2, <1>4 DEF PlaneBehindColumns
<1>6. PlaneSides(k) * 0 = 0
  <2>1. PlaneSides(k) \in Nat
    BY DEF PlaneSides
  <2>2. \A l \in Nat : l * 0 = 0
    BY SMT
  <2> QED BY <2>1, <2>2
<1>7. PlaneBefore(k, 0) = (k * n + 0) * (9 + 6 * B) + 5 * (k * (2 * (n - 1)) + 0 + (2 * k - 2) * n + PlaneSides(k) * 0)
  BY <1>1, <1>3, <1>5, Zenon DEF PlaneBefore, Plane!OwnCount
<1>8. PICK kn \in Nat : kn = k * n
  BY <1>4, MulStep
<1>9. PICK knB \in Nat : knB = kn * B
  BY <1>4, MulStep
<1>10. (kn + 0) * (9 + 6 * B) = 9 * kn + 6 * knB
  <2>1. \A p, q \in Nat : (p + 0) * (9 + 6 * q) = 9 * p + 6 * (p * q)
    BY SMT
  <2> QED BY <1>4, <1>9, <2>1
<1>11. k * (2 * (n - 1)) = 2 * kn - 2 * k
  <2>1. \A p, q \in Nat : p * (2 * (q - 1)) = 2 * (p * q) - 2 * p
    BY SMT
  <2> QED BY <1>4, <1>8, <2>1
<1>12. (2 * k - 2) * n = 2 * kn - 2 * n
  <2>1. \A p, q \in Nat : (2 * p - 2) * q = 2 * (p * q) - 2 * q
    BY SMT
  <2> QED BY <1>4, <1>8, <2>1
<1>13. PlaneBefore(k, 0) = (9 * kn + 6 * knB) + 5 * ((2 * kn - 2 * k) + 0 + (2 * kn - 2 * n) + 0)
  BY <1>6, <1>7, <1>8, <1>10, <1>11, <1>12
<1>14. Plane!ColumnN(dev) = 5 * (3 * n - 2) + 4 * n + 6 * n * B
  BY <1>1, <1>3 DEF Plane!ColumnN
<1>15. PICK nB \in Nat : nB = n * B
  BY <1>4, MulStep
<1>16. 6 * n * B = 6 * nB
  <2>1. \A p, q \in Nat : 6 * p * q = 6 * (p * q)
    BY SMT
  <2> QED BY <1>4, <1>15, <2>1
<1>17. Plane!ColumnN(dev) = 19 * n - 10 + 6 * nB
  BY <1>4, <1>14, <1>16
<1>18. nB * k = knB
  <2>1. \A p, q, l \in Nat : (p * q) * l = (l * p) * q
    BY SMT
  <2> QED BY <1>4, <1>8, <1>9, <1>15, <2>1
<1>19. Plane!ColumnN(dev) * k = 19 * kn - 10 * k + 6 * knB
  <2>1. \A p, q, l \in Nat : (19 * p - 10 + 6 * q) * l = 19 * (l * p) - 10 * l + 6 * (q * l)
    BY SMT
  <2> QED BY <1>4, <1>8, <1>17, <1>18, <2>1
<1>20. Plane!Across(dev) = 5 * n * (2 * k - 2)
  BY <1>1, <1>2 DEF Plane!Across
<1>21. 5 * n * (2 * k - 2) = 10 * kn - 10 * n
  <2>1. \A p, q \in Nat : 5 * p * (2 * q - 2) = 10 * (q * p) - 10 * p
    BY SMT
  <2> QED BY <1>4, <1>8, <2>1
<1> QED BY <1>2, <1>4, <1>13, <1>19, <1>20, <1>21

(* What the fill of the plane has written. *)
PlaneFilled(g) == Plane!Done(g) \/ (g = <<px, py>> /\ pc = "rhs")
PlaneDoneRows == UNION {PlaneRowsOf(g) : g \in {h \in Plane!Grid(dev) : Plane!Done(h)}}
PlaneAllocInv ==
  pc # "realloc" =>
    /\ x_matrix_offset = Plane!ColumnM(dev)
    /\ nz = Plane!ColumnN(dev) * dev.xlen + Plane!Across(dev)
    /\ M = Plane!ColumnM(dev) * dev.xlen
PlaneSizeInv ==
  /\ IsFiniteSet(T) /\ Cardinality(T) = pos
  /\ pos = IF pc = "rhs" THEN PlaneBefore(px, py) + (Plane!OwnCount + 5 * PlaneDegree(px, py))
                          ELSE PlaneBefore(px, py)
PlaneTripletsInv ==
  \A e \in T : /\ e[2] \in PlaneAllRows
               /\ \E g \in Plane!Grid(dev) : PlaneFilled(g) /\ e[1] \in PlaneRowsOf(g)
PlaneCountInv ==
  /\ dev.srh_bands \in Nat
  /\ pc = "realloc" => T = {} /\ pos = 0
  /\ pc = "filled" => px = dev.xlen /\ py = 0
  /\ PlaneAllocInv
  /\ pc # "realloc" => PlaneSizeInv /\ PlaneTripletsInv
  /\ DOMAIN b = PlaneDoneRows

\* Before the first point nothing is done.
LEMMA PlaneNoneDone ==
  ASSUME PlaneInv, px = 0, py = 0
  PROVE  \A g \in Plane!Grid(dev) : ~Plane!Done(g)
BY PlaneMeshHasPoints DEF Plane!Done, Plane!Grid, PlaneInv, PlaneWhere

LEMMA PlaneNoRows ==
  ASSUME PlaneInv, px = 0, py = 0
  PROVE  PlaneDoneRows = {}
BY PlaneNoneDone DEF PlaneDoneRows

LEMMA PlaneSizedNow ==
  ASSUME PlaneInv, PlaneCountInv, pc # "realloc"
  PROVE  PlaneSized
BY DEF PlaneInv, PlaneWhere, PlaneCountInv, PlaneAllocInv, PlaneSized

LEMMA PlaneCountInit ==
  ASSUME Plane!Init, \A d \in PlaneDevices : d.srh_bands \in Nat
  PROVE  PlaneCountInv
<1>1. PlaneInv
  BY PlaneInitInv
<1>2. pc = "realloc" /\ T = {} /\ pos = 0 /\ b = <<>> /\ px = 0 /\ py = 0
  BY DEF Plane!Init
<1>3. dev.srh_bands \in Nat
  BY DEF Plane!Init, Plane!Meshed
<1>4. DOMAIN b = {}
  BY <1>2
<1>5. PlaneDoneRows = {}
  BY <1>1, <1>2, PlaneNoRows
<1> QED BY <1>2, <1>3, <1>4, <1>5 DEF PlaneCountInv, PlaneAllocInv

\* Allocation and a new solution: nothing is written yet.
LEMMA PlaneCountFresh ==
  ASSUME PlaneInv', PlaneCountInv, pc' = "y", px' = 0, py' = 0, T' = {}, pos' = 0,
         DOMAIN b' = {}, dev' = dev, PlaneAllocInv'
  PROVE  PlaneCountInv'
<1>1. dev.srh_bands \in Nat
  BY DEF PlaneCountInv
<1>2. dev' \in Plane!Meshed
  BY DEF PlaneInv, PlaneWhere
<1>3. PlaneBefore(0, 0) = 0
  BY <1>1, <1>2, PlaneBeforeStart
<1>4. PlaneBefore(0, 0)' = 0
  BY <1>3 DEF PlaneBefore, PlaneBehindColumns, PlaneSides, Plane!OwnCount, Plane!Bands
<1>5. PlaneDoneRows' = {}
  <2>1. \A g \in Plane!Grid(dev)' : ~Plane!Done(g)'
    BY <1>2, PlaneMeshHasPoints DEF Plane!Done, Plane!Grid
  <2> QED BY <2>1 DEF PlaneDoneRows
<1>6. IsFiniteSet({}) /\ Cardinality({}) = 0
  BY FS_EmptySet
<1>7. PlaneSizeInv'
  <2>1. PlaneBefore(px, py)' = 0
    BY <1>4 DEF PlaneBefore
  <2> QED BY <1>6, <2>1 DEF PlaneSizeInv
<1>8. PlaneTripletsInv'
  BY DEF PlaneTripletsInv
<1> QED BY <1>1, <1>5, <1>7, <1>8 DEF PlaneCountInv

LEMMA PlaneCountRealloc == PlaneInv /\ PlaneCountInv /\ Plane!Realloc => PlaneCountInv'
<1> SUFFICES ASSUME PlaneInv, PlaneCountInv, Plane!Realloc PROVE PlaneCountInv'
  OBVIOUS
<1>1. PlaneInv'
  BY PlaneOtherInv
<1>2. pc = "realloc" /\ pc' = "y" /\ UNCHANGED <<dev, T, pos, b, px, py>>
  BY DEF Plane!Realloc
<1>3. px = 0 /\ py = 0 /\ T = {} /\ pos = 0
  BY <1>2 DEF PlaneInv, PlaneWhere, PlaneCountInv
<1>4. DOMAIN b = {}
  BY <1>3, PlaneNoRows DEF PlaneCountInv
<1>5. PlaneAllocInv'
  BY <1>2 DEF Plane!Realloc, PlaneAllocInv, Plane!ColumnM, Plane!ColumnN, Plane!Across, Plane!Bands
<1> QED BY <1>1, <1>2, <1>3, <1>4, <1>5, PlaneCountFresh

LEMMA PlaneCountUpdate == PlaneInv /\ PlaneCountInv /\ Plane!Update => PlaneCountInv'
<1> SUFFICES ASSUME PlaneInv, PlaneCountInv, Plane!Update PROVE PlaneCountInv'
  OBVIOUS
<1>1. PlaneInv'
  BY PlaneOtherInv
<1>2. /\ pc = "filled" /\ pc' = "y" /\ T' = {} /\ pos' = 0 /\ b' = <<>> /\ px' = 0 /\ py' = 0
      /\ UNCHANGED <<dev, nz, M, x_matrix_offset>>
  BY DEF Plane!Update
<1>3. DOMAIN b' = {}
  BY <1>2
<1>4. PlaneAllocInv'
  BY <1>2 DEF PlaneCountInv, PlaneAllocInv, Plane!ColumnM, Plane!ColumnN, Plane!Across, Plane!Bands
<1> QED BY <1>1, <1>2, <1>3, <1>4, PlaneCountFresh

\* The fluxes write none of this.
LEMMA PlaneCountIdle ==
  PlaneInv /\ PlaneCountInv /\ (Plane!YFluxes \/ Plane!XFluxes \/ UNCHANGED Plane!vars) => PlaneCountInv'
<1> SUFFICES ASSUME PlaneInv, PlaneCountInv, Plane!YFluxes \/ Plane!XFluxes \/ UNCHANGED Plane!vars
             PROVE  PlaneCountInv'
  OBVIOUS
<1>1. /\ UNCHANGED <<dev, nz, M, x_matrix_offset, T, pos, b, px, py>>
      /\ (pc = "realloc") = (pc' = "realloc") /\ (pc = "filled") = (pc' = "filled")
      /\ (pc = "rhs") = (pc' = "rhs")
  BY DEF Plane!YFluxes, Plane!XFluxes, Plane!vars
<1>2. PlaneAllocInv' = PlaneAllocInv
  BY <1>1 DEF PlaneAllocInv, Plane!ColumnM, Plane!ColumnN, Plane!Across, Plane!Bands
<1>3. PlaneSizeInv' = PlaneSizeInv
  BY <1>1 DEF PlaneSizeInv, PlaneBefore, PlaneDegree, PlaneBehindColumns, PlaneSides,
     Plane!OwnCount, Plane!Bands
<1>4. PlaneDoneRows' = PlaneDoneRows
  BY <1>1 DEF PlaneDoneRows, PlaneRowsOf, PlaneRow, PlaneLevels, Plane!Bands, Plane!Grid, Plane!Done
<1>5. PlaneTripletsInv' = PlaneTripletsInv
  <2>1. \A g : PlaneFilled(g)' <=> PlaneFilled(g)
    BY <1>1 DEF PlaneFilled, Plane!Done
  <2>2. \A g : PlaneRowsOf(g)' = PlaneRowsOf(g)
    BY <1>1 DEF PlaneRowsOf, PlaneRow, PlaneLevels, Plane!Bands
  <2>3. PlaneAllRows' = PlaneAllRows /\ Plane!Grid(dev)' = Plane!Grid(dev) /\ T' = T
    BY <1>1 DEF PlaneAllRows, Plane!Grid
  <2> QED BY <2>1, <2>2, <2>3 DEF PlaneTripletsInv
<1> QED BY <1>1, <1>2, <1>3, <1>4, <1>5 DEF PlaneCountInv

\* The places of one point.
LEMMA PlaneCountEntries == PlaneInv /\ PlaneCountInv /\ Plane!Entries => PlaneCountInv'
<1> SUFFICES ASSUME PlaneInv, PlaneCountInv, Plane!Entries PROVE PlaneCountInv'
  OBVIOUS
<1>1. /\ pc = "entries" /\ pc' = "rhs" /\ px < dev.xlen
      /\ UNCHANGED <<dev, nz, M, x_matrix_offset, b, px, py>>
  BY DEF PlaneInv, PlaneWhere, PlaneWorking, Plane!Entries
<1>2. PlaneSized
  BY <1>1, PlaneSizedNow
<1>3. PICK g \in Plane!Grid(dev) : g = <<px, py>>
  BY <1>1, PlaneHere
<1>4. g[1] = px /\ g[2] = py /\ ~Plane!Done(g)
  BY <1>1, <1>3, PlaneHere
<1>5. PlaneSizeInv /\ PlaneTripletsInv
  BY <1>1 DEF PlaneCountInv
<1>6. T' = T \cup PlanePlaces(g)
  BY <1>4, Zenon DEF Plane!Entries, PlanePlaces
<1>7. pos' = pos + Plane!OwnCount + 5 * PlaneDegree(px, py)
  <2>1. pos' = pos + Plane!OwnCount + 5 * Cardinality(Plane!Neighbours(px, py))
    BY DEF Plane!Entries, Plane!Cardinality, Cardinality
  <2> QED BY <1>2, <1>4, <2>1, PlaneDegrees
<1>8. /\ IsFiniteSet(PlanePlaces(g))
      /\ Cardinality(PlanePlaces(g)) = Plane!OwnCount + 5 * PlaneDegree(px, py)
      /\ \A e \in PlanePlaces(g) : e[1] \in PlaneRowsOf(g) /\ e[2] \in PlaneAllRows
  BY <1>2, <1>4, PlanePlacesSize, PlaneDegrees
<1>9. \A e \in T : e \notin PlanePlaces(g)
  <2> SUFFICES ASSUME NEW e \in T, e \in PlanePlaces(g) PROVE FALSE
    OBVIOUS
  <2>1. PICK h \in Plane!Grid(dev) : PlaneFilled(h) /\ e[1] \in PlaneRowsOf(h)
    BY <1>5 DEF PlaneTripletsInv
  <2>2. h # g
    BY <1>1, <1>4, <2>1 DEF PlaneFilled
  <2>3. PICK k \in 0 .. PlaneLevels - 1 : e[1] = PlaneRow(h[1], k, h[2])
    BY <2>1 DEF PlaneRowsOf
  <2>4. PICK l \in 0 .. PlaneLevels - 1 : e[1] = PlaneRow(g[1], l, g[2])
    BY <1>8 DEF PlaneRowsOf
  <2> QED BY <1>2, <2>2, <2>3, <2>4, PlaneRowOnce
<1>10. IsFiniteSet(T') /\ Cardinality(T') = Cardinality(T) + Cardinality(PlanePlaces(g))
  BY <1>5, <1>6, <1>8, <1>9, DisjointSum DEF PlaneSizeInv
<1>11. /\ PlaneBefore(px, py)' = PlaneBefore(px, py) /\ PlaneDegree(px, py)' = PlaneDegree(px, py)
       /\ Plane!OwnCount' = Plane!OwnCount
  BY <1>1 DEF PlaneBefore, PlaneDegree, PlaneBehindColumns, PlaneSides, Plane!OwnCount, Plane!Bands
<1>12. PlaneSizeInv'
  <2>1. pos = PlaneBefore(px, py) /\ Cardinality(T) = pos
    BY <1>1, <1>5 DEF PlaneSizeInv
  <2>2. pos \in Nat
    BY <1>5, <2>1, FS_CardinalityType DEF PlaneSizeInv
  <2>3. Plane!OwnCount \in Nat /\ PlaneDegree(px, py) \in Nat
    BY <1>2, PlaneSizes DEF Plane!OwnCount, PlaneDegree
  <2>4. Cardinality(T') = pos'
    BY <1>7, <1>8, <1>10, <2>1, <2>2, <2>3
  <2>5. pos' = PlaneBefore(px, py)' + (Plane!OwnCount + 5 * PlaneDegree(px, py))'
    BY <1>7, <1>11, <2>1, <2>2, <2>3
  <2> QED BY <1>1, <1>10, <2>4, <2>5 DEF PlaneSizeInv
<1>13. \A h : PlaneRowsOf(h)' = PlaneRowsOf(h)
  BY <1>1 DEF PlaneRowsOf, PlaneRow, PlaneLevels, Plane!Bands
<1>14. \A h : (Plane!Done(h)' <=> Plane!Done(h))
  BY <1>1 DEF Plane!Done
<1>15. PlaneAllRows' = PlaneAllRows /\ Plane!Grid(dev)' = Plane!Grid(dev)
  BY <1>1 DEF PlaneAllRows, Plane!Grid
<1>16. PlaneTripletsInv'
  <2> SUFFICES ASSUME NEW e \in T'
               PROVE  /\ e[2] \in PlaneAllRows
                      /\ \E h \in Plane!Grid(dev) : PlaneFilled(h)' /\ e[1] \in PlaneRowsOf(h)
    BY <1>13, <1>15 DEF PlaneTripletsInv
  <2>1. CASE e \in T
    <3>1. PICK h \in Plane!Grid(dev) : PlaneFilled(h) /\ e[1] \in PlaneRowsOf(h)
      BY <1>5, <2>1 DEF PlaneTripletsInv
    <3>2. PlaneFilled(h)'
      BY <1>1, <1>14, <3>1 DEF PlaneFilled
    <3> QED BY <1>5, <2>1, <3>1, <3>2 DEF PlaneTripletsInv
  <2>2. CASE e \in PlanePlaces(g)
    <3>1. PlaneFilled(g)'
      BY <1>1, <1>3 DEF PlaneFilled
    <3> QED BY <1>8, <2>2, <3>1
  <2> QED BY <1>6, <2>1, <2>2
<1>17. PlaneDoneRows' = PlaneDoneRows
  BY <1>13, <1>14, <1>15 DEF PlaneDoneRows
<1>18. PlaneAllocInv'
  BY <1>1 DEF PlaneCountInv, PlaneAllocInv, Plane!ColumnM, Plane!ColumnN, Plane!Across, Plane!Bands
<1> QED BY <1>1, <1>12, <1>16, <1>17, <1>18 DEF PlaneCountInv

\* The right hand sides of a point, and on to the next one.
LEMMA PlaneCountRhs == PlaneInv /\ PlaneCountInv /\ Plane!Rhs => PlaneCountInv'
<1> SUFFICES ASSUME PlaneInv, PlaneCountInv, Plane!Rhs PROVE PlaneCountInv'
  OBVIOUS
<1>1. /\ pc = "rhs" /\ px < dev.xlen
      /\ UNCHANGED <<dev, nz, M, x_matrix_offset, T, pos>>
  BY DEF PlaneInv, PlaneWhere, PlaneWorking, Plane!Rhs
<1>2. PlaneSized
  BY <1>1, PlaneSizedNow
<1>3. PICK g \in Plane!Grid(dev) : g = <<px, py>>
  BY <1>1, PlaneHere
<1>4. /\ g[1] = px /\ g[2] = py
      /\ px \in Nat /\ py \in Nat /\ py < dev.ylen /\ dev.xlen \in Nat /\ dev.ylen \in Nat
  BY <1>2, <1>3, PlaneGrid, PlaneSizes
<1>5. PlaneSizeInv /\ PlaneTripletsInv
  BY <1>1 DEF PlaneCountInv
<1>6. \/ py < dev.ylen - 1 /\ py' = py + 1 /\ px' = px /\ pc' = "y"
      \/ py = dev.ylen - 1 /\ py' = 0 /\ px' = px + 1 /\ pc' = IF px = dev.xlen - 1 THEN "filled" ELSE "y"
  BY <1>4 DEF Plane!Rhs
<1>7. pc' \in {"y", "filled"} /\ (pc' = "filled" => px' = dev.xlen /\ py' = 0)
  BY <1>4, <1>6
<1>8. \A h \in Plane!Grid(dev) : (Plane!Done(h)' <=> Plane!Done(h) \/ h = g)
  <2> SUFFICES ASSUME NEW h \in Plane!Grid(dev) PROVE Plane!Done(h)' <=> Plane!Done(h) \/ h = g
    OBVIOUS
  <2>1. h = <<h[1], h[2]>> /\ h[1] \in Nat /\ h[2] \in Nat /\ h[2] < dev.ylen
    BY <1>2, PlaneGrid
  <2>2. h = g <=> h[1] = px /\ h[2] = py
    BY <1>3, <2>1
  <2> QED BY <1>4, <1>6, <2>1, <2>2 DEF Plane!Done
<1>9. \A h : PlaneRowsOf(h)' = PlaneRowsOf(h)
  BY <1>1 DEF PlaneRowsOf, PlaneRow, PlaneLevels, Plane!Bands
<1>10. PlaneAllRows' = PlaneAllRows /\ Plane!Grid(dev)' = Plane!Grid(dev)
  BY <1>1 DEF PlaneAllRows, Plane!Grid
<1>11. PlaneAllocInv'
  BY <1>1 DEF PlaneCountInv, PlaneAllocInv, Plane!ColumnM, Plane!ColumnN, Plane!Across, Plane!Bands
<1>12. PlaneTripletsInv'
  <2> SUFFICES ASSUME NEW e \in T
               PROVE  /\ e[2] \in PlaneAllRows
                      /\ \E h \in Plane!Grid(dev) : PlaneFilled(h)' /\ e[1] \in PlaneRowsOf(h)
    BY <1>1, <1>9, <1>10 DEF PlaneTripletsInv
  <2>1. PICK h \in Plane!Grid(dev) : PlaneFilled(h) /\ e[1] \in PlaneRowsOf(h)
    BY <1>5 DEF PlaneTripletsInv
  <2>2. PlaneFilled(h)'
    BY <1>3, <1>8, <2>1 DEF PlaneFilled
  <2> QED BY <1>5, <2>1, <2>2 DEF PlaneTripletsInv
<1>13. PlaneDoneRows' = PlaneDoneRows \cup PlaneRowsOf(g)
  <2>1. PlaneDoneRows' = UNION {PlaneRowsOf(h) : h \in {k \in Plane!Grid(dev) : Plane!Done(k)'}}
    BY <1>9, <1>10 DEF PlaneDoneRows
  <2>2. {k \in Plane!Grid(dev) : Plane!Done(k)'} = {k \in Plane!Grid(dev) : Plane!Done(k)} \cup {g}
    BY <1>8
  <2> QED BY <2>1, <2>2 DEF PlaneDoneRows
<1>14. DOMAIN b' = DOMAIN b \cup PlaneRowsOf(g)
  <2>1. DOMAIN b' = DOMAIN b \cup Plane!TrapRows(g[1], g[2])
                      \cup {Plane!Phi(g[1], g[2]), Plane!Je(g[1], g[2]), Plane!Jh(g[1], g[2])}
    BY <1>4 DEF Plane!Rhs
  <2> QED BY <1>2, <2>1, PlaneNames
<1>15. PlaneBefore(px', py') = PlaneBefore(px, py) + (Plane!OwnCount + 5 * PlaneDegree(px, py))
  <2>1. CASE py < dev.ylen - 1
    BY <1>1, <1>2, <1>4, <1>6, <2>1, PlaneBeforeUp
  <2>2. CASE py = dev.ylen - 1
    <3>1. px' = px + 1 /\ py' = 0
      BY <1>4, <1>6, <2>2
    <3> QED BY <1>1, <1>2, <1>4, <2>2, <3>1, PlaneBeforeAcross
  <2> QED BY <1>4, <1>6, <2>1, <2>2
<1>16. PlaneBefore(px, py)' = PlaneBefore(px', py')
  BY <1>1 DEF PlaneBefore, PlaneBehindColumns, PlaneSides, Plane!OwnCount, Plane!Bands
<1>17. PlaneSizeInv'
  <2>1. pos = PlaneBefore(px, py) + (Plane!OwnCount + 5 * PlaneDegree(px, py))
    BY <1>1, <1>5 DEF PlaneSizeInv
  <2>2. pos \in Nat
    BY <1>5, FS_CardinalityType DEF PlaneSizeInv
  <2>3. pos' = PlaneBefore(px, py)'
    BY <1>1, <1>15, <1>16, <2>1, <2>2
  <2> QED BY <1>1, <1>5, <1>7, <2>3 DEF PlaneSizeInv
<1>18. (dev.srh_bands)' \in Nat /\ pc' # "realloc" /\ (pc' = "filled" => px' = dev'.xlen /\ py' = 0)
  BY <1>1, <1>7 DEF PlaneCountInv
<1>19. DOMAIN b' = PlaneDoneRows'
  BY <1>13, <1>14 DEF PlaneCountInv
<1> QED BY <1>11, <1>12, <1>17, <1>18, <1>19 DEF PlaneCountInv

LEMMA PlaneCountStep == PlaneInv /\ PlaneCountInv /\ [Plane!Next]_Plane!vars => PlaneCountInv'
BY PlaneCountRealloc, PlaneCountIdle, PlaneCountEntries, PlaneCountRhs,
   PlaneCountUpdate DEF Plane!Next

\* Neither a place nor a row is missing or left over.
LEMMA PlaneNothingLeft == PlaneInv /\ PlaneCountInv => Plane!ExactFit2d
<1> SUFFICES ASSUME PlaneInv, PlaneCountInv, pc = "filled"
             PROVE  /\ pos = nz /\ Cardinality(T) = nz
                    /\ \A e \in T : e[1] \in 0 .. M - 1 /\ e[2] \in 0 .. M - 1
                    /\ DOMAIN b = 0 .. M - 1 /\ Plane!ErrorRows = DOMAIN b
  BY DEF Plane!ExactFit2d, Plane!Cardinality, Cardinality
<1>1. PlaneSized
  BY PlaneSizedNow
<1>2. px = dev.xlen /\ py = 0 /\ PlaneAllocInv /\ PlaneSizeInv /\ PlaneTripletsInv
  BY DEF PlaneCountInv
<1>3. M = x_matrix_offset * dev.xlen /\ 0 .. M - 1 = PlaneAllRows
  BY <1>2 DEF PlaneAllocInv, PlaneAllRows
<1>4. pos = nz /\ Cardinality(T) = nz
  <2>1. pos = PlaneBefore(dev.xlen, 0) /\ Cardinality(T) = pos
    BY <1>2 DEF PlaneSizeInv
  <2>2. pos \in Nat
    BY <1>2, FS_CardinalityType DEF PlaneSizeInv
  <2>3. PlaneBefore(dev.xlen, 0) = nz
    BY <1>1, <1>2, PlaneBeforeAll DEF PlaneAllocInv
  <2>4. nz \in Int
    <3>1. dev.xlen \in Nat /\ dev.ylen \in Nat /\ Plane!Bands(dev) \in Nat
      BY <1>1, PlaneSizes
    <3>2. \A p, q \in Int : p * q \in Int
      BY SMT
    <3>3. Plane!ColumnN(dev) \in Int /\ Plane!Across(dev) \in Int
      BY <3>1, <3>2 DEF Plane!ColumnN, Plane!Across
    <3> QED BY <1>2, <3>1, <3>2, <3>3 DEF PlaneAllocInv
  <2> QED BY <2>1, <2>3, <2>4
<1>5. \A g \in Plane!Grid(dev) : Plane!Done(g) /\ PlaneRowsOf(g) \subseteq PlaneAllRows
  <2> SUFFICES ASSUME NEW g \in Plane!Grid(dev)
               PROVE Plane!Done(g) /\ PlaneRowsOf(g) \subseteq PlaneAllRows
    OBVIOUS
  <2>1. g[1] < dev.xlen
    BY <1>1, PlaneGrid
  <2> QED BY <1>1, <1>2, <2>1, PlaneRowType DEF Plane!Done, PlaneRowsOf
<1>6. \A e \in T : e[1] \in PlaneAllRows /\ e[2] \in PlaneAllRows
  BY <1>2, <1>5 DEF PlaneTripletsInv
<1>7. PlaneDoneRows = PlaneAllRows
  <2>1. PlaneDoneRows \subseteq PlaneAllRows
    BY <1>5 DEF PlaneDoneRows
  <2>2. ASSUME NEW w \in PlaneAllRows PROVE w \in PlaneDoneRows
    <3>1. PICK g \in Plane!Grid(dev) : w \in PlaneRowsOf(g)
      BY <1>1, PlaneRowsCover
    <3> QED BY <1>5, <3>1 DEF PlaneDoneRows
  <2> QED BY <2>1, <2>2
<1>8. Plane!ErrorRows = PlaneDoneRows
  <2>1. \A g \in Plane!Grid(dev) :
          Plane!TrapRows(g[1], g[2]) \cup {Plane!Phi(g[1], g[2]), Plane!Je(g[1], g[2]), Plane!Jh(g[1], g[2])}
            = PlaneRowsOf(g)
    BY <1>1, PlaneNames
  <2>2. {h \in Plane!Grid(dev) : Plane!Done(h)} = Plane!Grid(dev)
    BY <1>5
  <2> QED BY <2>1, <2>2 DEF Plane!ErrorRows, PlaneDoneRows
<1> QED BY <1>3, <1>4, <1>6, <1>7, <1>8 DEF PlaneCountInv

-----------------------------------------------------------------------------

(* The places fill_matrix writes, in closed form. *)

\* what one mesh point writes, and all points before one
MatrixPoint(d, y) ==
  Left(d, y) \cup Centre(d, y) \cup Traps(d, SrhE(d, y), y) \cup Traps(d, SrhH(d, y), y)
    \cup Right(d, y)
MatrixBefore(d, y) == UNION {MatrixPoint(d, z) : z \in 0 .. y - 1}

\* The triplets at each step of mesh point i.
MatrixInv ==
  /\ pc = "left" => T = MatrixBefore(dev, i)
  /\ pc = "centre" => T = MatrixBefore(dev, i) \cup Left(dev, i)
  /\ pc = "ntrap" => T = MatrixBefore(dev, i) \cup Left(dev, i) \cup Centre(dev, i)
  /\ pc = "ptrap" => T = MatrixBefore(dev, i) \cup Left(dev, i) \cup Centre(dev, i)
                           \cup Traps(dev, SrhE(dev, i), i)
  /\ pc = "right" => T = MatrixBefore(dev, i) \cup Left(dev, i) \cup Centre(dev, i)
                           \cup Traps(dev, SrhE(dev, i), i) \cup Traps(dev, SrhH(dev, i), i)
  /\ pc = "rhs" => T = MatrixBefore(dev, i) \cup MatrixPoint(dev, i)
  /\ pc = "full" /\ ~dev.schottky => T = MatrixBefore(dev, dev.ylen)

\* Each point adds its own.
LEMMA MatrixBeforeStep ==
  ASSUME NEW d, NEW y \in Nat
  PROVE  /\ MatrixBefore(d, 0) = {}
         /\ MatrixBefore(d, y + 1) = MatrixBefore(d, y) \cup MatrixPoint(d, y)
<1>1. 0 .. (y + 1) - 1 = (0 .. y - 1) \cup {y} /\ 0 .. 0 - 1 = {}
  OBVIOUS
<1> QED BY <1>1, Zenon DEF MatrixBefore

\* Nothing is written at the start,
LEMMA MatrixInit == Init => MatrixInv
BY DEF Init, MatrixInv

\* and each step adds its group.
LEMMA MatrixStep == IInv /\ MatrixInv /\ [Next]_vars => MatrixInv'
<1> SUFFICES ASSUME IInv, MatrixInv, [Next]_vars PROVE MatrixInv'
  OBVIOUS
<1>0. i \in Nat /\ dev' = dev
  BY DEF IInv, TypeInv, Next, Realloc, SwitchIons, StartFill, FillLeft, FillCentre, FillNtrap,
         FillPtrap, FillRight, FillRhs, Corner, Update, vars
<1>1. CASE Realloc
  BY <1>1 DEF Realloc, MatrixInv
<1>2. CASE SwitchIons
  BY <1>2 DEF SwitchIons, MatrixInv
<1>3. CASE StartFill
  <2>1. T' = {} /\ i' = 0 /\ pc' = "left"
    BY <1>3 DEF StartFill
  <2> QED BY <1>0, <2>1, MatrixBeforeStep DEF MatrixInv
<1>4. CASE FillLeft
  <2>1. T' = T \cup Left(dev, i) /\ pc = "left" /\ pc' = "centre" /\ i' = i
    BY <1>4 DEF FillLeft, Put
  <2> QED BY <1>0, <2>1 DEF MatrixInv
<1>5. CASE FillCentre
  <2>1. T' = T \cup Centre(dev, i) /\ pc = "centre" /\ pc' = "ntrap" /\ i' = i
    BY <1>5 DEF FillCentre, Put
  <2> QED BY <1>0, <2>1 DEF MatrixInv
<1>6. CASE FillNtrap
  <2>1. T' = T \cup Traps(dev, SrhE(dev, i), i) /\ pc = "ntrap" /\ pc' = "ptrap" /\ i' = i
    BY <1>6 DEF FillNtrap, Put
  <2> QED BY <1>0, <2>1 DEF MatrixInv
<1>7. CASE FillPtrap
  <2>1. T' = T \cup Traps(dev, SrhH(dev, i), i) /\ pc = "ptrap" /\ pc' = "right" /\ i' = i
    BY <1>7 DEF FillPtrap, Put
  <2> QED BY <1>0, <2>1 DEF MatrixInv
<1>8. CASE FillRight
  <2>1. T' = T \cup Right(dev, i) /\ pc = "right" /\ pc' = "rhs" /\ i' = i
    BY <1>8 DEF FillRight, Put
  <2>2. T' = MatrixBefore(dev, i) \cup MatrixPoint(dev, i)
    BY <2>1 DEF MatrixInv, MatrixPoint
  <2> QED BY <1>0, <2>1, <2>2 DEF MatrixInv
<1>9. CASE FillRhs
  <2>1. T' = T /\ pc = "rhs" /\ pc' = "left" /\ i' = i + 1
    BY <1>9 DEF FillRhs
  <2>2. T = MatrixBefore(dev, i + 1)
    BY <1>0, <2>1, MatrixBeforeStep DEF MatrixInv
  <2> QED BY <1>0, <2>1, <2>2 DEF MatrixInv
<1>10. CASE Corner
  <2>1. pc = "left" /\ pc' = "full" /\ i = dev.ylen /\ (~dev.schottky => T' = T)
    BY <1>10 DEF Corner
  <2> QED BY <1>0, <2>1 DEF MatrixInv
<1>11. CASE Update
  BY <1>11 DEF Update, MatrixInv
<1>12. CASE UNCHANGED vars
  BY <1>12 DEF vars, MatrixInv
<1> QED
  BY <1>1, <1>2, <1>3, <1>4, <1>5, <1>6, <1>7, <1>8, <1>9, <1>10, <1>11, <1>12 DEF Next

-----------------------------------------------------------------------------

\* Without a Schottky contact the two solvers number their rows alike.
LEMMA NormRows ==
  ASSUME NEW d \in Device, ~d.schottky, NEW y \in Int
  PROVE  /\ Norm!Row(d, 0, y) = y
         /\ Norm!Row(d, 1, y) = offset_Je(d) + y
         /\ Norm!Row(d, 2, y) = offset_Jh(d) + y
         /\ Norm!Equations(d, y) = {y, offset_Je(d) + y, offset_Jh(d) + y}
<1>1. d.ylen \in Int
  BY DeviceType
<1>2. /\ offset_Je(d) = d.ylen /\ offset_Jh(d) = d.ylen + d.ylen
      /\ offset_srh_e(d) = d.ylen + d.ylen + d.ylen
  BY <1>1 DEF offset_Je, offset_Jh, offset_srh_e
<1>3. /\ Norm!Row(d, 0, y) = y /\ Norm!Row(d, 1, y) = offset_Je(d) + y
      /\ Norm!Row(d, 2, y) = offset_Jh(d) + y
  BY <1>1, <1>2 DEF Norm!Row
<1>4. 0 .. 2 = {0, 1, 2}
  OBVIOUS
<1>5. Norm!Equations(d, y) = {Norm!Row(d, 0, y), Norm!Row(d, 1, y), Norm!Row(d, 2, y)}
  BY <1>4 DEF Norm!Equations
<1> QED BY <1>3, <1>5

\* So are the trap levels', where both kinds are solved for or neither is.
LEMMA NormTrapRows ==
  ASSUME NEW d \in Device, ~d.schottky, d.ntrapnewton = d.ptrapnewton, NEW y \in Int
  PROVE  Norm!NtrapRows(d, y) = SrhE(d, y) /\ Norm!PtrapRows(d, y) = SrhH(d, y)
<1>1. PICK n, m : n = d.ylen /\ m = d.srh_bands
  OBVIOUS
<1>2. n \in Nat /\ m \in Nat /\ d.ntrapnewton \in BOOLEAN
  BY <1>1, DeviceType
<1>3. offset_srh_e(d) = n + n + n
  BY <1>1, <1>2 DEF offset_Je, offset_Jh, offset_srh_e
<1>4. d.ntrapnewton => offset_srh_h(d) = n + n + n + n * m
  BY <1>1, <1>3 DEF offset_srh_h
<1>5. \A k \in 0 .. m - 1 : Norm!Row(d, 3 + k, y) = offset_srh_e(d) + n * k + y
  <2> TAKE k \in 0 .. m - 1
  <2>1. n * (3 + k) = n + n + n + n * k /\ n * k \in Int
    BY <1>2
  <2> QED BY <1>1, <1>2, <1>3, <2>1 DEF Norm!Row
<1>6. ASSUME d.ntrapnewton, NEW k \in 0 .. m - 1
      PROVE  Norm!Row(d, 3 + m + k, y) = offset_srh_h(d) + n * k + y
  <2>1. n * (3 + m + k) = n + n + n + n * m + n * k /\ n * k \in Int /\ n * m \in Int
    BY <1>2
  <2> QED BY <1>1, <1>2, <1>4, <1>6, <2>1 DEF Norm!Row
<1>7. Norm!NtrapRows(d, y) = SrhE(d, y)
  BY <1>1, <1>5 DEF Norm!NtrapRows, SrhE, TrapRows
<1>8. Norm!PtrapRows(d, y) = SrhH(d, y)
  BY <1>1, <1>2, <1>6 DEF Norm!PtrapRows, SrhH, TrapRows
<1> QED BY <1>7, <1>8

\* A point's neighbour.
LEMMA NormAcross ==
  ASSUME NEW d \in Device, ~d.schottky, NEW y \in Int, NEW z \in Int
  PROVE  Norm!Across(d, y, z) =
           {<<y, z>>, <<offset_Je(d) + y, offset_Je(d) + z>>, <<offset_Je(d) + y, z>>,
            <<offset_Jh(d) + y, offset_Jh(d) + z>>, <<offset_Jh(d) + y, z>>}
<1>1. 0 .. 2 = {0, 1, 2}
  OBVIOUS
<1>2. {<<Norm!Row(d, k, y), Norm!Row(d, k, z)>> : k \in 0 .. 2} =
        {<<Norm!Row(d, 0, y), Norm!Row(d, 0, z)>>, <<Norm!Row(d, 1, y), Norm!Row(d, 1, z)>>,
         <<Norm!Row(d, 2, y), Norm!Row(d, 2, z)>>}
  BY <1>1
<1>3. {<<Norm!Row(d, k, y), z>> : k \in {1, 2}} =
        {<<Norm!Row(d, 1, y), z>>, <<Norm!Row(d, 2, y), z>>}
  OBVIOUS
<1>4. /\ Norm!Row(d, 0, y) = y /\ Norm!Row(d, 1, y) = offset_Je(d) + y
      /\ Norm!Row(d, 2, y) = offset_Jh(d) + y
      /\ Norm!Row(d, 0, z) = z /\ Norm!Row(d, 1, z) = offset_Je(d) + z
      /\ Norm!Row(d, 2, z) = offset_Jh(d) + z
  BY NormRows
<1>5. Norm!Across(d, y, z) =
        {<<y, z>>, <<offset_Je(d) + y, offset_Je(d) + z>>, <<offset_Jh(d) + y, offset_Jh(d) + z>>}
          \cup {<<offset_Je(d) + y, z>>, <<offset_Jh(d) + y, z>>}
  BY <1>2, <1>3, <1>4, Zenon DEF Norm!Across
<1> HIDE DEF Norm!Across
<1> QED BY <1>5

\* A trap level and its point.
LEMMA NormOfTrap ==
  ASSUME NEW d \in Device, ~d.schottky, NEW y \in Int, NEW t
  PROVE  Norm!OfTrap(d, t, y) = Trap(d, t, y)
<1>1. Norm!Equations(d, y) \X {t} = {<<y, t>>, <<offset_Je(d) + y, t>>, <<offset_Jh(d) + y, t>>}
  BY NormRows
<1>2. Norm!Row(d, 1, y) = offset_Je(d) + y /\ Norm!Row(d, 2, y) = offset_Jh(d) + y
  BY NormRows
<1> QED BY <1>1, <1>2 DEF Norm!OfTrap, Trap

\* The places of a point,
NormBack(d, y) == IF y = 0 THEN {} ELSE Norm!Across(d, y, y - 1)
NormOn(d, y) == IF y = d.ylen - 1 THEN {} ELSE Norm!Across(d, y, y + 1)
NormTraps(d, y) ==
  UNION {Norm!OfTrap(d, t, y) : t \in Norm!NtrapRows(d, y) \cup Norm!PtrapRows(d, y)}
NormAt(d, y) ==
  NormBack(d, y) \cup (Norm!Equations(d, y) \X Norm!Equations(d, y)) \cup NormTraps(d, y)
    \cup NormOn(d, y)

\* are the same.
LEMMA NormPoint ==
  ASSUME NEW d \in Device, ~d.schottky, d.ntrapnewton = d.ptrapnewton, NEW y \in 0 .. d.ylen - 1
  PROVE  NormAt(d, y) = MatrixPoint(d, y)
<1>1. y \in Int /\ y - 1 \in Int /\ y + 1 \in Int /\ d.ylen \in Int /\ offset_Je(d) \in Int /\ offset_Jh(d) \in Int
  BY DeviceType, Offsets
<1>2. NormBack(d, y) = Left(d, y)
  <2>1. offset_Je(d) + (y - 1) = offset_Je(d) + y - 1 /\ offset_Jh(d) + (y - 1) = offset_Jh(d) + y - 1
    BY <1>1
  <2> QED BY <1>1, <2>1, NormAcross, Zenon DEF Left, NormBack
<1>3. NormOn(d, y) = Right(d, y)
  <2>1. offset_Je(d) + (y + 1) = offset_Je(d) + y + 1 /\ offset_Jh(d) + (y + 1) = offset_Jh(d) + y + 1
    BY <1>1
  <2>2. Norm!Across(d, y, y + 1) =
          {<<y, y + 1>>, <<offset_Je(d) + y, offset_Je(d) + (y + 1)>>, <<offset_Je(d) + y, y + 1>>,
           <<offset_Jh(d) + y, offset_Jh(d) + (y + 1)>>, <<offset_Jh(d) + y, y + 1>>}
    BY <1>1, NormAcross
  <2>3. CASE y = d.ylen - 1
    <3>1. Right(d, y) = {}
      BY <2>3, Zenon DEF Right
    <3> QED BY <2>3, <3>1, Zenon DEF NormOn
  <2>4. CASE y # d.ylen - 1
    <3>1. Right(d, y) =
          {<<y, y + 1>>, <<offset_Je(d) + y, offset_Je(d) + y + 1>>, <<offset_Je(d) + y, y + 1>>,
           <<offset_Jh(d) + y, offset_Jh(d) + y + 1>>, <<offset_Jh(d) + y, y + 1>>}
      BY <2>4, Zenon DEF Right
    <3>2. Norm!Across(d, y, y + 1) = Right(d, y)
      BY <2>1, <2>2, <3>1, Zenon
    <3> QED BY <2>4, <3>2, Zenon DEF NormOn
  <2> QED BY <2>3, <2>4, Zenon
<1>4. Norm!Equations(d, y) \X Norm!Equations(d, y) = Centre(d, y)
  BY <1>1, NormRows DEF Centre
<1>5. NormTraps(d, y) = Traps(d, SrhE(d, y), y) \cup Traps(d, SrhH(d, y), y)
  <2>1. {Norm!OfTrap(d, t, y) : t \in Norm!NtrapRows(d, y) \cup Norm!PtrapRows(d, y)}
          = {Trap(d, t, y) : t \in SrhE(d, y)} \cup {Trap(d, t, y) : t \in SrhH(d, y)}
    BY <1>1, NormOfTrap, NormTrapRows
  <2> QED BY <2>1, Zenon DEF NormTraps, Traps
<1>6. MatrixPoint(d, y) = Left(d, y) \cup Centre(d, y)
          \cup (Traps(d, SrhE(d, y), y) \cup Traps(d, SrhH(d, y), y)) \cup Right(d, y)
  <2>1. \A B, C, D, E, F : B \cup C \cup D \cup E \cup F = B \cup C \cup (D \cup E) \cup F
    OBVIOUS
  <2> QED BY <2>1, Zenon DEF MatrixPoint
<1> QED BY <1>2, <1>3, <1>4, <1>5, <1>6, Zenon DEF NormAt

\* And so is the whole matrix.
LEMMA NormPlaces ==
  ASSUME NEW d \in Device, ~d.schottky, d.ntrapnewton = d.ptrapnewton
  PROVE  Norm!Places(d) = MatrixBefore(d, d.ylen) /\ Norm!ReadRows(d) = ReadRows(d)
<1>1. Norm!Places(d) = MatrixBefore(d, d.ylen)
  <2>1. \A y \in 0 .. d.ylen - 1 : NormAt(d, y) = MatrixPoint(d, y)
    BY NormPoint
  <2>2. Norm!Places(d) = UNION {NormAt(d, y) : y \in 0 .. d.ylen - 1}
    BY DEF Norm!Places, NormAt, NormBack, NormOn, NormTraps
  <2>3. MatrixBefore(d, d.ylen) = UNION {MatrixPoint(d, y) : y \in 0 .. d.ylen - 1}
    BY Zenon DEF MatrixBefore
  <2>4. {NormAt(d, y) : y \in 0 .. d.ylen - 1} = {MatrixPoint(d, y) : y \in 0 .. d.ylen - 1}
    BY <2>1
  <2> QED BY <2>2, <2>3, <2>4, Zenon
<1>2. \A y \in 0 .. d.ylen - 1 :
        Norm!Equations(d, y) \cup Norm!NtrapRows(d, y) \cup Norm!PtrapRows(d, y) = Unknowns(d, y)
  <2> TAKE y \in 0 .. d.ylen - 1
  <2>1. y \in Int
    BY DeviceType
  <2> QED BY <2>1, NormRows, NormTrapRows DEF Unknowns
<1>3. Norm!ReadRows(d) = Before(d, d.ylen)
  BY <1>2, Zenon DEF Norm!ReadRows, Before
<1> QED BY <1>1, <1>3 DEF ReadRows

\* Its size is counted alike.
LEMMA NormCounts ==
  ASSUME NEW d \in Device, ~d.schottky, d.ntrapnewton = d.ptrapnewton, d.interfaces_n = 0
  PROVE  MinN(d) = Norm!CalN(d) /\ MinM(d) = Norm!CalM(d)
<1>1. PICK n, m : n = d.ylen /\ m = d.srh_bands
  OBVIOUS
<1>2. n \in Nat /\ m \in Nat /\ d.ntrapnewton \in BOOLEAN
  BY <1>1, DeviceType
<1>3. Cardinality({k \in {1, 2} : <<d.ntrapnewton, d.ptrapnewton>>[k]}) = IF d.ntrapnewton THEN 2 ELSE 0
  <2>1. CASE d.ntrapnewton
    <3>1. {k \in {1, 2} : <<d.ntrapnewton, d.ptrapnewton>>[k]} = {1, 2}
      <4>1. <<d.ntrapnewton, d.ptrapnewton>>[1] /\ <<d.ntrapnewton, d.ptrapnewton>>[2]
        BY <2>1
      <4> QED BY <4>1, Zenon
    <3>2. IsFiniteSet({1}) /\ Cardinality({1}) = 1
      BY FS_Singleton
    <3>3. {1, 2} = {1} \cup {2} /\ 2 \notin {1}
      OBVIOUS
    <3>4. Cardinality({1} \cup {2}) = (IF 2 \in {1} THEN Cardinality({1}) ELSE Cardinality({1}) + 1)
      BY <3>2, FS_AddElement, Zenon
    <3>5. Cardinality({1, 2}) = 2
      BY <3>2, <3>3, <3>4
    <3> QED BY <2>1, <3>1, <3>5
  <2>2. CASE ~d.ntrapnewton
    <3>1. {k \in {1, 2} : <<d.ntrapnewton, d.ptrapnewton>>[k]} = {}
      <4>1. ~<<d.ntrapnewton, d.ptrapnewton>>[1] /\ ~<<d.ntrapnewton, d.ptrapnewton>>[2]
        BY <2>2
      <4> QED BY <4>1, Zenon
    <3> QED BY <2>2, <3>1, FS_EmptySet
  <2> QED BY <2>1, <2>2
<1>4. Bands(d) = IF d.ntrapnewton THEN m + m ELSE 0
  BY <1>1, <1>2 DEF Bands
<1>5. /\ n * m \in Nat /\ n * (m + m) = 2 * (n * m) /\ n * 0 = 0
      /\ m * 6 * n * 2 = 12 * (n * m) /\ m * 6 * n * 0 = 0
      /\ m * n * 2 = 2 * (n * m) /\ m * n * 0 = 0
  BY <1>2, SMTT(30)
<1>6. CASE d.ntrapnewton
  <2>1. MinN(d) = 5 * (3 * n - 2) + 4 * n + 12 * (n * m) /\ MinM(d) = 3 * n + 2 * (n * m)
    BY <1>1, <1>2, <1>4, <1>5, <1>6 DEF MinN, MinM, CalN, CalM
  <2>2. Norm!CalN(d) = 5 * (3 * n - 2) + 4 * n + 12 * (n * m) /\ Norm!CalM(d) = 3 * n + 2 * (n * m)
    <3>1. PICK c : c = Cardinality({k \in {1, 2} : <<d.ntrapnewton, d.ptrapnewton>>[k]})
      OBVIOUS
    <3>2. Norm!CalN(d) = 5 * (3 * n - 2) + 4 * n + m * 6 * n * c /\ Norm!CalM(d) = 3 * n + m * n * c
      BY <1>1, <3>1, Zenon DEF Norm!CalN, Norm!CalM, Norm!Cardinality, Cardinality
    <3>3. c = 2
      BY <1>3, <1>6, <3>1, Zenon
    <3> QED BY <1>5, <3>2, <3>3, Zenon
  <2> QED BY <2>1, <2>2
<1>7. CASE ~d.ntrapnewton
  <2>1. MinN(d) = 5 * (3 * n - 2) + 4 * n /\ MinM(d) = 3 * n
    BY <1>1, <1>2, <1>4, <1>5, <1>7 DEF MinN, MinM, CalN, CalM
  <2>2. Norm!CalN(d) = 5 * (3 * n - 2) + 4 * n + 0 /\ Norm!CalM(d) = 3 * n + 0
    <3>1. PICK c : c = Cardinality({k \in {1, 2} : <<d.ntrapnewton, d.ptrapnewton>>[k]})
      OBVIOUS
    <3>2. Norm!CalN(d) = 5 * (3 * n - 2) + 4 * n + m * 6 * n * c /\ Norm!CalM(d) = 3 * n + m * n * c
      BY <1>1, <3>1, Zenon DEF Norm!CalN, Norm!CalM, Norm!Cardinality, Cardinality
    <3>3. c = 0
      BY <1>3, <1>7, <3>1, Zenon
    <3> QED BY <1>5, <3>2, <3>3, Zenon
  <2> QED BY <1>2, <2>1, <2>2
<1> QED BY <1>6, <1>7

\* The second solver has the first one's matrix.
LEMMA NormSamePlaces == IInv /\ ExactInv /\ MatrixInv => SamePlaces
<1> SUFFICES ASSUME IInv, ExactInv, MatrixInv,
                    pc = "full", ~dev.schottky, NoIons(dev), dev.interfaces_n = 0,
                    dev.ntrapnewton = dev.ptrapnewton
             PROVE  /\ T = Norm!Places(dev) /\ b = Norm!ReadRows(dev)
                    /\ nz = Norm!CalN(dev) /\ M = Norm!CalM(dev)
  BY DEF SamePlaces
<1>1. dev \in Device
  BY DevType DEF IInv
<1>2. T = MatrixBefore(dev, dev.ylen) /\ b = ReadRows(dev)
  BY DEF MatrixInv, IInv, RhsInv
<1>3. nz = MinN(dev) /\ M = MinM(dev)
  BY DEF IInv, AllocInv, ExactInv
<1> QED BY <1>1, <1>2, <1>3, NormPlaces, NormCounts

-----------------------------------------------------------------------------

(* The three parts together. *)

PartInv ==
  /\ part = "matrix" => IInv /\ ExactInv
  /\ part = "values" => EqInv
  /\ part = "plane" => PlaneInv /\ PlaneCountInv

LEMMA PartInit == MCInit => PartInv
<1>1. part = "matrix" /\ Init => PartInv
  BY InitInv, ExactInit DEF PartInv
<1>2. part = "values" /\ Eq!Init => PartInv
  BY EqInitInv DEF PartInv
<1>3. part = "plane" /\ Plane!Init => PartInv
  BY PlaneInitInv, PlaneCountInit, MCNewtonAssumption DEF PartInv
<1> QED BY <1>1, <1>2, <1>3 DEF MCInit

LEMMA PartStep ==
  PartInv /\ [MCNext]_<<vars, part, faces, valuesOnly, planeOnly>> => PartInv'
<1> SUFFICES ASSUME PartInv, [MCNext]_<<vars, part, faces, valuesOnly, planeOnly>> PROVE PartInv'
  OBVIOUS
<1>1. CASE part = "matrix"
  <2>1. part' = "matrix" /\ [Next]_vars
    BY <1>1 DEF MCNext
  <2> QED BY <1>1, <2>1, StepInv, ExactStep DEF PartInv
<1>2. CASE part = "values"
  <2>1. part' = "values" /\ [Eq!Next]_Eq!vars
    BY <1>2 DEF MCNext, vars, faces, valuesOnly, planeOnly, Eq!vars, Eq!fluxes
  <2> QED BY <1>2, <2>1, EqStep DEF PartInv
<1>3. CASE part = "plane"
  <2>1. part' = "plane" /\ [Plane!Next]_Plane!vars
    BY <1>3 DEF MCNext, vars, faces, valuesOnly, planeOnly, Plane!vars, Plane!kept, Plane!fluxes
  <2> QED BY <1>3, <2>1, PlaneStep, PlaneCountStep DEF PartInv
<1>4. CASE part \notin {"matrix", "values", "plane"}
  <2>1. part' = part
    BY <1>4 DEF MCNext
  <2> QED BY <1>4, <2>1 DEF PartInv
<1> QED BY <1>1, <1>2, <1>3, <1>4

\* The inductive invariant of fill_matrix in one and two dimensions.
THEOREM PartInvHolds == MCSpec => []PartInv
BY PartInit, PartStep, PTL DEF MCSpec

\* No slot of the arrays is missing or left over once fill_matrix is done, on any mesh
\* of one or two dimensions, with any number of trap levels.
THEOREM EntriesCountedHolds == MCSpec => []EntriesCounted
<1>1. PartInv => EntriesCounted
  BY NothingLeft, PlaneNothingLeft DEF PartInv, EntriesCounted
<1> QED BY PartInvHolds, <1>1, PTL

\* What leaves a point through a face enters the one behind it, for any device, solution
\* and Bernoulli function: in one dimension electrons, and holes where none tunnel; in two
\* both in y, and holes in x.
THEOREM FacesAgreeHolds == MCSpec => []FacesAgree
<1>1. PartInv => FacesAgree
  BY EqConserves, PlaneConserves DEF PartInv, FacesAgree
<1> QED BY PartInvHolds, <1>1, PTL
=============================================================================
