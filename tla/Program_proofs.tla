---------------------------- MODULE Program_proofs ----------------------------
(***************************************************************************)
(* Proofs about the parts of gpvdm_core that MCProgram runs.               *)
(*                                                                         *)
(* A current-voltage sweep, for any device, any settings and any sweep.    *)
(*                                                                         *)
(* A fit, for any number of parameters and any errors: the simplex throws  *)
(* no better point away.  The ranking of the corners is a bijection onto   *)
(* the places, so there is a worst and a best; the inductive invariant     *)
(* says at each step of an iteration which corner holds the least error    *)
(* seen, or that the point on trial does.                                  *)
(*                                                                         *)
(* An expression, of any depth: what reading one does to the stack and the *)
(* output holds for its parts, wherever they stand (Sound), and so by      *)
(* induction for the whole, whose reading and evaluation the steps follow. *)
(***************************************************************************)
EXTENDS JV, MCFit, MCMeasure, SequenceTheorems, WellFoundedInduction, FiniteSetTheorems, FunctionTheorems, TLAPS

-----------------------------------------------------------------------------
(* The settings.                                                            *)

Names == {"min_cur_error", "max_electrical_itt", "newton_min_itt", "newton_clever_exit",
          "electrical_clamp", "Nion_enabled", "full_newton"}

\* f and g agree on the settings.
Same(f, g) == DOMAIN f = DOMAIN g /\ \A x \in Names : f[x] = g[x]

LEMMA SameSettings ==
  ASSUME NEW f, NEW g, Same(f, g)
  PROVE  /\ Settings(f) = Settings(g)
         /\ f.Nion_enabled = g.Nion_enabled /\ f.full_newton = g.full_newton
  BY DEF Same, Settings, Names

LEMMA SettingsShape ==
  ASSUME NEW f
  PROVE  DOMAIN Settings(f) = {"min_cur_error", "max_electrical_itt", "newton_min_itt",
                               "newton_clever_exit", "electrical_clamp"}
  BY DEF Settings

\* A solution runs with the settings it is called with.
LEMMA SolveCurSettings ==
  ASSUME NEW v, NEW i, SolveCur(v, i), Names \subseteq DOMAIN i
  PROVE  prob' = prob /\ Same(in', i)
<1>1. in' = i \/ in' = [i EXCEPT !.dd_conv = FALSE]
  BY Zenon DEF SolveCur
<1>2. prob' = prob
  BY DEF SolveCur
<1>3. CASE in' = i
  BY <1>2, <1>3 DEF Same
<1>4. CASE in' = [i EXCEPT !.dd_conv = FALSE]
  BY <1>2, <1>4 DEF Same, Names
<1>5. QED BY <1>1, <1>3, <1>4

LEMMA SolverSettings ==
  ASSUME Solver, Names \subseteq DOMAIN in
  PROVE  /\ prob' = prob /\ Same(in', in)
         /\ UNCHANGED <<math_save_state, V, at, jv, power_den, R_list, out>>
<1>1. \/ in' = in
      \/ in' = [in EXCEPT !.dd_conv = TRUE]
      \/ in' = [in EXCEPT !.newton_last_ittr = ittr]
  BY Zenon DEF Solver, SolveElectrical, FoundInCache, NoBetter, Iterate, AfterLoop
<1>2. UNCHANGED <<prob, math_save_state, V, at, jv, power_den, R_list, out>>
  BY DEF Solver, SolveElectrical, FoundInCache, NoBetter, Iterate, AfterLoop, MatrixSolved, lists
<1>3. CASE in' = in
  BY <1>2, <1>3 DEF Same
<1>4. CASE in' = [in EXCEPT !.dd_conv = TRUE]
  BY <1>2, <1>4 DEF Same, Names
<1>5. CASE in' = [in EXCEPT !.newton_last_ittr = ittr]
  BY <1>2, <1>5 DEF Same, Names
<1>6. QED BY <1>1, <1>3, <1>4, <1>5

\* What a point leaves in the locals of sim_jv.
LEMMA PointFigures ==
  ASSUME {"V", "Vstep", "ittr", "first", "Jlast", "Pdenlast", "mu_pmax", "found_voc"}
           \subseteq DOMAIN jv
  PROVE  \A m \in {Measured, Stepped} :
           /\ DOMAIN m = DOMAIN jv
           /\ m.ittr = jv.ittr + 1 /\ m.first = FALSE
           /\ m.Pdenlast = (IF Pmax THEN Abs(Here.p) ELSE jv.Pdenlast)
           /\ m.mu_pmax = (IF Pmax THEN Here.v ELSE jv.mu_pmax)
           /\ m.found_voc = (jv.found_voc \/ Voc)
<1> DEFINE pd == IF Pmax THEN Abs(Here.p) ELSE jv.Pdenlast
           mu == IF Pmax THEN Here.v ELSE jv.mu_pmax
           fv == jv.found_voc \/ Voc
           n == jv.ittr + 1
<1>1. Measured = [jv EXCEPT !.ittr = n, !.first = FALSE, !.Jlast = Here.j, !.Pdenlast = pd,
                            !.mu_pmax = mu, !.found_voc = fv]
  BY DEF Measured
<1>2. PICK h : h = Here.j
  OBVIOUS
<1> HIDE DEF pd, mu, fv, n
<1>3. /\ DOMAIN Measured = DOMAIN jv /\ Measured.ittr = n /\ Measured.first = FALSE
      /\ Measured.Pdenlast = pd /\ Measured.mu_pmax = mu /\ Measured.found_voc = fv
  BY ONLY <1>1, {"V", "Vstep", "ittr", "first", "Jlast", "Pdenlast", "mu_pmax", "found_voc"}
                  \subseteq DOMAIN jv
<1>4. PICK v, w : Stepped = [Measured EXCEPT !.V = v, !.Vstep = w]
  BY DEF Stepped
<1>5. /\ DOMAIN Stepped = DOMAIN jv /\ Stepped.ittr = n /\ Stepped.first = FALSE
      /\ Stepped.Pdenlast = pd /\ Stepped.mu_pmax = mu /\ Stepped.found_voc = fv
  BY ONLY <1>3, <1>4, {"V", "Vstep", "ittr", "first", "Jlast", "Pdenlast", "mu_pmax", "found_voc"}
                  \subseteq DOMAIN jv
<1>6. QED BY <1>3, <1>5 DEF pd, mu, fv, n

LEMMA SettingsInit == JVInit => SettingsInv
  BY DEF JVInit, LoopInit, SettingsInv, SettingsKept, Aside, User, Settings

LEMMA SettingsNext == SettingsInv /\ [Next]_vars => SettingsInv'
<1> SUFFICES ASSUME SettingsInv, [Next]_vars PROVE SettingsInv'
  OBVIOUS
<1> USE DEF SettingsInv, SettingsKept, Aside, User
<1>0. Names \subseteq DOMAIN in
  BY SettingsShape DEF Names
<1>a. ASSUME NEW i, DOMAIN i = DOMAIN in, Same(in', i), prob' = prob
      PROVE  /\ Settings(in') = Settings(i) /\ DOMAIN in' = DOMAIN in
             /\ in'.newton_min_itt = i.newton_min_itt
             /\ in'.newton_clever_exit = i.newton_clever_exit
             /\ (DOMAIN User)' = DOMAIN User
  BY <1>a, SameSettings, SettingsShape DEF Same, Names
<1>1. CASE Solver
  BY <1>0, <1>1, <1>a, SolverSettings DEF Same
<1>2. CASE WithoutIons
  <2>1. PICK i : i = [N0 EXCEPT !.Nion_enabled = FALSE] /\ SolveCur(Dark, i)
    BY <1>2 DEF WithoutIons
  <2>2. /\ DOMAIN i = DOMAIN in /\ i.newton_min_itt = in.newton_min_itt
        /\ i.newton_clever_exit = in.newton_clever_exit
    BY <1>0, <2>1 DEF N0, Names
  <2>3. Same(in', i) /\ prob' = prob
    BY <1>0, <2>1, <2>2, SolveCurSettings
  <2>4. Settings(in) = User
    BY <1>2 DEF WithoutIons, Ready
  <2>5. in.newton_min_itt = prob.math.newton_min_itt /\ in.newton_clever_exit = prob.math.newton_clever_exit
    BY <1>2 DEF WithoutIons, Ready
  <2>6. jv'.saved = User /\ DOMAIN jv' = DOMAIN jv /\ at' = "ions"
    BY <1>2, <2>4 DEF WithoutIons
  <2>7. QED BY <1>a, <2>2, <2>3, <2>5, <2>6
<1>3. CASE WithIons
  <2>1. PICK i : i = [in EXCEPT !.Nion_enabled = TRUE, !.full_newton = TRUE] /\ SolveCur(Dark, i)
    BY <1>3 DEF WithIons
  <2>2. /\ DOMAIN i = DOMAIN in /\ i.newton_min_itt = in.newton_min_itt
        /\ i.newton_clever_exit = in.newton_clever_exit
    BY <1>0, <2>1 DEF Names
  <2>3. Same(in', i) /\ prob' = prob
    BY <1>0, <2>1, <2>2, SolveCurSettings
  <2>4. at = "ions" /\ at' = "restore" /\ jv' = jv
    BY <1>3 DEF WithIons, Ready
  <2>5. QED BY <1>a, <2>2, <2>3, <2>4
<1>4. CASE Equilibrium
  <2>1. PICK i : /\ i = [in EXCEPT !.max_electrical_itt = jv.saved.max_electrical_itt,
                                   !.electrical_clamp = jv.saved.electrical_clamp,
                                   !.min_cur_error = jv.saved.min_cur_error]
                 /\ SolveCur(Dark, i)
    BY <1>4 DEF Equilibrium
  <2>2. at \in {"start", "restore"} /\ at' = "light" /\ jv' = jv
    BY <1>4 DEF Equilibrium, Ready
  <2>3. /\ DOMAIN i = DOMAIN in /\ i.newton_min_itt = in.newton_min_itt
        /\ i.newton_clever_exit = in.newton_clever_exit
        /\ i.max_electrical_itt = jv.saved.max_electrical_itt
        /\ i.electrical_clamp = jv.saved.electrical_clamp
        /\ i.min_cur_error = jv.saved.min_cur_error
    BY <1>0, <2>1 DEF Names
  <2>4. Same(in', i) /\ prob' = prob
    BY <1>0, <2>1, <2>3, SolveCurSettings
  <2>5. Settings(i) = User
    BY <2>2, <2>3 DEF Settings
  <2>6. QED BY <1>a, <2>2, <2>3, <2>4, <2>5
<1>5. CASE Ramps
  BY <1>5 DEF Ramps, Ready, Settings, Replace
<1>6. CASE AutoRamp
  BY <1>0, <1>6, <1>a, SolveCurSettings DEF AutoRamp, Ready
<1>7. CASE AutoRampDone
  BY <1>7 DEF AutoRampDone, Ready, Settings, Replace
<1>8. CASE ExternalFirst \/ ExternalSecond \/ ExternalGuess \/ ExternalAgain
  BY <1>0, <1>8, <1>a, SolveCurSettings DEF ExternalFirst, ExternalSecond, ExternalGuess, ExternalAgain,
         Ready
<1>9. CASE ExternalNext
  BY <1>9 DEF ExternalNext, Ready, Settings
<1>10. CASE FirstSolution
  <2>1. PICK i : i = [in EXCEPT !.newton_min_itt = FirstMin] /\ SolveCur(prob.sweep.Vstart, i)
    BY <1>10 DEF FirstSolution
  <2>2. DOMAIN i = DOMAIN in
    BY <2>1
  <2>3. Same(in', i) /\ prob' = prob
    BY <1>0, <2>1, <2>2, SolveCurSettings
  <2>4. at' = "pop" /\ jv' = jv /\ math_save_state' = User
    BY <1>10 DEF FirstSolution, Ready
  <2>5. QED BY <1>a, <2>2, <2>3, <2>4
<1>11. CASE StartSweep
  <2>1. PICK r : r = Replace(in, math_save_state)
    OBVIOUS
  <2>2. PICK i : i = [r EXCEPT !.stop = FALSE] /\ SolveCur(prob.sweep.Vstart, i)
    BY <1>11, <2>1 DEF StartSweep
  <2>3. at' = "sweep" /\ DOMAIN jv' = DOMAIN jv /\ math_save_state = User
    BY <1>11 DEF StartSweep, Ready
  <2>4. DOMAIN r = DOMAIN in /\ Settings(r) = User
    BY <1>0, <2>1, <2>3 DEF Replace, Settings, Names
  <2>5. DOMAIN i = DOMAIN in /\ Settings(i) = User
    BY <1>0, <2>2, <2>4 DEF Settings, Names
  <2>6. Same(in', i) /\ prob' = prob
    BY <1>0, <2>2, <2>5, SolveCurSettings
  <2>7. QED BY <1>a, <2>3, <2>5, <2>6
<1>12. CASE Point
  <2>1. at = "sweep" /\ at' \in {"sweep", "report"}
    BY <1>12 DEF Point, Ready
  <2>2. DOMAIN Measured = DOMAIN jv /\ DOMAIN Stepped = DOMAIN jv
    BY PointFigures DEF Aside
  <2>4. DOMAIN jv' = DOMAIN jv
    BY <1>12, <2>2 DEF Point
  <2>5. prob' = prob /\ Same(in', in)
    <3>1. CASE UNCHANGED loop
      BY <3>1 DEF loop, Same
    <3>2. CASE in' = [in EXCEPT !.stop = Stop] /\ prob' = prob
      BY <1>0, <3>2 DEF Same, Names
    <3>3. CASE SolveCur(jv.V + jv.Vstep, in)
      BY <1>0, <3>3, SolveCurSettings
    <3>4. QED BY <1>12, <3>1, <3>2, <3>3 DEF Point
  <2>6. QED BY <1>a, <2>1, <2>4, <2>5 DEF Same
<1>13. CASE Report
  BY <1>13 DEF Report, Ready, loop, Settings
<1>14. CASE UNCHANGED vars
  BY <1>14 DEF vars, loop, Settings
<1>15. QED
  BY <1>1, <1>2, <1>3, <1>4, <1>5, <1>6, <1>7, <1>8, <1>9, <1>10, <1>11, <1>12, <1>13, <1>14
     DEF Next

\* The user's settings are in force wherever the code does not mean to replace
\* them, and somewhere put aside where it does.
THEOREM SettingsInvHolds == Spec => []SettingsInv
  BY SettingsInit, SettingsNext, PTL DEF Spec

\* The settings a solution runs under are the user's, whatever was put aside and
\* taken back around the equilibrium, the ramp and the first solution.
THEOREM SettingsKeptHolds == Spec => []SettingsKept
<1>1. SettingsInv => SettingsKept
  BY DEF SettingsInv
<1>2. QED BY <1>1, SettingsInvHolds, PTL

-----------------------------------------------------------------------------
(* The cache.                                                               *)

LEMMA SettingsReset ==
  ASSUME NEW n
  PROVE  /\ DOMAIN ResetError(n) = DOMAIN n
         /\ "s" \in DOMAIN n => ResetError(n).s = n.s
         /\ "last_ittr" \in DOMAIN n => ResetError(n).last_ittr = 0
  BY DEF ResetError

LEMMA SetsLast ==
  ASSUME NEW n, NEW e
  PROVE  /\ DOMAIN SetLastError(n, e) = DOMAIN n
         /\ "s" \in DOMAIN n => SetLastError(n, e).s = n.s
         /\ "last_ittr" \in DOMAIN n => SetLastError(n, e).last_ittr = n.last_ittr
  BY DEF SetLastError

\* What a call of the solver does to its state.
LEMMA SolveCurState ==
  ASSUME NEW v, NEW i, SolveCur(v, i)
  PROVE  /\ pc = "idle" /\ V' = v /\ UNCHANGED <<prob, disk, cache_file_path>>
         /\ \/ i.Nion_enabled /\ ~i.full_newton /\ UNCHANGED <<ns, pc>>
            \/ ~(i.Nion_enabled /\ ~i.full_newton) /\ pc' = "loop" /\ ns' = ResetError(ns)
<1>1. CASE i.Nion_enabled /\ ~i.full_newton
  BY <1>1, Zenon DEF SolveCur
<1>2. CASE ~(i.Nion_enabled /\ ~i.full_newton)
  BY <1>2, Zenon DEF SolveCur
<1>3. QED BY <1>1, <1>2

\* Between two solutions the caller leaves what the solver keeps alone.
LEMMA CallerState ==
  ASSUME Next, ~Solver
  PROVE  /\ pc = "idle" /\ UNCHANGED <<prob, disk, cache_file_path>>
         /\ \/ UNCHANGED <<ns, pc>>
            \/ pc' = "loop" /\ ns' = ResetError(ns)
<1>1. CASE \E v, i : SolveCur(v, i)
  BY <1>1, SolveCurState
<1>2. CASE Ramps \/ AutoRampDone \/ ExternalNext \/ Report
  BY <1>2 DEF Ramps, AutoRampDone, ExternalNext, Report, Ready, loop
<1>3. CASE Point
  <2>1. CASE UNCHANGED loop
    BY <1>3, <2>1 DEF Point, Ready, loop
  <2>2. CASE UNCHANGED <<prob, V, ns, ittr, error, cache_file_path, disk, pc>>
    BY <1>3, <2>2 DEF Point, Ready
  <2>3. QED BY <1>1, <1>3, <2>1, <2>2, Zenon DEF Point
<1>4. CASE WithoutIons \/ WithIons \/ Equilibrium \/ AutoRamp \/ FirstSolution \/ StartSweep
  BY <1>1, <1>4, Zenon DEF WithoutIons, WithIons, Equilibrium, AutoRamp, FirstSolution, StartSweep
<1>5. CASE ExternalFirst \/ ExternalSecond \/ ExternalGuess \/ ExternalAgain
  BY <1>1, <1>5, Zenon DEF ExternalFirst, ExternalSecond, ExternalGuess, ExternalAgain
<1>6. QED BY <1>2, <1>3, <1>4, <1>5 DEF Next

\* What one pass of the loop does to it.
LEMMA PassState ==
  ASSUME NoBetter \/ Iterate, {"s", "last_ittr"} \subseteq DOMAIN ns
  PROVE  /\ pc = "loop" /\ pc' \in {"loop", "after"} /\ UNCHANGED <<prob, V, disk>>
         /\ cache_file_path' = Name /\ DOMAIN ns' = DOMAIN ns
         /\ \/ pc' = "after" /\ ns'.s = ns.s /\ ns.last_ittr >= Steps
            \/ ns'.s = Solved
<1> DEFINE n == SetLastError(ns, Error)
<1>1. DOMAIN n = DOMAIN ns /\ n.s = ns.s /\ n.last_ittr = ns.last_ittr
  BY SetsLast
<1>2. /\ pc = "loop" /\ pc' \in {"loop", "after"} /\ UNCHANGED <<prob, V, disk>>
      /\ cache_file_path' = Name
  BY DEF NoBetter, Iterate, MatrixSolved
<1> HIDE DEF n
<1>3. CASE NoBetter
  <2>1. PICK e : ns' = [n EXCEPT !.last_error = e]
    BY <1>3 DEF NoBetter, n
  <2>2. n.last_ittr >= Steps /\ pc' = "after"
    BY <1>3 DEF NoBetter, n, CleverExit
  <2>3. QED BY <1>1, <1>2, <2>1, <2>2
<1>4. CASE Iterate
  <2>1. ns' = [n EXCEPT !.s = Solved, !.last_ittr = ittr]
    BY <1>4 DEF Iterate, n
  <2>2. QED BY <1>1, <1>2, <2>1
<1>5. QED BY <1>3, <1>4

LEMMA CacheNext == CacheInv /\ [Next]_vars => CacheInv'
<1> SUFFICES ASSUME CacheInv, [Next]_vars PROVE CacheInv'
  OBVIOUS
<1> USE DEF CacheInv, CacheFollowsMatrix, NamedByMatrix
<1>1. CASE UNCHANGED vars
  BY <1>1 DEF vars, loop
<1>2. CASE Next /\ ~Solver
  BY <1>2, CallerState, SettingsReset
<1>3. CASE FoundInCache
  BY <1>3 DEF FoundInCache
<1>4. CASE NoBetter \/ Iterate
  <2>1. prob.use_cache => cache_file_path' = <<V, ns.s>>
    BY <1>4, PassState DEF Name, Matrix
  <2>2. ns'.s = ns.s \/ ns'.s = prob.step[<<V, ns.s>>]
    BY <1>4, PassState DEF Solved, Matrix
  <2>3. UNCHANGED <<prob, disk>> /\ DOMAIN ns' = DOMAIN ns
    BY <1>4, PassState
  <2>4. QED BY <2>1, <2>2, <2>3
<1>5. CASE AfterLoop
  <2>1. UNCHANGED <<prob, ns>> /\ pc = "after" /\ pc' # "after"
    BY <1>5 DEF AfterLoop
  <2>2. CASE disk' = disk
    BY <2>1, <2>2
  <2>3. CASE prob.use_cache /\ disk' = [m \in DOMAIN disk \cup {cache_file_path} |->
                                         IF m = cache_file_path THEN ns.s ELSE disk[m]]
    BY <2>1, <2>3
  <2>4. QED BY <1>5, <2>2, <2>3, Zenon DEF AfterLoop
<1>6. QED BY <1>1, <1>2, <1>3, <1>4, <1>5 DEF Solver, SolveElectrical

LEMMA NoFiles == DOMAIN << >> = {}
  OBVIOUS

\* The state a device begins with.
LEMMA FirstState ==
  ASSUME JVInit
  PROVE  /\ {"s", "last_ittr"} \subseteq DOMAIN ns /\ ns.s = prob.first /\ ns.last_ittr = 0
         /\ prob \in Problems /\ DOMAIN disk = {} /\ pc = "idle" /\ at = "start"
<1>1. PICK n : /\ n = [s |-> prob.first, last_ittr |-> 0, last_error |-> 0,
                       last_error_pos |-> 0, last_errors |-> << >>]
               /\ ns = ResetError(n)
  BY DEF JVInit, LoopInit
<1>2. {"s", "last_ittr"} \subseteq DOMAIN n /\ n.s = prob.first
  BY <1>1
<1>3. {"s", "last_ittr"} \subseteq DOMAIN ns /\ ns.s = prob.first /\ ns.last_ittr = 0
  BY <1>1, <1>2, SettingsReset
<1>4. QED BY <1>3, NoFiles DEF JVInit, LoopInit

LEMMA CacheInit == JVInit => CacheInv
  BY FirstState DEF CacheInv, CacheFollowsMatrix, NamedByMatrix

THEOREM CacheInvHolds == Spec => []CacheInv
  BY CacheInit, CacheNext, PTL DEF Spec

\* What is found on disk under the name of a matrix is that matrix's own state or
\* the one its solution leads to, in whatever order solutions were made and saved.
THEOREM CacheFollowsMatrixHolds == Spec => []CacheFollowsMatrix
<1>1. CacheInv => CacheFollowsMatrix
  BY DEF CacheInv
<1>2. QED BY <1>1, CacheInvHolds, PTL

-----------------------------------------------------------------------------
(* The voltages.                                                            *)

\* What a problem gives the voltages.
LEMMA GivenVoltages ==
  ASSUME prob \in Problems
  PROVE  /\ prob.voltages \subseteq Int
         /\ 0 \in prob.voltages /\ prob.sweep.Vstart \in prob.voltages
         /\ prob.sweep.Vstop \in prob.voltages /\ prob.volts \subseteq prob.voltages
         /\ \A a, b \in prob.voltages, c \in Int : a <= c /\ c <= b => c \in prob.voltages
<1>1. /\ prob.voltages \subseteq Int
      /\ \E lo, hi \in prob.voltages : prob.voltages = lo .. hi
      /\ {0, prob.sweep.Vstart, prob.sweep.Vstop} \cup prob.volts \subseteq prob.voltages
  BY JVAssumption
<1>2. PICK lo \in Int, hi \in Int : prob.voltages = lo .. hi
  BY <1>1
<1>3. \A a, b \in prob.voltages, c \in Int : a <= c /\ c <= b => c \in prob.voltages
  BY <1>2
<1>4. QED BY <1>1, <1>3

\* The step has the direction of the sweep, and so has every step after it.
LEMMA StepDirection ==
  ASSUME prob \in Problems
  PROVE  Vstep \in Int /\ IF Up THEN Vstep >= 0 ELSE Vstep <= 0
<1>1. PICK d \in Int : d = prob.sweep.Vstep
  BY JVAssumption
<1>2. Abs(d) \in Int /\ Abs(d) >= 0
  BY DEF Abs
<1>3. CASE Up
  BY <1>1, <1>2, <1>3 DEF Vstep
<1>4. CASE ~Up
  BY <1>1, <1>2, <1>4 DEF Vstep
<1>5. QED BY <1>3, <1>4

LEMMA NextDirection ==
  ASSUME prob \in Problems, NEW v \in prob.voltages, NEW step \in Int,
         IF Up THEN step >= 0 ELSE step <= 0
  PROVE  NextStep(v, step) \in Int /\ IF Up THEN NextStep(v, step) >= 0 ELSE NextStep(v, step) <= 0
<1>1. CASE prob.sweep.jv_step_mul > 1
  <2>1. PICK g \in Nat : g = Growth(prob.sweep, v)
    BY <1>1, JVAssumption
  <2>2. PICK d \in Int : d = Vstep /\ IF Up THEN d >= 0 ELSE d <= 0
    BY StepDirection
  <2>3. NextStep(v, step) = d * g
    BY <1>1, <2>1, <2>2 DEF NextStep
  <2>4. d * g \in Int /\ (d >= 0 => d * g >= 0) /\ (d <= 0 => d * g <= 0)
    OBVIOUS
  <2>5. QED BY <2>2, <2>3, <2>4
<1>2. CASE ~(prob.sweep.jv_step_mul > 1)
  BY <1>2 DEF NextStep
<1>3. QED BY <1>1, <1>2

LEMMA ReachNext ==
  ASSUME SettingsInv, ReachInv, [Next]_vars PROVE ReachInv'
<1>0. prob \in Problems /\ Names \subseteq DOMAIN in
  BY SettingsShape DEF ReachInv, SettingsInv, Aside, User, Names
<1>1. /\ {"V", "Vstep", "ittr", "first", "Jlast", "Pdenlast", "mu_pmax", "found_voc", "target",
          "tries", "i1", "saved"} \subseteq DOMAIN jv
      /\ V \in prob.voltages \/ at \in {"ions", "restore", "light"}
  BY DEF SettingsInv, Aside, ReachInv, InReach
<1>a. ASSUME NEW v, NEW i, SolveCur(v, i),
                    v \in prob.voltages \/ (v = Dark /\ at' \in {"ions", "restore", "light"}),
             at' # "sweep"
      PROVE  ReachInv'
  BY <1>0, <1>a DEF SolveCur, ReachInv, InReach
<1>2. CASE UNCHANGED vars
  BY <1>2 DEF vars, loop, ReachInv, InReach, Up
<1>3. CASE Solver
  BY <1>0, <1>3, SolverSettings DEF ReachInv, InReach, Up
<1>4. CASE WithoutIons \/ WithIons \/ Equilibrium
  BY <1>4, <1>a DEF WithoutIons, WithIons, Equilibrium
<1>5. CASE Ramps
  <2>1. prob' = prob /\ V' = 0 /\ at' # "sweep"
    BY <1>5, Zenon DEF Ramps
  <2>2. QED BY <1>0, <2>1, GivenVoltages DEF ReachInv, InReach
<1>6. CASE AutoRamp
  <2>1. at = "wide" /\ at' = "wide" /\ V # prob.sweep.Vstart
    BY <1>6 DEF AutoRamp, Ready
  <2>2. PICK v : v = V + Toward(V, prob.sweep.Vstart) /\ SolveCur(v, in)
    BY <1>6 DEF AutoRamp
  <2>3. V \in prob.voltages /\ V \in Int /\ prob.sweep.Vstart \in prob.voltages /\ prob.sweep.Vstart \in Int
    BY <1>0, <1>1, <2>1, GivenVoltages
  <2>4. /\ v \in Int
        /\ \/ V <= v /\ v <= prob.sweep.Vstart
           \/ prob.sweep.Vstart <= v /\ v <= V
    BY <2>1, <2>2, <2>3 DEF Toward
  <2>5. v \in prob.voltages
    BY <1>0, <2>3, <2>4, GivenVoltages
  <2>6. QED BY <1>a, <2>1, <2>2, <2>5
<1>7. CASE AutoRampDone
  <2>1. UNCHANGED <<prob, V>> /\ at = "wide" /\ at' = "first"
    BY <1>7 DEF AutoRampDone, Ready
  <2>2. QED BY <1>0, <1>1, <2>1 DEF ReachInv, InReach
<1>8. CASE ExternalFirst
  <2>1. SolveCur(V, in) /\ at = "external" /\ at' = "beside"
    BY <1>8 DEF ExternalFirst, Ready
  <2>2. QED BY <1>1, <1>a, <2>1
<1>9. CASE ExternalSecond \/ ExternalGuess \/ ExternalAgain
  <2>1. PICK v \in prob.volts : SolveCur(v, in)
    BY <1>9 DEF ExternalSecond, ExternalGuess, ExternalAgain
  <2>2. at' # "sweep"
    BY <1>9 DEF ExternalSecond, ExternalGuess, ExternalAgain, Ready
  <2>3. QED BY <1>0, <1>a, <2>1, <2>2, GivenVoltages
<1>10. CASE ExternalNext
  <2>1. prob' = prob /\ V' \in prob.volts /\ at' \in {"first", "external"}
    BY <1>10, Zenon DEF ExternalNext
  <2>2. QED BY <1>0, <2>1, GivenVoltages DEF ReachInv, InReach
<1>11. CASE FirstSolution
  <2>1. PICK i : SolveCur(prob.sweep.Vstart, i)
    BY <1>11 DEF FirstSolution
  <2>2. at' # "sweep"
    BY <1>11 DEF FirstSolution
  <2>3. QED BY <1>0, <1>a, <2>1, <2>2, GivenVoltages
<1>12. CASE StartSweep
  <2>1. PICK i : SolveCur(prob.sweep.Vstart, i)
    BY <1>12 DEF StartSweep
  <2>2. prob' = prob /\ V' = prob.sweep.Vstart
    BY <2>1 DEF SolveCur
  <2>3. jv' = [jv EXCEPT !.V = prob.sweep.Vstart, !.Vstep = Vstep]
    BY <1>12 DEF StartSweep
  <2>4. jv'.V = prob.sweep.Vstart /\ jv'.Vstep = Vstep
    BY <1>1, <2>3
  <2>5. Up' = Up /\ prob.sweep.Vstart \in prob.voltages /\ prob.sweep.Vstart \in Int
    BY <1>0, <2>2, GivenVoltages DEF Up
  <2>6. QED BY <1>0, <2>2, <2>4, <2>5, StepDirection DEF ReachInv, InReach
<1>13. CASE Point
  <2>1. at = "sweep" /\ V \in prob.voltages
    BY <1>1, <1>13 DEF Point, Ready
  <2>2. CASE at' = "report"
    <3>1. UNCHANGED <<prob, V>>
      <4>1. ~(UNCHANGED at)
        BY <2>1, <2>2
      <4>2. CASE UNCHANGED loop
        BY <4>2 DEF loop
      <4>3. CASE UNCHANGED <<prob, V, ns, ittr, error, cache_file_path, disk, pc>>
        BY <4>3
      <4>4. QED BY <1>13, <4>1, <4>2, <4>3, Zenon DEF Point
    <3>2. QED BY <1>0, <2>1, <2>2, <3>1 DEF ReachInv, InReach
  <2>3. CASE at' # "report"
    <3>1. ~Stop /\ jv' = Stepped /\ at' = at /\ SolveCur(jv.V + jv.Vstep, in)
      BY <1>13, <2>3 DEF Point
    <3>2. PICK a \in Int, d \in Int, v \in Int : a = jv.V /\ d = jv.Vstep /\ v = a + d
      BY <1>0, <2>1, GivenVoltages DEF ReachInv
    <3>3. jv.V \in prob.voltages /\ IF Up THEN a >= prob.sweep.Vstart /\ d >= 0 ELSE a <= prob.sweep.Vstart /\ d <= 0
      BY <2>1, <3>2 DEF ReachInv
    <3>4. ~Beyond(v)
      BY <3>1, <3>2 DEF Stop
    <3>5. /\ prob.sweep.Vstop \in prob.voltages /\ prob.sweep.Vstop \in Int
          /\ prob.sweep.Vstart \in Int
      BY <1>0, GivenVoltages
    <3>6. IF Up THEN a <= v /\ v <= prob.sweep.Vstop ELSE v <= a /\ prob.sweep.Vstop <= v
      BY <3>2, <3>3, <3>4, <3>5 DEF Beyond
    <3>7. v \in prob.voltages
      BY <1>0, <3>2, <3>3, <3>5, <3>6, GivenVoltages
    <3>8. prob' = prob /\ V' = v
      BY <3>1, <3>2 DEF SolveCur
    <3>9. PICK e \in Int : e = NextStep(v, d) /\ IF Up THEN e >= 0 ELSE e <= 0
      BY <1>0, <3>2, <3>3, <3>7, NextDirection
    <3>10. Stepped = [Measured EXCEPT !.V = v, !.Vstep = e]
      BY <3>2, <3>9 DEF Stepped
    <3>11. {"V", "Vstep"} \subseteq DOMAIN Measured
      BY <1>1 DEF Measured
    <3>12. jv'.V = v /\ jv'.Vstep = e
      BY <3>1, <3>10, <3>11
    <3>13. Up' = Up
      BY <3>8 DEF Up
    <3>14. IF Up THEN v >= prob.sweep.Vstart ELSE v <= prob.sweep.Vstart
      BY <3>2, <3>3, <3>5, <3>6
    <3>15. QED BY <1>0, <3>7, <3>8, <3>9, <3>12, <3>13, <3>14 DEF ReachInv, InReach
  <2>4. QED BY <2>2, <2>3
<1>14. CASE Report
  BY <1>0, <1>1, <1>14 DEF Report, Ready, loop, ReachInv, InReach
<1>15. QED
  BY <1>2, <1>3, <1>4, <1>5, <1>6, <1>7, <1>8, <1>9, <1>10, <1>11, <1>12, <1>13, <1>14 DEF Next

LEMMA ReachInit == JVInit => ReachInv
<1> SUFFICES ASSUME JVInit PROVE ReachInv
  OBVIOUS
<1>1. prob \in Problems /\ V = 0 /\ at = "start"
  BY DEF JVInit, LoopInit
<1>2. QED BY <1>1, GivenVoltages DEF ReachInv, InReach

\* No voltage is asked for but those the device is given at: the sweep stays between
\* its start and its end, in either direction, with steps that grow.
THEOREM ReachInvHolds == Spec => []ReachInv
  BY ReachInit, ReachNext, SettingsInvHolds, PTL DEF Spec

-----------------------------------------------------------------------------
(* The points.                                                              *)

\* Solving a device at a voltage it is given at leads to a state of it.
LEMMA SolvedState ==
  ASSUME SolvedInv, InReach
  PROVE  Solved \in prob.states /\ SolvedAt(V, Solved)
<1>1. ns.s \in prob.states /\ prob \in Problems
  BY DEF SolvedInv
<1>2. V \in prob.voltages \cup {Dark}
  BY DEF InReach
<1>3. prob.step \in [(prob.voltages \cup {Dark}) \X prob.states -> prob.states]
  BY <1>1, JVAssumption
<1>4. prob.step[<<V, ns.s>>] \in prob.states
  BY <1>1, <1>2, <1>3
<1>5. QED BY <1>1, <1>4 DEF Solved, Matrix, SolvedAt

LEMMA IonsNext ==
  ASSUME SettingsInv, Ions, prob \in Problems, Next PROVE Ions'
<1>0. Names \subseteq DOMAIN in /\ {"Nion_enabled", "full_newton"} \subseteq Names
  BY SettingsShape DEF SettingsInv, Aside, User, Names
<1>1. SUFFICES ASSUME at' # "start" PROVE ~in'.Nion_enabled \/ in'.full_newton
  BY DEF Ions
<1>a. ASSUME NEW i, Same(in', i), ~i.Nion_enabled \/ i.full_newton
      PROVE  ~in'.Nion_enabled \/ in'.full_newton
  BY <1>a, SameSettings
<1>2. CASE Solver
  BY <1>0, <1>1, <1>2, <1>a, SolverSettings DEF Ions
<1>3. CASE WithoutIons
  <2>1. PICK i : i = [N0 EXCEPT !.Nion_enabled = FALSE] /\ SolveCur(Dark, i)
    BY <1>3 DEF WithoutIons
  <2>2. Names \subseteq DOMAIN i /\ ~i.Nion_enabled
    BY <1>0, <2>1 DEF N0, Names
  <2>3. QED BY <1>a, <2>1, <2>2, SolveCurSettings
<1>4. CASE WithIons
  <2>1. PICK i : i = [in EXCEPT !.Nion_enabled = TRUE, !.full_newton = TRUE] /\ SolveCur(Dark, i)
    BY <1>4 DEF WithIons
  <2>2. Names \subseteq DOMAIN i /\ i.full_newton
    BY <1>0, <2>1 DEF Names
  <2>3. QED BY <1>a, <2>1, <2>2, SolveCurSettings
<1>5. CASE Equilibrium
  <2>1. PICK i : /\ i = [in EXCEPT !.max_electrical_itt = jv.saved.max_electrical_itt,
                                   !.electrical_clamp = jv.saved.electrical_clamp,
                                   !.min_cur_error = jv.saved.min_cur_error]
                 /\ SolveCur(Dark, i)
    BY <1>5 DEF Equilibrium
  <2>2. ~in.Nion_enabled \/ in.full_newton
    BY <1>5 DEF Equilibrium, Ready, Ions
  <2>3. Names \subseteq DOMAIN i /\ i.Nion_enabled = in.Nion_enabled /\ i.full_newton = in.full_newton
    BY <1>0, <2>1 DEF Names
  <2>4. Same(in', i)
    BY <2>1, <2>3, SolveCurSettings
  <2>5. QED BY <1>a, <2>2, <2>3, <2>4
<1>6. CASE Ramps
  <2>1. ~in.Nion_enabled \/ in.full_newton
    BY <1>6 DEF Ramps, Ready, Ions
  <2>2. CASE in' = in
    BY <2>1, <2>2
  <2>3. CASE in' = Replace(in, prob.autoramp)
    <3>1. DOMAIN prob.autoramp \cap {"Nion_enabled", "full_newton"} = {}
      BY JVAssumption
    <3>2. QED BY <1>0, <2>1, <2>3, <3>1 DEF Replace
  <2>4. QED BY <1>6, <2>2, <2>3, Zenon DEF Ramps
<1>7. CASE AutoRampDone
  <2>1. ~in.Nion_enabled \/ in.full_newton
    BY <1>7 DEF AutoRampDone, Ready, Ions
  <2>2. math_save_state = User /\ in' = Replace(in, math_save_state)
    BY <1>7 DEF AutoRampDone, Ready, SettingsInv, Aside
  <2>3. QED BY <1>0, <2>1, <2>2, SettingsShape DEF Replace, User
<1>8. CASE \E v : SolveCur(v, in) /\ at # "start"
  BY <1>0, <1>8, <1>a, SolveCurSettings DEF Ions
<1>9. CASE AutoRamp \/ ExternalFirst \/ ExternalSecond \/ ExternalGuess \/ ExternalAgain
  BY <1>8, <1>9, Zenon DEF AutoRamp, ExternalFirst, ExternalSecond, ExternalGuess, ExternalAgain, Ready
<1>10. CASE ExternalNext
  BY <1>10 DEF ExternalNext, Ready, Ions
<1>11. CASE FirstSolution
  <2>1. PICK i : i = [in EXCEPT !.newton_min_itt = FirstMin] /\ SolveCur(prob.sweep.Vstart, i)
    BY <1>11 DEF FirstSolution
  <2>2. ~in.Nion_enabled \/ in.full_newton
    BY <1>11 DEF FirstSolution, Ready, Ions
  <2>3. Names \subseteq DOMAIN i /\ i.Nion_enabled = in.Nion_enabled /\ i.full_newton = in.full_newton
    BY <1>0, <2>1 DEF Names
  <2>4. Same(in', i)
    BY <2>1, <2>3, SolveCurSettings
  <2>5. QED BY <1>a, <2>2, <2>3, <2>4
<1>12. CASE StartSweep
  <2>1. PICK r : r = Replace(in, math_save_state)
    OBVIOUS
  <2>2. PICK i : i = [r EXCEPT !.stop = FALSE] /\ SolveCur(prob.sweep.Vstart, i)
    BY <1>12, <2>1 DEF StartSweep
  <2>3. math_save_state = User /\ (~in.Nion_enabled \/ in.full_newton)
    BY <1>12 DEF StartSweep, Ready, SettingsInv, Aside, Ions
  <2>4. DOMAIN r = DOMAIN in /\ r.Nion_enabled = in.Nion_enabled /\ r.full_newton = in.full_newton
    BY <1>0, <2>1, <2>3, SettingsShape DEF Replace, User
  <2>5. Names \subseteq DOMAIN i /\ i.Nion_enabled = r.Nion_enabled /\ i.full_newton = r.full_newton
    BY <1>0, <2>2, <2>4 DEF Names
  <2>6. Same(in', i)
    BY <2>2, <2>5, SolveCurSettings
  <2>7. QED BY <1>a, <2>3, <2>4, <2>5, <2>6
<1>13. CASE Point
  <2>1. at = "sweep" /\ (~in.Nion_enabled \/ in.full_newton)
    BY <1>13 DEF Point, Ready, Ions
  <2>2. CASE UNCHANGED loop
    BY <2>1, <2>2 DEF loop
  <2>3. CASE in' = [in EXCEPT !.stop = Stop]
    <3>1. PICK b : in' = [in EXCEPT !.stop = b]
      BY <2>3
    <3>2. QED BY <1>0, <2>1, <3>1
  <2>4. QED BY <1>8, <1>13, <2>1, <2>2, <2>3, Zenon DEF Point
<1>14. CASE Report
  BY <1>14 DEF Report, Ready, loop, Ions
<1>15. QED
  BY <1>2, <1>3, <1>4, <1>5, <1>6, <1>7, <1>9, <1>10, <1>11, <1>12, <1>13, <1>14 DEF Next

\* The sweep never looks at a voltage that was not solved at.
LEMMA SweepSolves ==
  ASSUME Next, ~Solver, at' = "sweep"
  PROVE  pc' = "loop" \/ (in'.Nion_enabled /\ ~in'.full_newton)
<1>1. ASSUME NEW v, NEW i, SolveCur(v, i)
      PROVE  pc' = "loop" \/ (in'.Nion_enabled /\ ~in'.full_newton)
  <2>1. CASE i.Nion_enabled /\ ~i.full_newton
    BY <1>1, <2>1, Zenon DEF SolveCur
  <2>2. CASE ~(i.Nion_enabled /\ ~i.full_newton)
    BY <1>1, <2>2, Zenon DEF SolveCur
  <2>3. QED BY <2>1, <2>2
<1>2. ~(WithoutIons \/ WithIons \/ Equilibrium \/ FirstSolution)
  BY DEF WithoutIons, WithIons, Equilibrium, FirstSolution
<1>3. ~(Ramps \/ AutoRamp \/ AutoRampDone \/ ExternalNext \/ Report)
  BY DEF Ramps, AutoRamp, AutoRampDone, ExternalNext, Report, Ready
<1>4. ~(ExternalFirst \/ ExternalSecond \/ ExternalGuess \/ ExternalAgain)
  BY DEF ExternalFirst, ExternalSecond, ExternalGuess, ExternalAgain, Ready
<1>5. CASE StartSweep
  BY <1>1, <1>5, Zenon DEF StartSweep
<1>6. CASE Point
  <2>1. SolveCur(jv.V + jv.Vstep, in)
    BY <1>6 DEF Point
  <2>2. QED BY <1>1, <2>1
<1>7. QED BY <1>2, <1>3, <1>4, <1>5, <1>6 DEF Next

LEMMA SolvedNext ==
  ASSUME SettingsInv, CacheInv, SolvedInv, InReach, [Next]_vars PROVE SolvedInv'
<1>1. {"s", "last_ittr"} \subseteq DOMAIN ns
  BY DEF CacheInv, NamedByMatrix
<1>2. CASE UNCHANGED vars
  BY <1>2 DEF vars, loop, SolvedInv, SolvedAt, Ions
<1>3. CASE Next /\ ~Solver
  <2>1. Ions'
    BY <1>3, IonsNext DEF SolvedInv
  <2>2. /\ pc = "idle" /\ UNCHANGED <<prob, disk>> /\ pc' \in {"idle", "loop"}
        /\ ns'.s = ns.s /\ (pc' = "loop" => ns'.last_ittr = 0)
    BY <1>1, <1>3, CallerState, SettingsReset
  <2>3. ~(pc' = "idle" /\ at' = "sweep")
    BY <1>3, <2>1, SweepSolves DEF Ions
  <2>4. QED BY <2>1, <2>2, <2>3 DEF SolvedInv, SolvedAt
<1>4. CASE Solver
  <2>1. Ions' /\ UNCHANGED <<prob, V, at>>
    BY <1>4, IonsNext, SolverSettings, SettingsShape DEF Next, SolvedInv, SettingsInv, Aside, User, Names
  <2>2. \A v, s : SolvedAt(v, s)' = SolvedAt(v, s)
    BY <2>1 DEF SolvedAt
  <2>3. CASE FoundInCache
    <3>1. Matrix \in DOMAIN disk /\ ns' = [ns EXCEPT !.s = disk[Matrix]] /\ disk' = disk /\ pc' = "idle"
      BY <2>3 DEF FoundInCache
    <3>2. ns'.s = disk[Matrix]
      BY <1>1, <3>1
    <3>3. SolvedAt(V, ns'.s) /\ ns'.s \in prob.states
      BY <3>1, <3>2 DEF SolvedInv, Matrix
    <3>4. QED BY <2>1, <2>2, <3>1, <3>3 DEF SolvedInv
  <2>4. CASE NoBetter \/ Iterate
    <3>1. /\ pc = "loop" /\ pc' \in {"loop", "after"} /\ UNCHANGED disk
          /\ \/ pc' = "after" /\ ns'.s = ns.s /\ ns.last_ittr >= Steps
             \/ ns'.s = Solved
          /\ prob.use_cache => cache_file_path' = <<V, ns.s>>
      BY <1>1, <2>4, PassState DEF Name, Matrix
    <3>2. SolvedAt(V, ns'.s) /\ ns'.s \in prob.states
      <4>1. CASE ns'.s = Solved
        BY <4>1, SolvedState
      <4>2. CASE ns'.s = ns.s /\ ns.last_ittr >= Steps
        <5>1. ns.last_ittr # 0
          BY <4>2, JVAssumption
        <5>2. QED BY <3>1, <4>2, <5>1 DEF SolvedInv
      <4>3. QED BY <3>1, <4>1, <4>2
    <3>3. QED BY <2>1, <2>2, <3>1, <3>2 DEF SolvedInv
  <2>5. CASE AfterLoop
    <3>1. pc = "after" /\ pc' \in {"idle", "exit"} /\ UNCHANGED ns
      BY <2>5 DEF AfterLoop
    <3>2. \A m \in DOMAIN disk' : disk'[m] \in prob.states /\ SolvedAt(m[1], disk'[m])
      <4>1. CASE disk' = disk
        BY <4>1 DEF SolvedInv
      <4>2. CASE prob.use_cache /\ disk' = [m \in DOMAIN disk \cup {cache_file_path} |->
                                             IF m = cache_file_path THEN ns.s ELSE disk[m]]
        BY <3>1, <4>2 DEF SolvedInv
      <4>3. QED BY <2>5, <4>1, <4>2, Zenon DEF AfterLoop
    <3>3. QED BY <2>1, <2>2, <3>1, <3>2 DEF SolvedInv
  <2>6. QED BY <1>4, <2>3, <2>4, <2>5 DEF Solver, SolveElectrical
<1>5. QED BY <1>2, <1>3, <1>4

LEMMA SolvedInit == JVInit => SolvedInv
  BY FirstState, JVAssumption DEF SolvedInv, Ions

\* A solution the code uses was solved where it is used: with the cache or without,
\* however the loop ended.
THEOREM SolvedInvHolds == Spec => []SolvedInv
<1>1. ReachInv => InReach
  BY DEF ReachInv
<1>2. QED BY <1>1, SolvedInit, SolvedNext, SettingsInvHolds, CacheInvHolds, ReachInvHolds, PTL DEF Spec

-----------------------------------------------------------------------------
(* The lists.                                                               *)

\* Only a point adds to them.
LEMMA ListsStay ==
  ASSUME SettingsInv, Next, ~Point
  PROVE  /\ UNCHANGED <<prob, power_den, R_list>>
         /\ jv'.ittr = jv.ittr /\ jv'.first = jv.first /\ jv'.found_voc = jv.found_voc
         /\ jv'.Pdenlast = jv.Pdenlast /\ jv'.mu_pmax = jv.mu_pmax
         /\ out' = out \/ Report
<1>0. /\ {"V", "Vstep", "ittr", "first", "Jlast", "Pdenlast", "mu_pmax", "found_voc", "target",
          "tries", "i1", "saved"} \subseteq DOMAIN jv
      /\ Names \subseteq DOMAIN in
  BY SettingsShape DEF SettingsInv, Aside, User, Names
<1>1. CASE Solver
  BY <1>0, <1>1, SolverSettings
<1>2. CASE WithoutIons \/ WithIons \/ Equilibrium \/ AutoRamp
  BY <1>0, <1>2 DEF WithoutIons, WithIons, Equilibrium, AutoRamp, SolveCur, lists
<1>3. CASE Ramps
  <2>1. UNCHANGED <<prob, lists>>
    BY <1>3 DEF Ramps
  <2>2. \/ jv' = jv
        \/ \E t : jv' = [jv EXCEPT !.target = t]
    BY <1>3, Zenon DEF Ramps
  <2>3. QED BY <1>0, <2>1, <2>2 DEF lists
<1>4. CASE AutoRampDone
  BY <1>4 DEF AutoRampDone, lists
<1>5. CASE ExternalFirst \/ ExternalSecond \/ ExternalGuess \/ ExternalAgain
  BY <1>0, <1>5 DEF ExternalFirst, ExternalSecond, ExternalGuess, ExternalAgain, SolveCur, lists
<1>6. CASE ExternalNext
  <2>1. UNCHANGED <<prob, lists>>
    BY <1>6 DEF ExternalNext
  <2>2. \/ jv' = jv
        \/ \E t : jv' = [jv EXCEPT !.target = t]
    BY <1>6, Zenon DEF ExternalNext
  <2>3. QED BY <1>0, <2>1, <2>2 DEF lists
<1>7. CASE FirstSolution \/ StartSweep
  BY <1>0, <1>7 DEF FirstSolution, StartSweep, SolveCur, lists
<1>8. CASE Report
  BY <1>8 DEF Report, loop
<1>9. QED BY <1>1, <1>2, <1>3, <1>4, <1>5, <1>6, <1>7, <1>8 DEF Next

LEMMA PointSteps ==
  ASSUME SettingsInv, Point
  PROVE  /\ prob' = prob /\ out' = out
         /\ jv'.ittr = jv.ittr + 1 /\ jv'.first = FALSE
         /\ jv'.Pdenlast = (IF Pmax THEN Abs(Here.p) ELSE jv.Pdenlast)
         /\ jv'.mu_pmax = (IF Pmax THEN Here.v ELSE jv.mu_pmax)
         /\ jv'.found_voc = (jv.found_voc \/ Voc)
<1>1. prob' = prob /\ out' = out
  BY DEF Point, SolveCur, loop
<1>2. jv' \in {Measured, Stepped}
  BY DEF Point
<1>3. {"V", "Vstep", "ittr", "first", "Jlast", "Pdenlast", "mu_pmax", "found_voc"} \subseteq DOMAIN jv
  BY DEF SettingsInv, Aside
<1>4. QED BY <1>1, <1>2, <1>3, PointFigures

\* The figures of a point are numbers, and belong together.
LEMMA HereIs ==
  ASSUME SolvedInv, InReach, at = "sweep"
  PROVE  /\ Here \in Figures /\ Here.p = Here.j * Here.x
         /\ Here.v = V /\ Here.s = ns.s
         /\ ForwardOnly(prob) => Here.x >= 0 \/ Here.j <= 0
<1>1. V \in prob.voltages /\ V \in Int
  BY JVAssumption DEF InReach, SolvedInv
<1>2. PICK j \in Int : j = J(V, ns.s)
  BY <1>1, JVAssumption DEF SolvedInv, J
<1>3. PICK r \in Nat : r = prob.Rcontact
  BY JVAssumption DEF SolvedInv
<1>4. r * j \in Int
  OBVIOUS
<1>5. PICK x \in Int : x = V + r * j
  BY <1>1, <1>4
<1>6. Vexternal = x
  BY <1>2, <1>3, <1>5 DEF Vexternal
<1>7. j * x \in Int
  OBVIOUS
<1>8. Here = [x |-> x, p |-> j * x, j |-> j, v |-> V, s |-> ns.s]
  BY <1>2, <1>6 DEF Here
<1>9. Here \in Figures /\ Here.p = Here.j * Here.x /\ Here.v = V /\ Here.s = ns.s /\ Here.x = x /\ Here.j = j
  BY <1>1, <1>7, <1>8 DEF Figures, SolvedInv
<1>10. ASSUME ForwardOnly(prob), j > 0 PROVE x >= 0
  <2>1. ~(V < 0)
    BY <1>1, <1>2, <1>10 DEF ForwardOnly, SolvedInv, J
  <2>2. r * j >= 0
    BY <1>10
  <2>3. QED BY <1>1, <1>4, <1>5, <2>1, <2>2
<1>11. QED BY <1>9, <1>10

\* A list with a point more.
LEMMA Appended ==
  ASSUME NEW S, NEW q \in Seq(S), NEW e \in S, NEW r, r = Append(q, e)
  PROVE  /\ Len(q) \in Nat /\ DOMAIN q = 1 .. Len(q)
         /\ r \in Seq(S) /\ Len(r) = Len(q) + 1 /\ DOMAIN r = 1 .. Len(q) + 1
         /\ \A k \in DOMAIN q : r[k] = q[k]
         /\ r[Len(q) + 1] = e
<1>1. Len(q) \in Nat /\ DOMAIN q = 1 .. Len(q)
  BY LenProperties
<1>2. /\ r \in Seq(S) /\ Len(r) = Len(q) + 1
      /\ \A k \in 1 .. Len(q) : r[k] = q[k] /\ r[Len(q) + 1] = e
  BY AppendProperties
<1>3. r[Len(q) + 1] = e
  BY AppendProperties
<1>4. DOMAIN r = 1 .. Len(r)
  BY <1>2, LenProperties
<1>5. QED BY <1>1, <1>2, <1>3, <1>4

\* A point that is listed: it becomes the last of both lists.
LEMMA PointListed ==
  ASSUME SolvedInv, InReach, PointsInv, Point, jv.ittr # 0
  PROVE  LET n == Len(power_den) + 1 IN
         /\ ~jv.first /\ n \in Nat /\ DOMAIN power_den = 1 .. n - 1
         /\ power_den' \in Seq(Figures) /\ DOMAIN power_den' = 1 .. n /\ Len(power_den') = n
         /\ \A k \in DOMAIN power_den : power_den'[k] = power_den[k]
         /\ power_den'[n] = Here
<1>1. ~jv.first /\ jv.ittr > 0
  BY DEF PointsInv, Aligned
<1>2. power_den' = Append(power_den, Here)
  BY <1>1 DEF Point, Append_power
<1>3. power_den \in Seq(Figures) /\ Here \in Figures
  BY HereIs DEF PointsInv, Aligned, Point, Ready
<1>4. QED BY <1>1, <1>2, <1>3, Appended

LEMMA PointUnlisted ==
  ASSUME PointsInv, Point, jv.ittr = 0
  PROVE  UNCHANGED <<power_den, R_list>> /\ jv.first /\ ~Pmax /\ ~Voc
<1>1. jv.first /\ ~(jv.ittr > 0)
  BY DEF PointsInv, Aligned
<1>2. QED BY <1>1, Zenon DEF Point, Append_power, Append_R, Pmax, Voc

LEMMA PointsNext ==
  ASSUME SettingsInv, SolvedInv, InReach, PointsInv, [Next]_vars PROVE PointsInv'
<1>1. CASE UNCHANGED vars
  BY <1>1 DEF vars, loop, PointsInv, Aligned, PointsSolvedAtTheirVoltage, Figures
<1>2. CASE Next /\ ~Point
  BY <1>2, ListsStay DEF PointsInv, Aligned, PointsSolvedAtTheirVoltage, Figures
<1>3. CASE Point
  <2>1. /\ prob' = prob /\ jv'.ittr = jv.ittr + 1 /\ jv'.first = FALSE
        /\ jv'.found_voc = (jv.found_voc \/ Voc)
    BY <1>3, PointSteps
  <2>2. jv'.ittr \in Nat /\ (jv'.first <=> jv'.ittr = 0)
    <3>1. jv.ittr \in Nat
      BY DEF PointsInv, Aligned
    <3>2. QED BY <2>1, <3>1
  <2>3. jv'.found_voc => prob'.dump_sim_info
    <3>1. Voc => prob.dump_sim_info
      BY DEF Voc
    <3>2. jv.found_voc => prob.dump_sim_info
      BY DEF PointsInv, Aligned
    <3>3. QED BY <2>1, <3>1, <3>2, Zenon
  <2>4. CASE jv.ittr = 0
    BY <1>3, <2>1, <2>2, <2>3, <2>4, PointUnlisted
       DEF PointsInv, Aligned, PointsSolvedAtTheirVoltage, Figures
  <2>5. CASE jv.ittr # 0
    <3>1. PICK n \in Nat :
            /\ n = Len(power_den) + 1 /\ DOMAIN power_den = 1 .. n - 1
            /\ power_den' \in Seq(Figures) /\ DOMAIN power_den' = 1 .. n /\ Len(power_den') = n
            /\ \A k \in DOMAIN power_den : power_den'[k] = power_den[k]
            /\ power_den'[n] = Here
      BY <1>3, <2>5, PointListed
    <3>2. \A k \in DOMAIN power_den' : k \in DOMAIN power_den \/ k = n
      BY <3>1
    <3>3. /\ Here.p = Here.j * Here.x /\ Here.v = V /\ Here.s = ns.s /\ Here.x \in Int
          /\ pc = "idle" /\ at = "sweep"
      <4>1. pc = "idle" /\ at = "sweep"
        BY <1>3 DEF Point, Ready
      <4>2. Here \in Figures /\ Here.p = Here.j * Here.x /\ Here.v = V /\ Here.s = ns.s
        BY <4>1, HereIs
      <4>3. QED BY <4>1, <4>2 DEF Figures
    <3>4. Figures' = Figures
      BY <2>1 DEF Figures
    <3>5. \A k \in DOMAIN power_den' : power_den'[k].p = power_den'[k].j * power_den'[k].x
      BY <3>1, <3>2, <3>3 DEF PointsInv, Aligned
    <3>6. PointsSolvedAtTheirVoltage'
      <4>1. SolvedAt(Here.v, Here.s)
        BY <3>3 DEF SolvedInv
      <4>2. QED BY <2>1, <3>1, <3>2, <4>1 DEF PointsInv, PointsSolvedAtTheirVoltage, SolvedAt
    <3>7. /\ R_list' \in Seq(Int)
          /\ prob'.dump_sim_info =>
               /\ Len(R_list') = Len(power_den')
               /\ \A k \in DOMAIN power_den' : R_list'[k] = power_den'[k].x
      <4>1. CASE prob.dump_sim_info
        <5>1. R_list' = Append(R_list, Here.x)
          BY <1>3, <2>5, <4>1, PointListed DEF Point, Append_R
        <5>2. R_list \in Seq(Int) /\ Len(R_list) = Len(power_den)
          BY <4>1 DEF PointsInv, Aligned
        <5>3. /\ Len(R_list) \in Nat /\ DOMAIN R_list = 1 .. Len(R_list)
              /\ R_list' \in Seq(Int) /\ Len(R_list') = Len(R_list) + 1
              /\ \A k \in DOMAIN R_list : R_list'[k] = R_list[k]
              /\ R_list'[Len(R_list) + 1] = Here.x
          BY <3>3, <5>1, <5>2, Appended
        <5>4. DOMAIN R_list = DOMAIN power_den /\ Len(R_list) + 1 = n
          BY <3>1, <5>2, <5>3
        <5>5. \A k \in DOMAIN power_den : R_list[k] = power_den[k].x
          BY <4>1 DEF PointsInv, Aligned
        <5>6. \A k \in DOMAIN power_den' : R_list'[k] = power_den'[k].x
          BY <3>1, <3>2, <5>3, <5>4, <5>5
        <5>7. QED BY <3>1, <5>3, <5>4, <5>6
      <4>2. CASE ~prob.dump_sim_info
        <5>1. R_list' = R_list
          BY <1>3, <4>2, Zenon DEF Point, Append_R
        <5>2. QED BY <2>1, <4>2, <5>1 DEF PointsInv, Aligned
      <4>3. QED BY <4>1, <4>2
    <3>8. QED BY <2>2, <2>3, <3>1, <3>4, <3>5, <3>6, <3>7 DEF PointsInv, Aligned
  <2>6. QED BY <2>4, <2>5
<1>4. QED BY <1>1, <1>2, <1>3

LEMMA PointsInit == JVInit => PointsInv
<1> SUFFICES ASSUME JVInit PROVE PointsInv
  OBVIOUS
<1>1. power_den = << >> /\ R_list = << >> /\ jv.ittr = 0 /\ jv.first = TRUE /\ jv.found_voc = FALSE
  BY DEF JVInit
<1>2. DOMAIN power_den = {} /\ Len(R_list) = Len(power_den)
  BY <1>1, NoFiles
<1>3. power_den \in Seq(Figures) /\ R_list \in Seq(Int)
  BY <1>1, EmptySeq
<1>4. QED BY <1>1, <1>2, <1>3 DEF PointsInv, Aligned, PointsSolvedAtTheirVoltage

THEOREM PointsInvHolds == Spec => []PointsInv
<1>1. ReachInv => InReach
  BY DEF ReachInv
<1>2. QED BY <1>1, PointsInit, PointsNext, SettingsInvHolds, SolvedInvHolds, ReachInvHolds, PTL DEF Spec

\* Every point of the curve is a state solved at the voltage it is recorded at, with
\* the cache or without, however the loop ended.
THEOREM PointsSolvedHolds == Spec => []PointsSolvedAtTheirVoltage
<1>1. PointsInv => PointsSolvedAtTheirVoltage
  BY DEF PointsInv
<1>2. QED BY <1>1, PointsInvHolds, PTL
-----------------------------------------------------------------------------
(* The largest power.                                                       *)

\* The order of the natural numbers, as the theorems on well-founded relations want it.
Less == {r \in Nat \X Nat : r[1] < r[2]}

\* Every set of natural numbers has a least one.
LEMMA Least ==
  ASSUME NEW S \in SUBSET Nat, S # {}
  PROVE  \E n \in S : \A m \in S : n <= m
<1>1. OpToRel(<, Nat) = Less
  BY DEF OpToRel, Less
<1>2. IsWellFoundedOn(Less, Nat)
  BY <1>1, NatLessThanWellFounded, Zenon
<1>3. PICK n \in S : \A m \in S : <<m, n>> \notin Less
  BY WFMin, <1>2, Zenon
<1>4. \A m \in Nat : m < n => <<m, n>> \in Less
  BY DEF Less
<1>5. \A m \in S : ~(m < n)
  BY <1>3, <1>4
<1>6. QED BY <1>5

\* k is where the first of the smallest of the first n points is.
SmallestAt(l, n, k) == /\ k \in 1 .. n
                       /\ \A i \in 1 .. n : l[k].p <= l[i].p
                       /\ \A i \in 1 .. k - 1 : l[k].p < l[i].p

LEMMA SmallestExists ==
  ASSUME NEW l, NEW N \in Nat \ {0}, \A i \in 1 .. N : l[i].p \in Int
  PROVE  \E k : SmallestAt(l, N, k)
<1> DEFINE Bad == {n \in 1 .. N : ~\E k : SmallestAt(l, n, k)}
<1>1. Bad \in SUBSET Nat
  OBVIOUS
<1> HIDE DEF Bad
<1>2. SUFFICES ASSUME Bad # {} PROVE FALSE
  BY DEF Bad
<1>3. PICK n \in Bad : \A m \in Bad : n <= m
  BY <1>1, <1>2, Least
<1>4. n \in 1 .. N /\ ~\E k : SmallestAt(l, n, k)
  BY DEF Bad
<1>5. CASE n = 1
  <2>1. SmallestAt(l, 1, 1)
    BY DEF SmallestAt
  <2>2. QED BY <1>4, <1>5, <2>1
<1>6. CASE n # 1
  <2>1. n - 1 \in 1 .. N /\ n - 1 \notin Bad
    BY <1>3, <1>4, <1>6
  <2>2. PICK k : SmallestAt(l, n - 1, k)
    BY <2>1 DEF Bad
  <2>3. /\ k \in 1 .. n - 1
        /\ \A i \in 1 .. n - 1 : l[k].p <= l[i].p
        /\ \A i \in 1 .. k - 1 : l[k].p < l[i].p
    BY <2>2 DEF SmallestAt
  <2>4. CASE l[n].p < l[k].p
    <3>1. \A i \in 1 .. n - 1 : l[n].p < l[i].p
      BY <1>4, <2>3, <2>4
    <3>2. SmallestAt(l, n, n)
      BY <1>4, <3>1 DEF SmallestAt
    <3>3. QED BY <1>4, <3>2
  <2>5. CASE ~(l[n].p < l[k].p)
    <3>1. l[k].p <= l[n].p
      BY <1>4, <2>3, <2>5
    <3>2. k \in 1 .. n
      BY <1>4, <2>3
    <3>3. \A i \in 1 .. n : l[k].p <= l[i].p
      <4>1. \A i \in 1 .. n : i \in 1 .. n - 1 \/ i = n
        BY <1>4
      <4>2. QED BY <2>3, <3>1, <4>1
    <3>4. SmallestAt(l, n, k)
      BY <2>3, <3>2, <3>3 DEF SmallestAt
    <3>5. QED BY <1>4, <3>4
  <2>6. QED BY <2>4, <2>5
<1>7. QED BY <1>5, <1>6

\* inter_get_min_pos finds it in the list of the points.
LEMMA MinPosIs ==
  ASSUME PointsInv, power_den # << >>
  PROVE  LET k == MinPos(power_den) IN
         /\ k \in DOMAIN power_den
         /\ \A i \in DOMAIN power_den : power_den[k].p <= power_den[i].p
         /\ \A i \in 1 .. k - 1 : power_den[k].p < power_den[i].p
<1>1. power_den \in Seq(Figures)
  BY DEF PointsInv, Aligned
<1>2. PICK N \in Nat \ {0} : DOMAIN power_den = 1 .. N
  <2>1. Len(power_den) \in Nat /\ DOMAIN power_den = 1 .. Len(power_den)
    BY <1>1, LenProperties
  <2>2. Len(power_den) # 0
    BY <1>1, EmptySeq
  <2>3. QED BY <2>1, <2>2
<1>3. \A i \in 1 .. N : power_den[i].p \in Int
  <2>1. \A i \in 1 .. N : power_den[i] \in Figures
    BY <1>1, <1>2, ElementOfSeq, LenProperties
  <2>2. QED BY <2>1 DEF Figures
<1>4. PICK k : SmallestAt(power_den, N, k)
  BY <1>3, SmallestExists
<1>5. /\ k \in DOMAIN power_den
      /\ \A i \in DOMAIN power_den : power_den[k].p <= power_den[i].p
      /\ \A i \in 1 .. k - 1 : power_den[k].p < power_den[i].p
  BY <1>2, <1>4 DEF SmallestAt
<1>6. QED BY <1>5, Zenon DEF MinPos

\* A power is negative where current flows against the voltage.
LEMMA Signs ==
  ASSUME NEW x \in Int, NEW j \in Int
  PROVE  /\ j * x \in Int
         /\ x > 0 /\ j < 0 => j * x < 0
         /\ j * x < 0 /\ (x >= 0 \/ j <= 0) => x > 0 /\ j < 0
<1>1. x > 0 /\ j < 0 => j * x < 0
  OBVIOUS
<1>2. j * x \in Int
  OBVIOUS
<1>3. ASSUME x >= 0, j >= 0 PROVE j * x >= 0
  BY <1>3
<1>4. ASSUME x <= 0, j <= 0 PROVE j * x >= 0
  BY <1>4
<1>5. QED BY <1>1, <1>2, <1>3, <1>4

\* What a point in the lists is.
LEMMA PointIs ==
  ASSUME PointsInv, NEW k \in DOMAIN power_den
  PROVE  /\ power_den[k].x \in Int /\ power_den[k].j \in Int /\ power_den[k].p \in Int
         /\ power_den[k].p = power_den[k].j * power_den[k].x
         /\ k \in Nat
<1>1. power_den \in Seq(Figures)
  BY DEF PointsInv, Aligned
<1>2. power_den[k] \in Figures /\ k \in Nat
  BY <1>1, ElementOfSeq, LenProperties
<1>3. QED BY <1>2 DEF Figures, PointsInv, Aligned

LEMMA RememberedNext ==
  ASSUME SettingsInv, SolvedInv, InReach, PointsInv, Remembered, Point PROVE Remembered'
<1>1. /\ prob' = prob
      /\ jv'.Pdenlast = (IF Pmax THEN Abs(Here.p) ELSE jv.Pdenlast)
      /\ jv'.mu_pmax = (IF Pmax THEN Here.v ELSE jv.mu_pmax)
  BY PointSteps
<1>2. CASE jv.ittr = 0
  BY <1>1, <1>2, PointUnlisted DEF Remembered, Generating
<1>3. CASE jv.ittr # 0
  <2>1. PICK n \in Nat :
          /\ ~jv.first
          /\ n = Len(power_den) + 1 /\ DOMAIN power_den = 1 .. n - 1
          /\ DOMAIN power_den' = 1 .. n
          /\ \A k \in DOMAIN power_den : power_den'[k] = power_den[k]
          /\ power_den'[n] = Here
    BY <1>3, PointListed
  <2>2. Here \in Figures /\ at = "sweep"
    BY HereIs DEF Point, Ready
  <2>3. PICK q \in Nat : q = Abs(Here.p)
    BY <2>2 DEF Figures, Abs
  <2>4. jv.Pdenlast \in Int /\ jv.Pdenlast >= -1
    BY DEF Remembered
  <2>5. jv'.Pdenlast \in Int /\ jv'.Pdenlast >= -1
    BY <1>1, <2>3, <2>4
  <2>6. SUFFICES ASSUME prob.dump_sim_info
                 PROVE  /\ \A k \in Generating' : Abs(power_den'[k].p) <= jv'.Pdenlast
                        /\ \/ Generating' = {} /\ jv'.Pdenlast = -1
                           \/ \E k \in Generating' :
                                /\ Abs(power_den'[k].p) = jv'.Pdenlast
                                /\ power_den'[k].v = jv'.mu_pmax
                                /\ \A i \in Generating' : i < k => Abs(power_den'[i].p) < jv'.Pdenlast
    BY <1>1, <2>5 DEF Remembered
  <2>7. /\ \A k \in Generating : Abs(power_den[k].p) <= jv.Pdenlast
        /\ \/ Generating = {} /\ jv.Pdenlast = -1
           \/ \E k \in Generating :
                /\ Abs(power_den[k].p) = jv.Pdenlast
                /\ power_den[k].v = jv.mu_pmax
                /\ \A i \in Generating : i < k => Abs(power_den[i].p) < jv.Pdenlast
    BY <2>6 DEF Remembered
  <2>8. Generating \subseteq 1 .. n - 1
    BY <2>1 DEF Generating
  <2>9. \A k \in Generating : Abs(power_den[k].p) \in Nat /\ power_den'[k] = power_den[k]
    BY <2>1, <2>8, PointIs DEF Abs, Generating
  <2>10. Generating' = Generating \cup {k \in {n} : Here.x > 0 /\ Here.j < 0}
    <3>1. Generating' = {k \in 1 .. n : power_den'[k].x > 0 /\ power_den'[k].j < 0}
      BY <2>1 DEF Generating
    <3>2. QED BY <2>1, <3>1 DEF Generating
  <2>11. CASE Pmax
    <3>1. q > jv.Pdenlast /\ Here.x > 0 /\ Here.j < 0
      BY <2>3, <2>11 DEF Pmax
    <3>2. jv'.Pdenlast = q /\ jv'.mu_pmax = Here.v
      BY <1>1, <2>3, <2>11
    <3>3. Generating' = Generating \cup {n}
      BY <2>10, <3>1
    <3>4. \A k \in Generating : Abs(power_den'[k].p) < q
      BY <2>4, <2>7, <2>9, <3>1
    <3>5. Abs(power_den'[n].p) = q /\ power_den'[n].v = Here.v
      BY <2>1, <2>3
    <3>6. \A k \in Generating' : Abs(power_den'[k].p) <= q
      BY <2>9, <3>3, <3>4, <3>5
    <3>7. \A i \in Generating' : i < n => Abs(power_den'[i].p) < q
      BY <3>3, <3>4
    <3>8. QED BY <3>2, <3>3, <3>5, <3>6, <3>7
  <2>12. CASE ~Pmax
    <3>1. Here.x > 0 /\ Here.j < 0 => q <= jv.Pdenlast
      BY <2>1, <2>3, <2>4, <2>6, <2>12 DEF Pmax
    <3>2. jv'.Pdenlast = jv.Pdenlast /\ jv'.mu_pmax = jv.mu_pmax
      BY <1>1, <2>12
    <3>3. \A k \in Generating' : Abs(power_den'[k].p) <= jv.Pdenlast
      BY <2>1, <2>3, <2>7, <2>9, <2>10, <3>1
    <3>4. CASE Generating = {} /\ jv.Pdenlast = -1
      <4>1. Generating' = {}
        BY <2>10, <3>1, <3>4
      <4>2. QED BY <3>2, <3>4, <4>1
    <3>5. CASE \E k \in Generating :
                 /\ Abs(power_den[k].p) = jv.Pdenlast
                 /\ power_den[k].v = jv.mu_pmax
                 /\ \A i \in Generating : i < k => Abs(power_den[i].p) < jv.Pdenlast
      <4>1. PICK w \in Generating :
                 /\ Abs(power_den[w].p) = jv.Pdenlast
                 /\ power_den[w].v = jv.mu_pmax
                 /\ \A i \in Generating : i < w => Abs(power_den[i].p) < jv.Pdenlast
        BY <3>5
      <4>2. \A i \in Generating' : i < w => i \in Generating
        BY <2>8, <2>10
      <4>3. \A i \in Generating' : i < w => Abs(power_den'[i].p) < jv.Pdenlast
        BY <2>9, <4>1, <4>2
      <4>4. w \in Generating' /\ power_den'[w] = power_den[w]
        BY <2>9, <2>10
      <4>5. QED BY <3>2, <3>3, <4>1, <4>3, <4>4
    <3>6. QED BY <2>7, <3>4, <3>5
  <2>13. QED BY <2>11, <2>12
<1>4. QED BY <1>2, <1>3

LEMMA PassiveNext ==
  ASSUME SettingsInv, SolvedInv, InReach, PointsInv, ForwardOnly(prob), Passive, Point
  PROVE  Passive'
<1>1. CASE jv.ittr = 0
  BY <1>1, PointUnlisted DEF Passive
<1>2. CASE jv.ittr # 0
  <2>1. PICK n \in Nat :
          /\ DOMAIN power_den = 1 .. n - 1 /\ DOMAIN power_den' = 1 .. n
          /\ \A k \in DOMAIN power_den : power_den'[k] = power_den[k]
          /\ power_den'[n] = Here
    BY <1>2, PointListed
  <2>2. Here.x >= 0 \/ Here.j <= 0
    BY HereIs DEF Point, Ready
  <2>3. \A k \in DOMAIN power_den' : k \in DOMAIN power_den \/ k = n
    BY <2>1
  <2>4. QED BY <2>1, <2>2, <2>3 DEF Passive
<1>3. QED BY <1>1, <1>2

\* What is looked up by its place and what was remembered are of one point.
LEMMA ReportsOnePoint ==
  ASSUME PointsInv, Remembered, ForwardOnly(prob) => Passive, Report
  PROVE  \A i \in DOMAIN out' :
           /\ out'[i].r_pmax = out'[i].V_pmax
           /\ ForwardOnly(prob) /\ out'[i].Pmax > 0 => out'[i].mu_pmax = out'[i].v
<1>1. CASE ~(power_den # << >> /\ jv.found_voc)
  <2>1. out' = << >>
    BY <1>1 DEF Report
  <2>2. QED BY <2>1, NoFiles
<1>2. CASE power_den # << >> /\ jv.found_voc
  <2>1. PICK k : k = MinPos(power_den)
    OBVIOUS
  <2>2. PICK r : r = [V_pmax |-> power_den[k].x, r_pmax |-> R_list[k], Pmax |-> -power_den[k].p,
                      mu_pmax |-> jv.mu_pmax, v |-> power_den[k].v]
    OBVIOUS
  <2>3. out' = << r >>
    BY <1>2, <2>1, <2>2 DEF Report
  <2>4. /\ k \in DOMAIN power_den
        /\ \A i \in DOMAIN power_den : power_den[k].p <= power_den[i].p
        /\ \A i \in 1 .. k - 1 : power_den[k].p < power_den[i].p
    BY <1>2, <2>1, MinPosIs
  <2>5. prob.dump_sim_info /\ R_list[k] = power_den[k].x
    BY <1>2, <2>4 DEF PointsInv, Aligned
  <2>6. /\ r.r_pmax = r.V_pmax /\ r.Pmax = -power_den[k].p
        /\ r.mu_pmax = jv.mu_pmax /\ r.v = power_den[k].v
    BY <2>2, <2>5
  <2>7. ASSUME ForwardOnly(prob), r.Pmax > 0 PROVE r.mu_pmax = r.v
    <3>1. k \in Generating
      <4>1. /\ power_den[k].x \in Int /\ power_den[k].j \in Int /\ power_den[k].p \in Int
            /\ power_den[k].p = power_den[k].j * power_den[k].x
        BY <2>4, PointIs
      <4>2. power_den[k].x >= 0 \/ power_den[k].j <= 0
        BY <2>4, <2>7 DEF Passive
      <4>3. power_den[k].p < 0
        BY <2>6, <2>7, <4>1
      <4>4. power_den[k].x > 0 /\ power_den[k].j < 0
        BY <4>1, <4>2, <4>3, Signs
      <4>5. QED BY <2>4, <4>4 DEF Generating
    <3>2. /\ \A i \in Generating : Abs(power_den[i].p) <= jv.Pdenlast
          /\ \E w \in Generating :
                /\ Abs(power_den[w].p) = jv.Pdenlast
                /\ power_den[w].v = jv.mu_pmax
                /\ \A i \in Generating : i < w => Abs(power_den[i].p) < jv.Pdenlast
      BY <2>5, <3>1 DEF Remembered
    <3>3. PICK w \in Generating :
                /\ Abs(power_den[w].p) = jv.Pdenlast
                /\ power_den[w].v = jv.mu_pmax
                /\ \A i \in Generating : i < w => Abs(power_den[i].p) < jv.Pdenlast
      BY <3>2
    <3>4. ASSUME NEW i \in Generating
          PROVE  power_den[i].p \in Int /\ Abs(power_den[i].p) = -power_den[i].p /\ i \in Nat
      <4>1. /\ power_den[i].x \in Int /\ power_den[i].j \in Int /\ power_den[i].p \in Int
            /\ power_den[i].p = power_den[i].j * power_den[i].x /\ i \in Nat
            /\ power_den[i].x > 0 /\ power_den[i].j < 0
        BY PointIs DEF Generating
      <4>2. power_den[i].p < 0
        BY <4>1, Signs
      <4>3. QED BY <4>1, <4>2 DEF Abs
    <3>5. w \in DOMAIN power_den
      BY DEF Generating
    <3>6. PICK a \in Int, b \in Int : /\ a = power_den[k].p /\ b = power_den[w].p
                                     /\ Abs(power_den[k].p) = -a /\ Abs(power_den[w].p) = -b
      BY <3>1, <3>4
    <3>7. a <= b /\ -a <= -b
      BY <2>4, <3>1, <3>2, <3>3, <3>5, <3>6
    <3>8. k \in Nat /\ w \in Nat
      BY <3>1, <3>4
    <3>9. ~(k < w)
      BY <3>1, <3>3, <3>6, <3>7
    <3>10. ~(w < k)
      <4>1. w < k => w \in 1 .. k - 1
        <5>1. w # 0
          <6>1. power_den \in Seq(Figures)
            BY DEF PointsInv, Aligned
          <6>2. QED BY <3>5, <6>1, LenProperties
        <5>2. QED BY <3>8, <5>1
      <4>2. QED BY <2>4, <3>6, <3>7, <4>1
    <3>11. k = w
      BY <3>8, <3>9, <3>10
    <3>12. QED BY <2>6, <3>3, <3>11
  <2>8. \A i \in DOMAIN << r >> : << r >>[i] = r
    OBVIOUS
  <2>9. QED BY <2>3, <2>6, <2>7, <2>8
<1>3. QED BY <1>1, <1>2

LEMMA PowerNext ==
  ASSUME SettingsInv, SolvedInv, InReach, PointsInv, PowerInv, [Next]_vars PROVE PowerInv'
<1>1. Remembered /\ (ForwardOnly(prob) => Passive /\ PmaxOwnPoint)
  BY DEF PowerInv
<1>2. CASE UNCHANGED vars
  BY <1>2 DEF vars, loop, PowerInv, Remembered, Generating, Passive, PmaxOwnPoint, ForwardOnly
<1>3. CASE Next /\ ~Point
  <2>1. /\ UNCHANGED <<prob, power_den, R_list>>
        /\ jv'.Pdenlast = jv.Pdenlast /\ jv'.mu_pmax = jv.mu_pmax
        /\ out' = out \/ Report
    BY <1>3, ListsStay
  <2>2. Remembered'
    BY <1>1, <2>1 DEF Remembered, Generating
  <2>3. ForwardOnly(prob)' => ForwardOnly(prob) /\ Passive'
    BY <1>1, <2>1 DEF ForwardOnly, Passive
  <2>4. ForwardOnly(prob) => PmaxOwnPoint'
    <3>1. CASE Report
      BY <1>1, <3>1, ReportsOnePoint DEF PmaxOwnPoint
    <3>2. CASE out' = out
      BY <1>1, <3>2 DEF PmaxOwnPoint
    <3>3. QED BY <2>1, <3>1, <3>2
  <2>5. QED BY <2>2, <2>3, <2>4 DEF PowerInv
<1>4. CASE Point
  <2>1. prob' = prob /\ out' = out
    BY <1>4, PointSteps
  <2>2. Remembered'
    BY <1>1, <1>4, RememberedNext
  <2>3. ForwardOnly(prob)' => ForwardOnly(prob)
    BY <2>1 DEF ForwardOnly
  <2>4. ForwardOnly(prob) => Passive'
    BY <1>1, <1>4, PassiveNext
  <2>5. ForwardOnly(prob) => PmaxOwnPoint'
    BY <1>1, <2>1 DEF PmaxOwnPoint
  <2>6. QED BY <2>2, <2>3, <2>4, <2>5 DEF PowerInv
<1>5. QED BY <1>2, <1>3, <1>4

LEMMA PowerInit == JVInit => PowerInv
<1> SUFFICES ASSUME JVInit PROVE PowerInv
  OBVIOUS
<1>1. power_den = << >> /\ jv.Pdenlast = -1 /\ out = << >>
  BY DEF JVInit
<1>2. DOMAIN power_den = {} /\ DOMAIN out = {}
  BY <1>1, NoFiles
<1>3. Generating = {}
  BY <1>2 DEF Generating
<1>4. Remembered
  BY <1>1, <1>3 DEF Remembered
<1>5. QED BY <1>2, <1>4 DEF PowerInv, Passive, PmaxOwnPoint

THEOREM PowerInvHolds == Spec => []PowerInv
<1>1. ReachInv => InReach
  BY DEF ReachInv
<1>2. QED
  BY <1>1, PowerInit, PowerNext, SettingsInvHolds, SolvedInvHolds, PointsInvHolds, ReachInvHolds,
     PTL DEF Spec

\* The rate and the mobility reported at the maximum power point are those of the
\* point with the largest power, if no problem is of a device whose current flows
\* forward at a reverse voltage.
THEOREM PmaxOwnPointHolds ==
  ASSUME \A p \in Problems : ForwardOnly(p)
  PROVE  Spec => []PmaxOwnPoint
<1>1. ReachInv /\ PowerInv => PmaxOwnPoint
  BY DEF ReachInv, PowerInv
<1>2. QED BY <1>1, ReachInvHolds, PowerInvHolds, PTL

-----------------------------------------------------------------------------
(* The simplex.                                                             *)

Corner == 0 .. ndim

\* A least element is the one Least chooses.
LEMMA LeastIs ==
  ASSUME NEW S, S \subseteq Int, NEW m \in S, \A e \in S : m <= e
  PROVE  Fitting!Least(S) = m
<1>1. Fitting!Least(S) \in S /\ \A e \in S : Fitting!Least(S) <= e
  BY DEF Fitting!Least
<1>2. Fitting!Least(S) <= m /\ m <= Fitting!Least(S) /\ Fitting!Least(S) \in Int /\ m \in Int
  BY <1>1
<1> QED BY <1>2

LEMMA LeastOfTwo ==
  ASSUME NEW m \in Int, NEW e \in Int
  PROVE  Fitting!Least({m, e}) = IF e < m THEN e ELSE m
<1>1. CASE e < m
  BY <1>1, LeastIs
<1>2. CASE ~(e < m)
  BY <1>2, LeastIs
<1> QED BY <1>1, <1>2

-----------------------------------------------------------------------------
(* The ranking *)

Worse(f, s) == {t \in Corner : f[t] > f[s] \/ (f[t] = f[s] /\ t < s)}

LEMMA Ranks ==
  ASSUME ndim \in Nat, NEW f \in [Corner -> Int], NEW s \in Corner
  PROVE  /\ IsFiniteSet(Worse(f, s)) /\ s \notin Worse(f, s)
         /\ Fitting!Place(f, s) = Cardinality(Worse(f, s)) /\ Fitting!Place(f, s) \in Corner
<1>1. IsFiniteSet(Corner) /\ Cardinality(Corner) = ndim + 1
  <2>1. 0 \in Int /\ ndim \in Int
    OBVIOUS
  <2>2. IsFiniteSet(0 .. ndim) /\ Cardinality(0 .. ndim) = IF 0 > ndim THEN 0 ELSE ndim - 0 + 1
    BY <2>1, FS_Interval
  <2>3. ndim - 0 + 1 = ndim + 1 /\ ~(0 > ndim)
    OBVIOUS
  <2> QED BY <2>2, <2>3 DEF Corner
<1>2. s \notin Worse(f, s) /\ Worse(f, s) \subseteq Corner \ {s}
  BY DEF Worse, Corner
<1>3. IsFiniteSet(Corner \ {s}) /\ Cardinality(Corner \ {s}) = ndim
  <2>1. IsFiniteSet(Corner \ {s}) /\ Cardinality(Corner \ {s}) = Cardinality(Corner) - 1
    BY <1>1, FS_RemoveElement
  <2> QED BY <1>1, <2>1
<1>4. IsFiniteSet(Worse(f, s)) /\ Cardinality(Worse(f, s)) <= ndim
  BY <1>2, <1>3, FS_Subset
<1>5. Cardinality(Worse(f, s)) \in Nat
  BY <1>4, FS_CardinalityType
<1>6. Fitting!Place(f, s) = Cardinality(Worse(f, s))
  BY DEF Fitting!Place, Fitting!Cardinality, Cardinality, Worse, Corner
<1>7. Fitting!Place(f, s) \in 0 .. ndim
  BY <1>4, <1>5, <1>6
<1> QED BY <1>2, <1>4, <1>6, <1>7 DEF Corner

\* No two corners have the same place.
LEMMA RanksDiffer ==
  ASSUME ndim \in Nat, NEW f \in [Corner -> Int], NEW s \in Corner, NEW t \in Corner,
         Fitting!Place(f, s) = Fitting!Place(f, t)
  PROVE  s = t
<1>1. ASSUME NEW p \in Corner, NEW q \in Corner, p \in Worse(f, q)
      PROVE  Fitting!Place(f, p) # Fitting!Place(f, q)
  <2>1. Worse(f, p) \subseteq Worse(f, q)
    BY <1>1 DEF Worse, Corner
  <2>2. p \notin Worse(f, p)
    BY Ranks
  <2>3. Cardinality(Worse(f, p)) # Cardinality(Worse(f, q))
    BY <1>1, <2>1, <2>2, Ranks, FS_Subset
  <2> QED BY <2>3, Ranks
<1>2. s = t \/ s \in Worse(f, t) \/ t \in Worse(f, s)
  <2>1. f[s] \in Int /\ f[t] \in Int /\ s \in Int /\ t \in Int
    BY DEF Corner
  <2> QED BY <2>1 DEF Worse
<1> QED BY <1>1, <1>2

\* So every place is taken, by the corner At gives.
LEMMA AtPlace ==
  ASSUME ndim \in Nat, NEW f \in [Corner -> Int], NEW k \in Corner
  PROVE  Fitting!At(f, k) \in Corner /\ Fitting!Place(f, Fitting!At(f, k)) = k
<1> DEFINE g == [s \in Corner |-> Fitting!Place(f, s)]
<1>1. g \in [Corner -> Corner]
  BY Ranks
<1>2. \A s, t \in Corner : g[s] = g[t] => s = t
  BY RanksDiffer
<1>3. g \in Injection(Corner, Corner)
  BY <1>1, <1>2 DEF Injection, IsInjective
<1>4. IsFiniteSet(Corner)
  <2>1. 0 \in Int /\ ndim \in Int
    OBVIOUS
  <2> QED BY <2>1, FS_Interval DEF Corner
<1>5. g \in Surjection(Corner, Corner)
  <2> HIDE DEF g
  <2> QED BY <1>3, <1>4, FS_Injection
<1>6. \E s \in Corner : g[s] = k
  BY <1>5 DEF Surjection
<1>7. \E s \in 0 .. ndim : Fitting!Place(f, s) = k
  BY <1>6 DEF Corner
<1> QED BY <1>7 DEF Fitting!At, Corner

\* The last place is that of a best corner.
LEMMA LastIsBest ==
  ASSUME ndim \in Nat, NEW f \in [Corner -> Int]
  PROVE  \A t \in Corner : f[Fitting!At(f, ndim)] <= f[t]
<1>1. PICK s \in Corner : s = Fitting!At(f, ndim) /\ Fitting!Place(f, s) = ndim
  <2>1. ndim \in Corner
    BY DEF Corner
  <2> QED BY <2>1, AtPlace
<1>2. IsFiniteSet(Corner) /\ Cardinality(Corner) = ndim + 1
  <2>1. 0 \in Int /\ ndim \in Int
    OBVIOUS
  <2>2. IsFiniteSet(0 .. ndim) /\ Cardinality(0 .. ndim) = IF 0 > ndim THEN 0 ELSE ndim - 0 + 1
    BY <2>1, FS_Interval
  <2>3. ndim - 0 + 1 = ndim + 1 /\ ~(0 > ndim)
    OBVIOUS
  <2> QED BY <2>2, <2>3 DEF Corner
<1>3. IsFiniteSet(Corner \ {s}) /\ Cardinality(Corner \ {s}) = ndim
  <2>1. IsFiniteSet(Corner \ {s}) /\ Cardinality(Corner \ {s}) = Cardinality(Corner) - 1
    BY <1>2, FS_RemoveElement
  <2> QED BY <1>2, <2>1
<1>4. Worse(f, s) = Corner \ {s}
  <2>1. Worse(f, s) \subseteq Corner \ {s}
    BY Ranks DEF Worse
  <2> QED BY <1>1, <1>3, <2>1, Ranks, FS_Subset
<1>5. \A t \in Corner : f[t] \in Int /\ (t # s => f[t] >= f[s])
  BY <1>4 DEF Worse
<1> QED BY <1>1, <1>5

-----------------------------------------------------------------------------

\* m is the least error at a corner
IsLeast(m) == (\E s \in Corner : y[s] = m) /\ \A s \in Corner : m <= y[s]

InLoop == {"reflect", "move", "expand", "answer", "judge"}
TypeInv ==
  /\ ndim \in Nat \ {0}
  /\ fit_pc \in InLoop \cup {"fit_now", "returned", "finished"}
  /\ fit_pc \in InLoop => y \in [Corner -> Errors]
  /\ fit_pc \in {"move", "expand"} =>
       ytry \in Errors /\ i_hi0 \in Corner /\ i_hi1 \in Corner /\ i_lo \in Corner
  /\ tried \in [reflect : Errors \cup {NoError}, contract : Errors \cup {NoError}]
\* where the least error is
LeastInv ==
  /\ fit_pc \in {"reflect", "expand", "answer", "judge"} => IsLeast(least)
  /\ fit_pc = "move" => IsLeast(y[i_lo]) /\ least = IF ytry < y[i_lo] THEN ytry ELSE y[i_lo]
  /\ fit_pc \in {"move", "expand"} => i_hi0 # i_lo
  /\ fit_pc = "expand" => ytry_reflect = least
  /\ fit_pc \in {"fit_now", "judge", "returned", "finished"} => fit_error = least
FitInv == TypeInv /\ LeastInv

LEMMA FitInit ==
  ASSUME Fitting!FitAssumption
  PROVE  Fitting!Init => FitInv
BY DEF Fitting!FitAssumption, Fitting!Init, FitInv, TypeInv, LeastInv, InLoop, Fitting!Untried

\* A corner is replaced.
LEMMA Replaced ==
  ASSUME TypeInv, fit_pc \in {"move", "expand"}, NEW e \in Errors, Fitting!Sync(i_hi0, e), ndim' = ndim
  PROVE  /\ y' \in [Corner' -> Errors] /\ y'[i_hi0] = e
         /\ \A s \in Corner : s # i_hi0 => y'[s] = y[s]
         /\ Corner' = Corner
         /\ tried' = Fitting!Untried
<1>1. y \in [Corner -> Errors] /\ i_hi0 \in Corner
  BY DEF TypeInv, InLoop
<1>2. y' = [y EXCEPT ![i_hi0] = e] /\ tried' = Fitting!Untried
  BY DEF Fitting!Sync
<1>3. Corner' = Corner
  BY DEF Corner
<1> QED BY <1>1, <1>2, <1>3

LEMMA FitStep ==
  ASSUME Fitting!FitAssumption, FitInv, [Fitting!Next]_Fitting!vars
  PROVE  FitInv'
<1>1. Errors \subseteq Int /\ ndim \in Nat \ {0} /\ \A S : S \subseteq Errors => S \subseteq Int
  BY DEF Fitting!FitAssumption, FitInv, TypeInv
<1>2. \A f \in [Corner -> Errors] : f \in [Corner -> Int]
  BY <1>1
<1>3. ndim' = ndim /\ Corner' = Corner
  <2>1. ndim' = ndim
    BY DEF Fitting!Next, Fitting!vars, Fitting!FitNewton, Fitting!FitSimplex, Fitting!Reflect,
           Fitting!Accept, Fitting!Better, Fitting!Expand, Fitting!Contract, Fitting!Shrink,
           Fitting!Answer, Fitting!Abandon, Fitting!Judge, Fitting!Return
  <2> QED BY <2>1 DEF Corner
<1>4. CASE Fitting!FitNewton
  BY <1>4 DEF Fitting!FitNewton, FitInv, TypeInv, LeastInv, InLoop
<1>5. CASE Fitting!FitSimplex
  <2>1. y' \in [Corner -> Errors]
    BY <1>5 DEF Fitting!FitSimplex, Corner
  <2>2. PICK s \in Corner : \A t \in Corner : y'[s] <= y'[t]
    <3>1. ndim \in Corner
      BY <1>1 DEF Corner
    <3>2. Fitting!At(y', ndim) \in Corner
      BY <1>1, <1>2, <2>1, <3>1, AtPlace
    <3> QED BY <1>1, <1>2, <2>1, <3>2, LastIsBest
  <2>3. least' = y'[s]
    <3>1. least' = Fitting!Least({y'[t] : t \in Corner})
      BY <1>5 DEF Fitting!FitSimplex, Corner
    <3>2. {y'[t] : t \in Corner} \subseteq Int
      BY <1>1, <2>1
    <3>3. y'[s] \in {y'[t] : t \in Corner} /\ \A e \in {y'[t] : t \in Corner} : y'[s] <= e
      BY <2>2
    <3> QED BY <3>1, <3>2, <3>3, LeastIs
  <2>4. IsLeast(least)'
    BY <1>3, <2>2, <2>3 DEF IsLeast
  <2>5. fit_pc' = "reflect" /\ tried' = Fitting!Untried
    BY <1>5 DEF Fitting!FitSimplex
  <2> QED BY <1>1, <1>3, <2>1, <2>4, <2>5 DEF FitInv, TypeInv, LeastInv, InLoop, Fitting!Untried
<1>6. CASE Fitting!Reflect
  <2>1. /\ fit_pc = "reflect" /\ fit_pc' = "move" /\ y' = y
        /\ y \in [Corner -> Errors] /\ y \in [Corner -> Int] /\ IsLeast(least)
    BY <1>2, <1>6 DEF Fitting!Reflect, FitInv, TypeInv, LeastInv, InLoop
  <2>2. ytry' \in Errors /\ tried' \in [reflect : Errors \cup {NoError}, contract : Errors \cup {NoError}]
    <3>1. ytry' \in Errors
      BY <1>6 DEF Fitting!Reflect, FitInv, TypeInv
    <3> QED BY <1>6, <3>1 DEF Fitting!Reflect, FitInv, TypeInv
  <2>3. PICK hi0 \in Corner, hi1 \in Corner, lo \in Corner :
          /\ hi0 = Fitting!At(y, 0) /\ hi1 = Fitting!At(y, 1) /\ lo = Fitting!At(y, ndim)
          /\ Fitting!Place(y, hi0) = 0 /\ Fitting!Place(y, lo) = ndim
    <3>1. 0 \in Corner /\ 1 \in Corner /\ ndim \in Corner
      BY <1>1 DEF Corner
    <3>2. /\ Fitting!At(y, 0) \in Corner /\ Fitting!Place(y, Fitting!At(y, 0)) = 0
          /\ Fitting!At(y, 1) \in Corner
          /\ Fitting!At(y, ndim) \in Corner /\ Fitting!Place(y, Fitting!At(y, ndim)) = ndim
      BY <1>1, <2>1, <3>1, AtPlace
    <3> QED BY <3>2
  <2>4. i_hi0' = hi0 /\ i_hi1' = hi1 /\ i_lo' = lo /\ hi0 # lo
    BY <1>1, <1>6, <2>3 DEF Fitting!Reflect
  <2>5. \A s \in Corner : y[lo] <= y[s]
    BY <1>1, <2>1, <2>3, LastIsBest
  <2>6. y[lo] = least
    <3>1. PICK s \in Corner : y[s] = least /\ y[s] <= y[lo]
      BY <2>1 DEF IsLeast
    <3>2. y[lo] <= y[s] /\ y[s] \in Int /\ y[lo] \in Int
      BY <2>1, <2>5
    <3> QED BY <3>1, <3>2
  <2>7. least' = IF ytry' < y[lo] THEN ytry' ELSE y[lo]
    <3>1. least' = Fitting!Least({y[lo], ytry'}) /\ y[lo] \in Int /\ ytry' \in Int
      BY <1>1, <1>6, <2>1, <2>2, <2>6 DEF Fitting!Reflect
    <3> QED BY <3>1, LeastOfTwo
  <2>8. IsLeast(y[i_lo])'
    BY <1>3, <2>1, <2>4, <2>5 DEF IsLeast
  <2>9. TypeInv'
    BY <1>1, <1>3, <2>1, <2>2, <2>4 DEF TypeInv, InLoop
  <2>10. LeastInv'
    BY <2>1, <2>4, <2>7, <2>8 DEF LeastInv
  <2> QED BY <2>9, <2>10 DEF FitInv
<1>7. ASSUME fit_pc \in {"move", "expand"}
      PROVE  /\ y \in [Corner -> Errors] /\ y \in [Corner -> Int]
             /\ ytry \in Errors /\ ytry \in Int
             /\ i_hi0 \in Corner /\ i_hi1 \in Corner /\ i_lo \in Corner /\ i_hi0 # i_lo
             /\ fit_pc = "move" => /\ \A s \in Corner : y[i_lo] <= y[s]
                               /\ least = IF ytry < y[i_lo] THEN ytry ELSE y[i_lo]
             /\ fit_pc = "expand" => IsLeast(least) /\ ytry_reflect = least
  BY <1>1, <1>2, <1>7 DEF FitInv, TypeInv, LeastInv, InLoop, IsLeast
<1>8. CASE Fitting!Accept
  <2>1. /\ fit_pc = "move" /\ fit_pc' = "answer" /\ least' = least /\ ytry < y[i_hi1]
        /\ ytry > y[i_lo] /\ Fitting!Sync(i_hi0, ytry)
    BY <1>8 DEF Fitting!Accept
  <2>2. /\ y' \in [Corner' -> Errors] /\ y'[i_hi0] = ytry
        /\ \A s \in Corner : s # i_hi0 => y'[s] = y[s]
        /\ tried' = Fitting!Untried
    BY <1>3, <1>7, <2>1, Replaced DEF FitInv
  <2>3. least = y[i_lo]
    BY <1>7, <2>1
  <2>4. IsLeast(least)'
    <3>1. y'[i_lo] = least' /\ i_lo \in Corner'
      BY <1>3, <1>7, <2>1, <2>2, <2>3
    <3>2. \A s \in Corner : least' <= y'[s]
      <4> TAKE s \in Corner
      <4>1. CASE s = i_hi0
        BY <1>7, <2>1, <2>2, <2>3, <4>1
      <4>2. CASE s # i_hi0
        BY <1>7, <2>1, <2>2, <2>3, <4>2
      <4> QED BY <4>1, <4>2
    <3> QED BY <1>3, <3>1, <3>2 DEF IsLeast
  <2> QED BY <1>1, <1>3, <2>1, <2>2, <2>4 DEF FitInv, TypeInv, LeastInv, InLoop, Fitting!Untried
<1>9. CASE Fitting!Better
  <2>1. /\ fit_pc = "move" /\ fit_pc' = "expand" /\ least' = least /\ ytry < y[i_lo]
        /\ Fitting!Sync(i_hi0, ytry)
        /\ ytry_reflect' = ytry /\ UNCHANGED <<Fitting!corners, ytry>>
    BY <1>9 DEF Fitting!Better
  <2>2. /\ y' \in [Corner' -> Errors] /\ y'[i_hi0] = ytry
        /\ \A s \in Corner : s # i_hi0 => y'[s] = y[s]
        /\ tried' = Fitting!Untried
    BY <1>3, <1>7, <2>1, Replaced DEF FitInv
  <2>3. least = ytry
    BY <1>7, <2>1
  <2>4. IsLeast(least)'
    <3>1. y'[i_hi0] = least' /\ i_hi0 \in Corner'
      BY <1>3, <1>7, <2>1, <2>2, <2>3
    <3>2. \A s \in Corner : least' <= y'[s]
      <4> TAKE s \in Corner
      <4>1. CASE s = i_hi0
        BY <1>7, <2>1, <2>2, <2>3, <4>1
      <4>2. CASE s # i_hi0
        <5>1. y'[s] = y[s] /\ y[i_lo] <= y[s] /\ y[s] \in Int /\ y[i_lo] \in Int
          BY <1>7, <2>1, <2>2, <4>2
        <5> QED BY <1>7, <2>1, <2>3, <5>1
      <4> QED BY <4>1, <4>2
    <3> QED BY <1>3, <3>1, <3>2 DEF IsLeast
  <2> QED BY <1>1, <1>3, <1>7, <2>1, <2>2, <2>3, <2>4
          DEF FitInv, TypeInv, LeastInv, InLoop, Fitting!Untried, Fitting!corners
<1>10. CASE Fitting!Expand
  <2>1. /\ fit_pc = "expand" /\ fit_pc' = "answer" /\ ytry' \in Errors /\ ytry' \in Int
        /\ least' = Fitting!Least({least, ytry'}) /\ Fitting!Expanded(ytry')
    BY <1>1, <1>10 DEF Fitting!Expand
  <2>2. IsLeast(least) /\ least \in Int /\ ytry_reflect = least
    BY <1>7, <2>1 DEF IsLeast
  <2>3. least' = IF ytry' < least THEN ytry' ELSE least
    BY <2>1, <2>2, LeastOfTwo
  <2>4. CASE ytry' < least
    <3>1. Fitting!Sync(i_hi0, ytry') /\ least' = ytry'
      BY <2>1, <2>2, <2>3, <2>4 DEF Fitting!Expanded
    <3>2. /\ y' \in [Corner' -> Errors] /\ y'[i_hi0] = ytry'
          /\ \A s \in Corner : s # i_hi0 => y'[s] = y[s]
          /\ tried' = Fitting!Untried
      BY <1>3, <2>1, <3>1, Replaced DEF FitInv
    <3>3. \A s \in Corner : least' <= y'[s]
      <4> TAKE s \in Corner
      <4>1. CASE s = i_hi0
        BY <2>1, <3>1, <3>2, <4>1
      <4>2. CASE s # i_hi0
        <5>1. y'[s] = y[s] /\ least <= y[s] /\ y[s] \in Int
          BY <1>7, <2>1, <2>2, <3>2, <4>2 DEF IsLeast
        <5> QED BY <2>1, <2>2, <2>4, <3>1, <5>1
      <4> QED BY <4>1, <4>2
    <3>4. IsLeast(least)'
      BY <1>3, <1>7, <2>1, <3>1, <3>2, <3>3 DEF IsLeast
    <3> QED BY <1>1, <1>3, <2>1, <3>2, <3>4 DEF FitInv, TypeInv, LeastInv, InLoop, Fitting!Untried
  <2>5. CASE ~(ytry' < least)
    <3>1. y' = y /\ tried' = tried /\ least' = least
      BY <2>1, <2>2, <2>3, <2>5 DEF Fitting!Expanded
    <3>2. IsLeast(least)'
      BY <1>3, <2>2, <3>1 DEF IsLeast
    <3> QED BY <1>1, <1>3, <1>7, <2>1, <3>1, <3>2 DEF FitInv, TypeInv, LeastInv, InLoop
  <2> QED BY <2>4, <2>5
<1>11. CASE Fitting!Contract
  <2>1. /\ fit_pc = "move" /\ fit_pc' = "answer" /\ ytry >= y[i_hi1]
        /\ least' = Fitting!Least({least, ytry'})
        /\ IF ytry' < y[i_hi0] THEN Fitting!Sync(i_hi0, ytry')
           ELSE y' = y /\ tried' = [tried EXCEPT !.contract = ytry']
    BY <1>11 DEF Fitting!Contract
  <2>2. ytry' \in Errors /\ ytry' \in Int
    BY <1>1, <1>11 DEF Fitting!Contract, FitInv, TypeInv
  <2>3. least = y[i_lo] /\ least \in Int /\ \A s \in Corner : least <= y[s]
    <3>1. y[i_lo] <= y[i_hi1] /\ y[i_lo] \in Int /\ y[i_hi1] \in Int
      BY <1>7, <2>1
    <3> QED BY <1>7, <2>1, <3>1
  <2>4. least' = IF ytry' < least THEN ytry' ELSE least
    BY <2>1, <2>2, <2>3, LeastOfTwo
  <2>5. CASE ytry' < y[i_hi0]
    <3>1. Fitting!Sync(i_hi0, ytry')
      BY <2>1, <2>5
    <3>2. /\ y' \in [Corner' -> Errors] /\ y'[i_hi0] = ytry'
          /\ \A s \in Corner : s # i_hi0 => y'[s] = y[s]
          /\ tried' = Fitting!Untried
      BY <1>3, <2>1, <2>2, <3>1, Replaced DEF FitInv
    <3>3. \A s \in Corner : least' <= y'[s]
      <4> TAKE s \in Corner
      <4>1. CASE s = i_hi0
        BY <2>2, <2>3, <2>4, <3>2, <4>1
      <4>2. CASE s # i_hi0
        <5>1. y'[s] = y[s] /\ least <= y[s] /\ y[s] \in Int
          BY <1>7, <2>1, <2>3, <3>2, <4>2
        <5> QED BY <2>2, <2>3, <2>4, <5>1
      <4> QED BY <4>1, <4>2
    <3>4. y'[i_hi0] = least' \/ y'[i_lo] = least'
      BY <1>7, <2>1, <2>3, <2>4, <3>2
    <3>5. IsLeast(least)'
      BY <1>3, <1>7, <2>1, <3>3, <3>4 DEF IsLeast
    <3> QED BY <1>1, <1>3, <2>1, <3>2, <3>5 DEF FitInv, TypeInv, LeastInv, InLoop, Fitting!Untried
  <2>6. CASE ~(ytry' < y[i_hi0])
    <3>1. y' = y /\ tried' = [tried EXCEPT !.contract = ytry']
      BY <2>1, <2>6
    <3>2. least' = least
      <4>1. least <= y[i_hi0] /\ y[i_hi0] \in Int
        BY <1>7, <2>1, <2>3
      <4> QED BY <2>2, <2>3, <2>4, <2>6, <4>1
    <3>3. IsLeast(least)'
      BY <1>3, <1>7, <2>1, <2>3, <3>1, <3>2 DEF IsLeast
    <3>4. tried' \in [reflect : Errors \cup {NoError}, contract : Errors \cup {NoError}]
      BY <2>2, <3>1 DEF FitInv, TypeInv
    <3> QED BY <1>1, <1>3, <1>7, <2>1, <3>1, <3>3, <3>4 DEF FitInv, TypeInv, LeastInv, InLoop
  <2> QED BY <2>5, <2>6
<1>12. CASE Fitting!Shrink
  <2>1. /\ fit_pc = "move" /\ fit_pc' = "answer" /\ ytry = y[i_lo] /\ tried' = Fitting!Untried
        /\ y' \in [Corner -> Errors] /\ y'[i_lo] = y[i_lo]
        /\ least' = Fitting!Least({least} \cup {y'[s] : s \in Corner})
    BY <1>12 DEF Fitting!Shrink, Corner
  <2>2. least = y'[i_lo] /\ i_lo \in Corner
    BY <1>7, <2>1
  <2>3. PICK s \in Corner : \A t \in Corner : y'[s] <= y'[t]
    <3>1. ndim \in Corner
      BY <1>1 DEF Corner
    <3>2. Fitting!At(y', ndim) \in Corner
      BY <1>1, <1>2, <2>1, <3>1, AtPlace
    <3> QED BY <1>1, <1>2, <2>1, <3>2, LastIsBest
  <2>4. least' = y'[s]
    <3>1. {least} \cup {y'[t] : t \in Corner} = {y'[t] : t \in Corner}
      BY <2>2
    <3>2. {y'[t] : t \in Corner} \subseteq Int
      BY <1>1, <2>1
    <3>3. y'[s] \in {y'[t] : t \in Corner} /\ \A e \in {y'[t] : t \in Corner} : y'[s] <= e
      BY <2>3
    <3> QED BY <2>1, <3>1, <3>2, <3>3, LeastIs
  <2>5. IsLeast(least)'
    BY <1>3, <2>3, <2>4 DEF IsLeast
  <2> QED BY <1>1, <1>3, <2>1, <2>5 DEF FitInv, TypeInv, LeastInv, InLoop, Fitting!Untried
<1>13. CASE Fitting!Answer
  <2>1. /\ fit_pc = "answer" /\ fit_pc' \in {"returned", "judge"} /\ y' = y /\ tried' = tried /\ least' = least
        /\ fit_error' = y[Fitting!At(y, ndim)]
        /\ y \in [Corner -> Errors] /\ y \in [Corner -> Int] /\ IsLeast(least)
    BY <1>2, <1>13 DEF Fitting!Answer, FitInv, TypeInv, LeastInv, InLoop
  <2>2. Fitting!At(y, ndim) \in Corner /\ \A s \in Corner : y[Fitting!At(y, ndim)] <= y[s]
    <3>1. ndim \in Corner
      BY <1>1 DEF Corner
    <3> QED BY <1>1, <2>1, <3>1, AtPlace, LastIsBest
  <2>3. fit_error' = least
    <3>1. PICK s \in Corner : y[s] = least /\ y[s] <= y[Fitting!At(y, ndim)]
      BY <2>1, <2>2 DEF IsLeast
    <3>2. y[Fitting!At(y, ndim)] <= y[s] /\ y[s] \in Int /\ y[Fitting!At(y, ndim)] \in Int
      BY <2>1, <2>2
    <3> QED BY <2>1, <3>1, <3>2
  <2>4. IsLeast(least)'
    BY <1>3, <2>1 DEF IsLeast
  <2> QED BY <1>1, <1>3, <2>1, <2>3, <2>4 DEF FitInv, TypeInv, LeastInv, InLoop
<1>14. CASE Fitting!Abandon
  BY <1>1, <1>3, <1>14 DEF Fitting!Abandon, FitInv, TypeInv, LeastInv, InLoop, IsLeast
<1>15. CASE Fitting!Judge
  <2>1. /\ fit_pc = "judge" /\ fit_pc' \in {"reflect", "returned"}
        /\ UNCHANGED <<ndim, y, fit_error, tried, least>>
    BY <1>15 DEF Fitting!Judge
  <2>2. IsLeast(least)'
    BY <1>3, <2>1 DEF FitInv, LeastInv, IsLeast
  <2> QED BY <1>1, <1>3, <2>1, <2>2 DEF FitInv, TypeInv, LeastInv, InLoop
<1>16. CASE Fitting!Return
  BY <1>1, <1>3, <1>16 DEF Fitting!Return, Fitting!judged, FitInv, TypeInv, LeastInv, InLoop
<1>17. CASE UNCHANGED Fitting!vars
  BY <1>1, <1>3, <1>17 DEF Fitting!vars, Fitting!corners, Fitting!judged, FitInv, TypeInv, LeastInv,
                                  InLoop, IsLeast
<1> QED
  BY <1>4, <1>5, <1>6, <1>8, <1>9, <1>10, <1>11, <1>12, <1>13, <1>14, <1>15, <1>16, <1>17
     DEF Fitting!Next

-----------------------------------------------------------------------------

\* What simplex_copy_ans reports is the least error computed since the simplex was set
\* up, for any number of parameters, any errors and any settings of the fit.
THEOREM NothingForgottenHolds ==
  ASSUME Fitting!FitAssumption
  PROVE  Fitting!Spec => []NothingForgotten
<1>1. FitInv => NothingForgotten
  BY DEF FitInv, LeastInv, NothingForgotten, Fitting!NothingForgotten
<1> QED BY <1>1, FitInit, FitStep, PTL DEF Fitting!Spec

-----------------------------------------------------------------------------
(* Expressions: the stack.                                                  *)

LEMMA ReverseIs ==
  ASSUME NEW A, NEW s \in Seq(A)
  PROVE  /\ Measure!Reverse(s) \in Seq(A)
         /\ Len(Measure!Reverse(s)) = Len(s)
         /\ \A k \in 1 .. Len(s) : Measure!Reverse(s)[k] = s[Len(s) - k + 1]
<1>1. /\ Len(s) \in Nat
      /\ \A k \in 1 .. Len(s) : s[k] \in A
  BY LenProperties, ElementOfSeq
<1>2. \A k \in 1 .. Len(s) : Len(s) - k + 1 \in 1 .. Len(s)
  BY <1>1
<1>3. Measure!Reverse(s) = [k \in 1 .. Len(s) |-> s[(Len(s) - k) + 1]]
  BY DEF Measure!Reverse
<1>4. Measure!Reverse(s) \in [1 .. Len(s) -> A]
  BY <1>1, <1>2, <1>3
<1>5. Measure!Reverse(s) \in Seq(A)
  BY <1>1, <1>4, IsASeq
<1>6. DOMAIN Measure!Reverse(s) = 1 .. Len(s)
  BY <1>3
<1>7. Len(Measure!Reverse(s)) = Len(s)
  BY <1>1, <1>5, <1>6, LenProperties
<1>8. QED BY <1>3, <1>5, <1>7

\* What lies on top of s is moved in reverse.
LEMMA TopMoved ==
  ASSUME NEW A, NEW s \in Seq(A), NEW t \in Seq(A)
  PROVE  /\ Measure!Popped(s \o t, Len(t)) = s
         /\ Measure!Moved(s \o t, Len(t)) = Measure!Reverse(t)
<1>1. /\ s \o t \in Seq(A) /\ Len(s \o t) = Len(s) + Len(t)
      /\ Len(s) \in Nat /\ Len(t) \in Nat
  BY ConcatProperties, LenProperties
<1>2. SubSeq(s \o t, 1, Len(s)) = s
  BY SubSeqOfConcat1, SubSeqFull, <1>1, LenProperties
<1>3. SubSeq(s \o t, Len(s) + 1, Len(s) + Len(t)) = t
  BY SubSeqOfConcat2, SubSeqFull, <1>1, LenProperties
<1>4. /\ Len(s \o t) - Len(t) = Len(s)
      /\ Len(s \o t) - Len(t) + 1 = Len(s) + 1
  BY <1>1
<1>5. Measure!Popped(s \o t, Len(t)) = SubSeq(s \o t, 1, Len(s))
  BY <1>4 DEF Measure!Popped
<1>6. Measure!Moved(s \o t, Len(t)) = Measure!Reverse(SubSeq(s \o t, Len(s) + 1, Len(s) + Len(t)))
  BY <1>1, <1>4 DEF Measure!Moved
<1>7. QED BY <1>2, <1>3, <1>5, <1>6

\* The run of symbols of S on top is t where what is below t is not in S.
LEMMA RunIs ==
  ASSUME NEW A, NEW s \in Seq(A), NEW t \in Seq(A), NEW S,
         \A k \in 1 .. Len(t) : t[k] \in S,
         s = <<>> \/ Measure!Last(s) \notin S
  PROVE  Measure!Run(s \o t, S) = Len(t)
<1> DEFINE w == s \o t
           P(n) == /\ \A k \in 0 .. n - 1 : w[Len(w) - k] \in S
                   /\ n < Len(w) => w[Len(w) - n] \notin S
<1>1. /\ w \in Seq(A) /\ Len(w) = Len(s) + Len(t)
      /\ Len(s) \in Nat /\ Len(t) \in Nat
      /\ \A k \in 1 .. Len(w) : w[k] = IF k <= Len(s) THEN s[k] ELSE t[k - Len(s)]
  BY ConcatProperties, LenProperties
<1> HIDE DEF w
<1>2. \A k \in 0 .. Len(t) - 1 : w[Len(w) - k] \in S
  <2> TAKE k \in 0 .. Len(t) - 1
  <2>1. /\ Len(w) - k \in 1 .. Len(w) /\ ~(Len(w) - k <= Len(s))
        /\ Len(w) - k - Len(s) \in 1 .. Len(t)
    BY <1>1
  <2>2. QED BY <1>1, <2>1
<1>3. Len(s) > 0 => w[Len(s)] \notin S
  <2> HAVE Len(s) > 0
  <2>1. s # <<>>
    BY EmptySeq
  <2>2. Len(s) \in 1 .. Len(w)
    BY <1>1
  <2>3. w[Len(s)] = s[Len(s)]
    BY <1>1, <2>2
  <2>4. QED BY <2>1, <2>3 DEF Measure!Last
<1>4. P(Len(t))
  <2>1. Len(t) < Len(w) => Len(s) > 0
    BY <1>1
  <2>2. Len(w) - Len(t) = Len(s)
    BY <1>1
  <2>3. QED BY <1>2, <1>3, <2>1, <2>2
<1>5. ASSUME NEW n \in 0 .. Len(w), P(n)
      PROVE  n = Len(t)
  <2>1. ~(n < Len(t))
    <3> SUFFICES ASSUME n < Len(t) PROVE FALSE
      OBVIOUS
    <3>1. n \in 0 .. Len(t) - 1 /\ n < Len(w)
      BY <1>1
    <3>2. QED BY <1>2, <1>5, <3>1
  <2>2. ~(n > Len(t))
    <3> SUFFICES ASSUME n > Len(t) PROVE FALSE
      OBVIOUS
    <3>1. Len(t) \in 0 .. n - 1 /\ Len(s) > 0 /\ Len(w) - Len(t) = Len(s)
      BY <1>1
    <3>2. QED BY <1>3, <1>5, <3>1
  <2>3. QED BY <1>1, <2>1, <2>2
<1>6. Len(t) \in 0 .. Len(w)
  BY <1>1
<1> HIDE DEF P
<1>7. (CHOOSE n \in 0 .. Len(w) : P(n)) = Len(t)
  BY <1>4, <1>5, <1>6
<1>8. QED BY <1>7 DEF P, w, Measure!Run

\* The operator below the others is moved last.
LEMMA ReverseBelow ==
  ASSUME NEW A, NEW o \in A, NEW s \in Seq(A)
  PROVE  Measure!Reverse(<<o>> \o s) = Measure!Reverse(s) \o <<o>>
<1> DEFINE w == <<o>> \o s
<1>1. /\ <<o>> \in Seq(A) /\ Len(<<o>>) = 1 /\ <<o>>[1] = o
      /\ Len(s) \in Nat
  BY LenProperties
<1>2. /\ w \in Seq(A) /\ Len(w) = Len(s) + 1
      /\ \A k \in 1 .. Len(w) : w[k] = IF k <= 1 THEN o ELSE s[k - 1]
  BY <1>1, ConcatProperties
<1> HIDE DEF w
<1>3. /\ Measure!Reverse(w) \in Seq(A) /\ Len(Measure!Reverse(w)) = Len(s) + 1
      /\ \A k \in 1 .. Len(s) + 1 : Measure!Reverse(w)[k] = w[Len(s) - k + 2]
  <2>1. \A k \in 1 .. Len(s) + 1 : Len(w) - k + 1 = Len(s) - k + 2
    BY <1>1, <1>2
  <2>2. QED BY <1>2, <2>1, ReverseIs
<1>4. /\ Measure!Reverse(s) \o <<o>> \in Seq(A)
      /\ Len(Measure!Reverse(s) \o <<o>>) = Len(s) + 1
      /\ \A k \in 1 .. Len(s) + 1 : (Measure!Reverse(s) \o <<o>>)[k]
             = IF k <= Len(s) THEN Measure!Reverse(s)[k] ELSE <<o>>[k - Len(s)]
  BY <1>1, ReverseIs, ConcatProperties
<1>5. ASSUME NEW k \in 1 .. Len(s) + 1
      PROVE  Measure!Reverse(w)[k] = (Measure!Reverse(s) \o <<o>>)[k]
  <2>1. CASE k <= Len(s)
    <3>1. /\ Len(s) - k + 2 \in 1 .. Len(w) /\ ~(Len(s) - k + 2 <= 1)
          /\ Len(s) - k + 2 - 1 = Len(s) - k + 1 /\ k \in 1 .. Len(s)
      BY <1>1, <1>2, <2>1
    <3>2. Measure!Reverse(s)[k] = s[Len(s) - k + 1]
      BY <3>1, ReverseIs
    <3>3. w[Len(s) - k + 2] = s[Len(s) - k + 1]
      BY <1>2, <3>1
    <3>4. QED BY <1>3, <1>4, <2>1, <3>2, <3>3
  <2>2. CASE ~(k <= Len(s))
    <3>1. k = Len(s) + 1 /\ Len(s) - k + 2 = 1 /\ k - Len(s) = 1 /\ 1 \in 1 .. Len(w)
      BY <1>1, <1>2, <2>2
    <3>2. QED BY <1>1, <1>2, <1>3, <1>4, <2>2, <3>1
  <2>3. QED BY <2>1, <2>2
<1>6. Measure!Reverse(w) = Measure!Reverse(s) \o <<o>>
  BY <1>3, <1>4, <1>5, SeqEqual
<1>7. QED BY <1>6 DEF w

-----------------------------------------------------------------------------
(* Expressions: what reading and evaluating do.                             *)

\* One symbol read: the stack and the output after it.
ReadOne(s, c) ==
  IF s \in Measure!Operands THEN <<c[1], Append(c[2], s)>>
  ELSE IF s \in Measure!Functions \cup {"("} THEN <<Append(c[1], s), c[2]>>
  ELSE IF s \in Measure!Opps
    THEN LET n == Measure!Run(c[1], {p \in Measure!Opps : Measure!Binds(s, p)})
         IN <<Append(Measure!Popped(c[1], n), s), c[2] \o Measure!Moved(c[1], n)>>
  ELSE LET n == Measure!Run(c[1], Measure!Symbols \ {"("})
           rest == Measure!Popped(c[1], n + 1)
           moved == c[2] \o Measure!Moved(c[1], n)
       IN IF rest # <<>> /\ Measure!Last(rest) \in Measure!Functions
          THEN <<Measure!Front(rest), Append(moved, Measure!Last(rest))>>
          ELSE <<rest, moved>>

\* One symbol evaluated: the stack after it.
EvalOne(s, c) ==
  CASE s \in Measure!Operands -> Append(c, <<s>>)
    [] s \in Measure!Opps -> Append(Measure!Popped(c, 2), <<s, c[Len(c) - 1], c[Len(c)]>>)
    [] s \in Measure!Functions -> Append(Measure!Popped(c, 1), <<s, c[Len(c)]>>)

ReadTrace(W, w) == \A k \in 1 .. Len(w) : W[k] = ReadOne(w[k], W[k - 1])
EvalTrace(W, w) == \A k \in 1 .. Len(w) : W[k] = EvalOne(w[k], W[k - 1])

\* Reading w takes the stack and the output from a to c; evaluating w the stack.
Reads(w, a, c) == \E W : W[0] = a /\ W[Len(w)] = c /\ ReadTrace(W, w)
Evals(w, a, c) == \E W : W[0] = a /\ W[Len(w)] = c /\ EvalTrace(W, w)

LEMMA ReadsOne ==
  ASSUME NEW s, NEW a
  PROVE  Reads(<<s>>, a, ReadOne(s, a))
<1> DEFINE W == [k \in 0 .. 1 |-> IF k = 0 THEN a ELSE ReadOne(s, a)]
<1> HIDE DEF Reads
<1>1. W[0] = a /\ W[1] = ReadOne(s, a)
  OBVIOUS
<1>2. Len(<<s>>) = 1 /\ <<s>>[1] = s
  OBVIOUS
<1> HIDE DEF W
<1>3. ReadTrace(W, <<s>>)
  BY <1>1, <1>2 DEF ReadTrace
<1>4. QED BY <1>1, <1>2, <1>3 DEF Reads

LEMMA EvalsOne ==
  ASSUME NEW s, NEW a
  PROVE  Evals(<<s>>, a, EvalOne(s, a))
<1> DEFINE W == [k \in 0 .. 1 |-> IF k = 0 THEN a ELSE EvalOne(s, a)]
<1>1. W[0] = a /\ W[1] = EvalOne(s, a)
  OBVIOUS
<1>2. Len(<<s>>) = 1 /\ <<s>>[1] = s
  OBVIOUS
<1> HIDE DEF W
<1>3. EvalTrace(W, <<s>>)
  BY <1>1, <1>2 DEF EvalTrace
<1>4. QED BY <1>1, <1>2, <1>3 DEF Evals

LEMMA ReadsOn ==
  ASSUME NEW A, NEW w \in Seq(A), NEW x \in Seq(A), NEW a, NEW c, NEW d,
         Reads(w, a, c), Reads(x, c, d)
  PROVE  Reads(w \o x, a, d)
<1>1. PICK W : W[0] = a /\ W[Len(w)] = c /\ ReadTrace(W, w)
  BY DEF Reads
<1>2. PICK X : X[0] = c /\ X[Len(x)] = d /\ ReadTrace(X, x)
  BY DEF Reads
<1> DEFINE Y == [k \in 0 .. Len(w) + Len(x) |-> IF k <= Len(w) THEN W[k] ELSE X[k - Len(w)]]
<1>3. /\ Len(w) \in Nat /\ Len(x) \in Nat /\ Len(w \o x) = Len(w) + Len(x)
      /\ \A k \in 1 .. Len(w) + Len(x) : (w \o x)[k] = IF k <= Len(w) THEN w[k] ELSE x[k - Len(w)]
  BY ConcatProperties, LenProperties
<1>4. \A k \in 0 .. Len(w) + Len(x) : Y[k] = IF k <= Len(w) THEN W[k] ELSE X[k - Len(w)]
  OBVIOUS
<1> HIDE DEF Y
<1>5. \A k \in 0 .. Len(x) : Y[Len(w) + k] = X[k]
  <2> TAKE k \in 0 .. Len(x)
  <2>1. Len(w) + k \in 0 .. Len(w) + Len(x)
    BY <1>3
  <2>2. CASE k = 0
    BY <1>1, <1>2, <1>3, <1>4, <2>1, <2>2
  <2>3. CASE k # 0
    <3>1. ~(Len(w) + k <= Len(w)) /\ Len(w) + k - Len(w) = k
      BY <1>3, <2>3
    <3>2. QED BY <1>4, <2>1, <3>1
  <2>4. QED BY <2>2, <2>3
<1>6. Y[0] = a
  BY <1>1, <1>3, <1>4
<1>7. Y[Len(w \o x)] = d
  BY <1>2, <1>3, <1>5
<1>8. ASSUME NEW k \in 1 .. Len(w) + Len(x)
      PROVE  Y[k] = ReadOne((w \o x)[k], Y[k - 1])
  <2>1. CASE k <= Len(w)
    <3>1. k \in 1 .. Len(w) /\ k \in 0 .. Len(w) + Len(x) /\ k - 1 \in 0 .. Len(w) + Len(x) /\ k - 1 <= Len(w)
      BY <1>3, <2>1
    <3>2. Y[k] = W[k] /\ Y[k - 1] = W[k - 1] /\ (w \o x)[k] = w[k]
      BY <1>3, <1>4, <2>1, <3>1
    <3>3. W[k] = ReadOne(w[k], W[k - 1])
      BY <1>1, <3>1 DEF ReadTrace
    <3>4. QED BY <3>2, <3>3
  <2>2. CASE ~(k <= Len(w))
    <3> DEFINE j == k - Len(w)
    <3>1. j \in 1 .. Len(x) /\ j \in 0 .. Len(x) /\ j - 1 \in 0 .. Len(x)
      BY <1>3, <2>2
    <3>2. Len(w) + j = k /\ Len(w) + (j - 1) = k - 1
      BY <1>3
    <3>3. (w \o x)[k] = x[j]
      BY <1>3, <2>2
    <3> HIDE DEF j
    <3>4. Y[k] = X[j] /\ Y[k - 1] = X[j - 1]
      BY <1>5, <3>1, <3>2
    <3>5. X[j] = ReadOne(x[j], X[j - 1])
      BY <1>2, <3>1 DEF ReadTrace
    <3>6. QED BY <3>3, <3>4, <3>5
  <2>3. QED BY <2>1, <2>2
<1>9. ReadTrace(Y, w \o x)
  BY <1>3, <1>8 DEF ReadTrace
<1>10. QED BY <1>6, <1>7, <1>9 DEF Reads

LEMMA EvalsOn ==
  ASSUME NEW A, NEW w \in Seq(A), NEW x \in Seq(A), NEW a, NEW c, NEW d,
         Evals(w, a, c), Evals(x, c, d)
  PROVE  Evals(w \o x, a, d)
<1>1. PICK W : W[0] = a /\ W[Len(w)] = c /\ EvalTrace(W, w)
  BY DEF Evals
<1>2. PICK X : X[0] = c /\ X[Len(x)] = d /\ EvalTrace(X, x)
  BY DEF Evals
<1> DEFINE Y == [k \in 0 .. Len(w) + Len(x) |-> IF k <= Len(w) THEN W[k] ELSE X[k - Len(w)]]
<1>3. /\ Len(w) \in Nat /\ Len(x) \in Nat /\ Len(w \o x) = Len(w) + Len(x)
      /\ \A k \in 1 .. Len(w) + Len(x) : (w \o x)[k] = IF k <= Len(w) THEN w[k] ELSE x[k - Len(w)]
  BY ConcatProperties, LenProperties
<1>4. \A k \in 0 .. Len(w) + Len(x) : Y[k] = IF k <= Len(w) THEN W[k] ELSE X[k - Len(w)]
  OBVIOUS
<1> HIDE DEF Y
<1>5. \A k \in 0 .. Len(x) : Y[Len(w) + k] = X[k]
  <2> TAKE k \in 0 .. Len(x)
  <2>1. Len(w) + k \in 0 .. Len(w) + Len(x)
    BY <1>3
  <2>2. CASE k = 0
    BY <1>1, <1>2, <1>3, <1>4, <2>1, <2>2
  <2>3. CASE k # 0
    <3>1. ~(Len(w) + k <= Len(w)) /\ Len(w) + k - Len(w) = k
      BY <1>3, <2>3
    <3>2. QED BY <1>4, <2>1, <3>1
  <2>4. QED BY <2>2, <2>3
<1>6. Y[0] = a
  BY <1>1, <1>3, <1>4
<1>7. Y[Len(w \o x)] = d
  BY <1>2, <1>3, <1>5
<1>8. ASSUME NEW k \in 1 .. Len(w) + Len(x)
      PROVE  Y[k] = EvalOne((w \o x)[k], Y[k - 1])
  <2>1. CASE k <= Len(w)
    <3>1. k \in 1 .. Len(w) /\ k \in 0 .. Len(w) + Len(x) /\ k - 1 \in 0 .. Len(w) + Len(x) /\ k - 1 <= Len(w)
      BY <1>3, <2>1
    <3>2. Y[k] = W[k] /\ Y[k - 1] = W[k - 1] /\ (w \o x)[k] = w[k]
      BY <1>3, <1>4, <2>1, <3>1
    <3>3. W[k] = EvalOne(w[k], W[k - 1])
      BY <1>1, <3>1 DEF EvalTrace
    <3>4. QED BY <3>2, <3>3
  <2>2. CASE ~(k <= Len(w))
    <3> DEFINE j == k - Len(w)
    <3>1. j \in 1 .. Len(x) /\ j \in 0 .. Len(x) /\ j - 1 \in 0 .. Len(x)
      BY <1>3, <2>2
    <3>2. Len(w) + j = k /\ Len(w) + (j - 1) = k - 1
      BY <1>3
    <3>3. (w \o x)[k] = x[j]
      BY <1>3, <2>2
    <3> HIDE DEF j
    <3>4. Y[k] = X[j] /\ Y[k - 1] = X[j - 1]
      BY <1>5, <3>1, <3>2
    <3>5. X[j] = EvalOne(x[j], X[j - 1])
      BY <1>2, <3>1 DEF EvalTrace
    <3>6. QED BY <3>3, <3>4, <3>5
  <2>3. QED BY <2>1, <2>2
<1>9. EvalTrace(Y, w \o x)
  BY <1>3, <1>8 DEF EvalTrace
<1>10. QED BY <1>6, <1>7, <1>9 DEF Evals

-----------------------------------------------------------------------------
(* Expressions: what every way to write a tree does.                        *)

\* Operators as weak as m, and stronger ones, take nothing off s.
Guard(s, m) ==
  \/ s = <<>>
  \/ Measure!Last(s) = "("
  \/ /\ Measure!Last(s) \in Measure!Opps
     /\ \A o \in Measure!Opps : Measure!opp_pr(o) >= m => ~Measure!Binds(o, Measure!Last(s))

\* Evaluating p puts t on the stack.
Yields(t, p) == \A Values : \A c \in Seq(Values) : Evals(p, c, Append(c, t))

\* Reading e leaves ops on the stack, puts q out, and the two together yield its tree.
Leaves(e, ops, q) ==
  /\ ops \in Seq(Measure!Opps) /\ q \in Seq(Measure!Symbols)
  /\ \A k \in 1 .. Len(ops) : Measure!opp_pr(ops[k]) >= e.pr
  /\ \A s, put \in Seq(Measure!Symbols) :
       Guard(s, e.pr) => Reads(e.symbols, <<s, put>>, <<s \o ops, put \o q>>)
  /\ Yields(e.tree, q \o Measure!Reverse(ops))

Sound(e) ==
  /\ e.symbols \in Seq(Measure!Symbols) /\ e.pr \in 2 .. 5
  /\ \E ops, q : Leaves(e, ops, q)

LEMMA SymbolKinds ==
  /\ \A s \in Measure!Opps :
       /\ s \in Measure!Symbols /\ s \notin Measure!Operands /\ s \notin Measure!Functions
       /\ s # "(" /\ s # ")" /\ Measure!opp_pr(s) \in 2 .. 4
  /\ \A s \in Measure!Functions :
       s \in Measure!Symbols /\ s \notin Measure!Operands /\ s # "("
  /\ \A s \in Measure!Operands :
       s \in Measure!Symbols /\ s \notin Measure!Opps /\ s \notin Measure!Functions
  /\ "(" \in Measure!Symbols /\ "(" \notin Measure!Operands
  /\ ")" \in Measure!Symbols /\ ")" \notin Measure!Operands /\ ")" \notin Measure!Functions
  /\ ")" \notin Measure!Opps
<1>1. \A s \in Measure!Opps : Measure!opp_pr(s) \in 2 .. 4
  BY DEF Measure!opp_pr
<1>2. QED BY <1>1 DEF Measure!Symbols, Measure!Opps, Measure!Functions, Measure!Operands

LEMMA OppsAreSymbols == Seq(Measure!Opps) \subseteq Seq(Measure!Symbols)
<1>1. Measure!Opps \subseteq Measure!Symbols
  BY DEF Measure!Symbols
<1>2. QED BY <1>1, SeqMonotonic

LEMMA AppendedTop ==
  ASSUME NEW A, NEW s \in Seq(A), NEW x \in A
  PROVE  /\ Append(s, x) \in Seq(A) /\ Append(s, x) = s \o <<x>> /\ Append(s, x) # <<>>
         /\ Measure!Last(Append(s, x)) = x
         /\ Measure!Front(Append(s, x)) = s /\ Measure!Popped(Append(s, x), 1) = s
<1>1. /\ Append(s, x) \in Seq(A) /\ Append(s, x) = s \o <<x>> /\ Len(s) \in Nat
      /\ Len(Append(s, x)) = Len(s) + 1 /\ Append(s, x)[Len(s) + 1] = x
  BY AppendProperties, AppendIsConcat, LenProperties
<1>2. <<x>> \in Seq(A) /\ Len(<<x>>) = 1
  OBVIOUS
<1>3. Measure!Popped(s \o <<x>>, 1) = s
  BY <1>2, TopMoved
<1>4. Measure!Popped(Append(s, x), 1) = s
  BY <1>1, <1>3
<1>5. Measure!Front(Append(s, x)) = s
  BY <1>4 DEF Measure!Front, Measure!Popped
<1>6. Append(s, x) # <<>>
  BY <1>1, EmptySeq
<1>7. QED BY <1>1, <1>4, <1>5, <1>6 DEF Measure!Last

LEMMA YieldsCall ==
  ASSUME NEW f \in Measure!Functions, NEW t, NEW p \in Seq(Measure!Symbols), Yields(t, p)
  PROVE  Yields(<<f, t>>, p \o <<f>>)
<1> SUFFICES ASSUME NEW Values, NEW c \in Seq(Values)
             PROVE  Evals(p \o <<f>>, c, Append(c, <<f, t>>))
  BY DEF Yields
<1>1. Evals(p, c, Append(c, t))
  BY DEF Yields
<1>2. c \in Seq(Values \cup {t}) /\ t \in Values \cup {t}
  BY SeqMonotonic, Values \subseteq Values \cup {t}
<1>3. /\ Measure!Popped(Append(c, t), 1) = c
      /\ Append(c, t)[Len(Append(c, t))] = t
  BY <1>2, AppendedTop DEF Measure!Last
<1>4. f \notin Measure!Operands /\ f \notin Measure!Opps /\ <<f>> \in Seq(Measure!Symbols)
  BY SymbolKinds
<1>5. EvalOne(f, Append(c, t)) = Append(c, <<f, t>>)
  BY <1>3, <1>4 DEF EvalOne
<1>6. Evals(<<f>>, Append(c, t), Append(c, <<f, t>>))
  BY <1>5, EvalsOne
<1>7. QED BY <1>1, <1>4, <1>6, EvalsOn

LEMMA YieldsBinary ==
  ASSUME NEW o \in Measure!Opps, NEW t, NEW u,
         NEW p \in Seq(Measure!Symbols), NEW r \in Seq(Measure!Symbols),
         Yields(t, p), Yields(u, r)
  PROVE  Yields(<<o, t, u>>, (p \o r) \o <<o>>)
<1> SUFFICES ASSUME NEW Values, NEW c \in Seq(Values)
             PROVE  Evals((p \o r) \o <<o>>, c, Append(c, <<o, t, u>>))
  BY DEF Yields
<1> DEFINE W == Values \cup {t, u}
           d == Append(c, t)
           g == Append(d, u)
<1>1. c \in Seq(W) /\ t \in W /\ u \in W
  BY SeqMonotonic, Values \subseteq W
<1>2. /\ d \in Seq(W) /\ g \in Seq(W)
      /\ Len(d) = Len(c) + 1 /\ Len(g) = Len(c) + 2 /\ Len(c) \in Nat
      /\ d[Len(c) + 1] = t /\ g[Len(c) + 2] = u
      /\ \A k \in 1 .. Len(d) : g[k] = d[k]
  BY <1>1, AppendProperties, LenProperties
<1>3. Evals(p, c, d)
  BY DEF Yields
<1>4. Evals(r, d, g)
  BY <1>2 DEF Yields
<1>5. Evals(p \o r, c, g)
  BY <1>3, <1>4, EvalsOn
<1>6. Measure!Popped(g, 2) = c
  <2>1. g = (c \o <<t>>) \o <<u>>
    <3>1. d = c \o <<t>>
      BY <1>1, AppendIsConcat
    <3>2. g = d \o <<u>>
      BY <1>1, <1>2, AppendIsConcat
    <3>3. QED BY <3>1, <3>2
  <2>2. g = c \o (<<t>> \o <<u>>)
    BY <1>1, <2>1, ConcatAssociative
  <2>3. <<t>> \o <<u>> \in Seq(W) /\ Len(<<t>> \o <<u>>) = 2
    BY <1>1, ConcatProperties
  <2> HIDE DEF W, g, d
  <2>4. Measure!Popped(c \o (<<t>> \o <<u>>), 2) = c
    BY <1>1, <2>3, TopMoved
  <2>5. QED BY <2>2, <2>4
<1> HIDE DEF d, g, W
<1>7. g[Len(g) - 1] = t /\ g[Len(g)] = u
  BY <1>2
<1>8. /\ o \notin Measure!Operands /\ o \notin Measure!Functions /\ <<o>> \in Seq(Measure!Symbols)
      /\ p \o r \in Seq(Measure!Symbols)
  BY SymbolKinds, ConcatProperties
<1>9. EvalOne(o, g) = Append(c, <<o, t, u>>)
  BY <1>6, <1>7, <1>8 DEF EvalOne
<1>10. Evals(<<o>>, g, Append(c, <<o, t, u>>))
  BY <1>9, EvalsOne
<1>11. QED BY <1>5, <1>8, <1>10, EvalsOn

\* An operand alone.
LEMMA SoundWord ==
  ASSUME NEW e \in Measure!Words
  PROVE  Sound(e)
<1>1. PICK x \in Measure!Operands : e = Measure!Expression(<<x>>, <<x>>, Measure!Atom)
  BY DEF Measure!Words
<1>2. e.tree = <<x>> /\ e.symbols = <<x>> /\ e.pr = 5
  BY <1>1 DEF Measure!Expression, Measure!Atom
<1>3. <<x>> \in Seq(Measure!Symbols) /\ x \in Measure!Symbols
  BY SymbolKinds
<1>4. ASSUME NEW s \in Seq(Measure!Symbols), NEW put \in Seq(Measure!Symbols)
      PROVE  Reads(<<x>>, <<s, put>>, <<s \o <<>>, put \o <<x>>>>)
  <2>1. ReadOne(x, <<s, put>>) = <<s, Append(put, x)>>
    BY DEF ReadOne
  <2>2. s \o <<>> = s /\ Append(put, x) = put \o <<x>>
    BY <1>3, ConcatEmptySeq, AppendIsConcat
  <2>3. ReadOne(x, <<s, put>>) = <<s \o <<>>, put \o <<x>>>>
    BY <2>1, <2>2
  <2>4. Reads(<<x>>, <<s, put>>, ReadOne(x, <<s, put>>))
    BY ReadsOne
  <2>5. QED BY <2>3, <2>4
<1>5. Yields(<<x>>, <<x>>)
  <2>1. \A c : EvalOne(x, c) = Append(c, <<x>>)
    BY SymbolKinds DEF EvalOne
  <2>2. QED BY <2>1, EvalsOne DEF Yields
<1>6. Measure!Reverse(<<>>) = <<>> /\ <<x>> \o <<>> = <<x>> /\ <<>> \in Seq(Measure!Opps) /\ Len(<<>>) = 0
  <2>1. <<>> \in Seq(Measure!Opps) /\ Len(<<>>) = 0
    BY EmptySeq
  <2>2. Measure!Reverse(<<>>) = <<>>
    BY <2>1, ReverseIs, EmptySeq
  <2>3. QED BY <1>3, <2>1, <2>2, ConcatEmptySeq
<1>7. Leaves(e, <<>>, <<x>>)
  <2>1. \A s, put \in Seq(Measure!Symbols) :
          Reads(e.symbols, <<s, put>>, <<s \o <<>>, put \o <<x>>>>)
    BY <1>2, <1>4
  <2>2. Yields(e.tree, <<x>> \o Measure!Reverse(<<>>))
    BY <1>2, <1>5, <1>6
  <2>3. \A k \in 1 .. Len(<<>>) : Measure!opp_pr(<<>>[k]) >= e.pr
    OBVIOUS
  <2>4. QED BY <1>3, <1>6, <2>1, <2>2, <2>3 DEF Leaves
<1>8. QED BY <1>2, <1>3, <1>7 DEF Sound

\* A parenthesis closed above s: the operators since it was opened go, and the function.
LEMMA Closed ==
  ASSUME NEW s \in Seq(Measure!Symbols), NEW put, NEW ops \in Seq(Measure!Opps)
  PROVE  ReadOne(")", <<Append(s, "(") \o ops, put>>)
           = IF s # <<>> /\ Measure!Last(s) \in Measure!Functions
             THEN <<Measure!Front(s), Append(put \o Measure!Reverse(ops), Measure!Last(s))>>
             ELSE <<s, put \o Measure!Reverse(ops)>>
<1> DEFINE r == Append(s, "(")
           S == Measure!Symbols \ {"("}
<1>1. /\ r \in Seq(Measure!Symbols) /\ r = s \o <<"(">> /\ Measure!Last(r) = "("
      /\ ops \in Seq(Measure!Symbols) /\ <<"(">> \in Seq(Measure!Symbols) /\ Len(<<"(">>) = 1
  BY SymbolKinds, AppendedTop, OppsAreSymbols
<1>2. \A k \in 1 .. Len(ops) : ops[k] \in S
  BY SymbolKinds, ElementOfSeq
<1>3. Measure!Last(r) \notin S
  BY <1>1
<1> HIDE DEF r, S
<1>4. Measure!Run(r \o ops, S) = Len(ops)
  BY <1>1, <1>2, <1>3, RunIs
<1>5. Measure!Moved(r \o ops, Len(ops)) = Measure!Reverse(ops)
  BY <1>1, TopMoved
<1>6. Measure!Popped(r \o ops, Len(ops) + 1) = s
  <2>1. r \o ops = s \o (<<"(">> \o ops)
    BY <1>1, ConcatAssociative
  <2>2. <<"(">> \o ops \in Seq(Measure!Symbols) /\ Len(<<"(">> \o ops) = Len(ops) + 1
    <3>1. Len(<<"(">> \o ops) = 1 + Len(ops) /\ <<"(">> \o ops \in Seq(Measure!Symbols)
      BY <1>1, ConcatProperties
    <3>2. QED BY <1>1, <3>1, LenProperties
  <2>3. Measure!Popped(s \o (<<"(">> \o ops), Len(<<"(">> \o ops)) = s
    BY <2>2, TopMoved
  <2>4. QED BY <2>1, <2>2, <2>3
<1>7. /\ ")" \notin Measure!Operands /\ ")" \notin Measure!Functions \cup {"("}
      /\ ")" \notin Measure!Opps
  BY SymbolKinds
<1>8. ReadOne(")", <<r \o ops, put>>)
        = IF s # <<>> /\ Measure!Last(s) \in Measure!Functions
          THEN <<Measure!Front(s), Append(put \o Measure!Reverse(ops), Measure!Last(s))>>
          ELSE <<s, put \o Measure!Reverse(ops)>>
  BY <1>4, <1>5, <1>6, <1>7 DEF ReadOne, S
<1>9. QED BY <1>8 DEF r

LEMMA ReadsEnclosed ==
  ASSUME NEW e, NEW ops, NEW q, Leaves(e, ops, q), e.symbols \in Seq(Measure!Symbols),
         NEW s \in Seq(Measure!Symbols), NEW put \in Seq(Measure!Symbols)
  PROVE  Reads(Measure!Enclosed(e).symbols, <<s, put>>,
               IF s # <<>> /\ Measure!Last(s) \in Measure!Functions
               THEN <<Measure!Front(s),
                      Append((put \o q) \o Measure!Reverse(ops), Measure!Last(s))>>
               ELSE <<s, (put \o q) \o Measure!Reverse(ops)>>)
<1> DEFINE r == Append(s, "(")
<1>1. r \in Seq(Measure!Symbols) /\ Measure!Last(r) = "("
  BY SymbolKinds, AppendedTop
<1>2. /\ <<"(">> \in Seq(Measure!Symbols) /\ <<")">> \in Seq(Measure!Symbols)
      /\ <<"(">> \o e.symbols \in Seq(Measure!Symbols)
  BY SymbolKinds, ConcatProperties
<1>3. Reads(<<"(">>, <<s, put>>, <<r, put>>)
  <2>1. ReadOne("(", <<s, put>>) = <<r, put>>
    BY SymbolKinds DEF ReadOne
  <2>2. Reads(<<"(">>, <<s, put>>, ReadOne("(", <<s, put>>))
    BY ReadsOne
  <2>3. QED BY <2>1, <2>2
<1> HIDE DEF r
<1>4. Reads(e.symbols, <<r, put>>, <<r \o ops, put \o q>>)
  BY <1>1 DEF Leaves, Guard
<1>5. Reads(<<")">>, <<r \o ops, put \o q>>, ReadOne(")", <<r \o ops, put \o q>>))
  BY ReadsOne
<1>6. Reads(<<"(">> \o e.symbols, <<s, put>>, <<r \o ops, put \o q>>)
  BY <1>2, <1>3, <1>4, ReadsOn
<1>7. Reads((<<"(">> \o e.symbols) \o <<")">>, <<s, put>>, ReadOne(")", <<r \o ops, put \o q>>))
  BY <1>2, <1>5, <1>6, ReadsOn
<1>8. Measure!Enclosed(e).symbols = (<<"(">> \o e.symbols) \o <<")">>
  BY DEF Measure!Enclosed, Measure!Expression
<1>9. ops \in Seq(Measure!Opps)
  BY DEF Leaves
<1>10. QED BY <1>7, <1>8, <1>9, Closed DEF r

LEMMA LeavesShape ==
  ASSUME NEW e, NEW ops, NEW q, Leaves(e, ops, q)
  PROVE  /\ ops \in Seq(Measure!Opps) /\ ops \in Seq(Measure!Symbols) /\ q \in Seq(Measure!Symbols)
         /\ Measure!Reverse(ops) \in Seq(Measure!Symbols)
         /\ q \o Measure!Reverse(ops) \in Seq(Measure!Symbols)
<1>1. /\ ops \in Seq(Measure!Opps) /\ ops \in Seq(Measure!Symbols) /\ q \in Seq(Measure!Symbols)
  BY OppsAreSymbols DEF Leaves
<1>2. Measure!Reverse(ops) \in Seq(Measure!Symbols)
  BY <1>1, ReverseIs
<1>3. QED BY <1>1, <1>2, ConcatProperties

LEMMA Joined ==
  \A a, b, c \in Seq(Measure!Symbols) :
    (a \o b) \o c = a \o (b \o c) /\ a \o b \in Seq(Measure!Symbols)
<1> TAKE a, b, c \in Seq(Measure!Symbols)
<1>1. (a \o b) \o c = a \o (b \o c)
  BY ConcatAssociative
<1>2. QED BY <1>1, ConcatProperties

LEMMA NoneLeft ==
  /\ <<>> \in Seq(Measure!Opps) /\ Len(<<>>) = 0 /\ Measure!Reverse(<<>>) = <<>>
<1>1. <<>> \in Seq(Measure!Opps) /\ Len(<<>>) = 0
  BY EmptySeq
<1>2. Measure!Reverse(<<>>) = <<>>
  BY <1>1, ReverseIs, EmptySeq
<1>3. QED BY <1>1, <1>2

\* Where nothing stays on the stack.
LEMMA NothingLeft ==
  ASSUME NEW e, NEW q \in Seq(Measure!Symbols), Yields(e.tree, q),
         \A s, put \in Seq(Measure!Symbols) :
           Guard(s, e.pr) => Reads(e.symbols, <<s, put>>, <<s, put \o q>>)
  PROVE  Leaves(e, <<>>, q)
<1>1. q \o Measure!Reverse(<<>>) = q
  BY NoneLeft, ConcatEmptySeq
<1>2. \A s \in Seq(Measure!Symbols) : s \o <<>> = s
  BY ConcatEmptySeq
<1>3. \A k \in 1 .. Len(<<>>) : Measure!opp_pr(<<>>[k]) >= e.pr
  BY NoneLeft
<1>4. \A s, put \in Seq(Measure!Symbols) :
        Guard(s, e.pr) => Reads(e.symbols, <<s, put>>, <<s \o <<>>, put \o q>>)
  BY <1>2
<1>5. QED BY <1>1, <1>3, <1>4, NoneLeft DEF Leaves

\* Parentheses around an expression.
LEMMA SoundEnclosed ==
  ASSUME NEW e, Sound(e)
  PROVE  Sound(Measure!Enclosed(e))
<1>1. PICK ops, q : Leaves(e, ops, q)
  BY DEF Sound
<1> DEFINE E == Measure!Enclosed(e)
           p == q \o Measure!Reverse(ops)
<1>2. /\ E.tree = e.tree /\ E.symbols = (<<"(">> \o e.symbols) \o <<")">> /\ E.pr = 5
  BY DEF Measure!Enclosed, Measure!Expression, Measure!Atom
<1>3. E.symbols \in Seq(Measure!Symbols)
  <2>1. <<"(">> \in Seq(Measure!Symbols) /\ <<")">> \in Seq(Measure!Symbols)
    BY SymbolKinds
  <2>2. e.symbols \in Seq(Measure!Symbols)
    BY DEF Sound
  <2>3. QED BY <1>2, <2>1, <2>2, ConcatProperties
<1>4. /\ ops \in Seq(Measure!Symbols) /\ q \in Seq(Measure!Symbols)
      /\ Measure!Reverse(ops) \in Seq(Measure!Symbols) /\ p \in Seq(Measure!Symbols)
  BY <1>1, LeavesShape
<1>5. ASSUME NEW s \in Seq(Measure!Symbols), NEW put \in Seq(Measure!Symbols), Guard(s, 5)
      PROVE  Reads(E.symbols, <<s, put>>, <<s, put \o p>>)
  <2>1. ~(s # <<>> /\ Measure!Last(s) \in Measure!Functions)
    BY <1>5, SymbolKinds DEF Guard
  <2>2. Reads(E.symbols, <<s, put>>, <<s, (put \o q) \o Measure!Reverse(ops)>>)
    <3>1. e.symbols \in Seq(Measure!Symbols)
      BY DEF Sound
    <3> HIDE DEF p
    <3>2. QED BY <1>1, <2>1, <3>1, ReadsEnclosed
  <2>3. (put \o q) \o Measure!Reverse(ops) = put \o p
    BY <1>4, Joined
  <2>4. QED BY <2>2, <2>3
<1>6. Yields(E.tree, p)
  BY <1>1, <1>2 DEF Leaves
<1> HIDE DEF E, p
<1>7. Leaves(E, <<>>, p)
  BY <1>2, <1>4, <1>5, <1>6, NothingLeft
<1>8. QED BY <1>2, <1>3, <1>7 DEF Sound, E

\* A function of an expression.
LEMMA SoundCall ==
  ASSUME NEW e, Sound(e), NEW f \in Measure!Functions
  PROVE  Sound(Measure!Call(f, e))
<1>1. PICK ops, q : Leaves(e, ops, q)
  BY DEF Sound
<1> DEFINE E == Measure!Call(f, e)
           N == Measure!Enclosed(e)
           p == (q \o Measure!Reverse(ops)) \o <<f>>
<1>2. /\ E.tree = <<f, e.tree>> /\ E.symbols = <<f>> \o N.symbols /\ E.pr = 5
  BY DEF Measure!Call, Measure!Expression, Measure!Atom
<1>3. /\ <<f>> \in Seq(Measure!Symbols) /\ f \in Measure!Symbols
      /\ N.symbols \in Seq(Measure!Symbols)
  BY SymbolKinds, SoundEnclosed DEF Sound
<1>4. E.symbols \in Seq(Measure!Symbols)
  BY <1>2, <1>3, ConcatProperties
<1>5. /\ ops \in Seq(Measure!Symbols) /\ q \in Seq(Measure!Symbols)
      /\ Measure!Reverse(ops) \in Seq(Measure!Symbols)
      /\ q \o Measure!Reverse(ops) \in Seq(Measure!Symbols) /\ p \in Seq(Measure!Symbols)
  BY <1>1, <1>3, LeavesShape, ConcatProperties
<1> HIDE DEF E, N
<1>6. ASSUME NEW s \in Seq(Measure!Symbols), NEW put \in Seq(Measure!Symbols)
      PROVE  Reads(E.symbols, <<s, put>>, <<s, put \o p>>)
  <2> DEFINE r == Append(s, f)
  <2>1. /\ r \in Seq(Measure!Symbols) /\ r # <<>> /\ Measure!Last(r) = f /\ Measure!Front(r) = s
    BY <1>3, AppendedTop
  <2>2. Reads(<<f>>, <<s, put>>, <<r, put>>)
    <3>1. ReadOne(f, <<s, put>>) = <<r, put>>
      BY SymbolKinds DEF ReadOne
    <3>2. Reads(<<f>>, <<s, put>>, ReadOne(f, <<s, put>>))
      BY ReadsOne
    <3>3. QED BY <3>1, <3>2
  <2> HIDE DEF r, p
  <2>3. Reads(N.symbols, <<r, put>>, <<s, Append((put \o q) \o Measure!Reverse(ops), f)>>)
    <3>1. e.symbols \in Seq(Measure!Symbols)
      BY DEF Sound
    <3>2. Reads(N.symbols, <<r, put>>,
               IF r # <<>> /\ Measure!Last(r) \in Measure!Functions
               THEN <<Measure!Front(r),
                      Append((put \o q) \o Measure!Reverse(ops), Measure!Last(r))>>
               ELSE <<r, (put \o q) \o Measure!Reverse(ops)>>)
      BY <1>1, <2>1, <3>1, ReadsEnclosed DEF N
    <3>3. QED BY <2>1, <3>2
  <2>4. Append((put \o q) \o Measure!Reverse(ops), f) = put \o p
    <3>1. /\ (put \o q) \o Measure!Reverse(ops) = put \o (q \o Measure!Reverse(ops))
          /\ put \o q \in Seq(Measure!Symbols)
      BY <1>5, Joined
    <3>2. (put \o q) \o Measure!Reverse(ops) \in Seq(Measure!Symbols)
      BY <1>5, <3>1, ConcatProperties
    <3>3. Append((put \o q) \o Measure!Reverse(ops), f)
            = (put \o (q \o Measure!Reverse(ops))) \o <<f>>
      BY <1>3, <3>1, <3>2, AppendIsConcat
    <3>4. (put \o (q \o Measure!Reverse(ops))) \o <<f>> = put \o p
      <4>1. \A a \in Seq(Measure!Symbols) : (put \o a) \o <<f>> = put \o (a \o <<f>>)
        BY <1>3, Joined
      <4>2. QED BY <1>5, <4>1 DEF p
    <3>5. QED BY <3>3, <3>4
  <2>5. QED BY <1>2, <1>3, <2>2, <2>3, <2>4, ReadsOn
<1>7. Yields(E.tree, p)
  BY <1>1, <1>2, <1>5, YieldsCall DEF Leaves
<1> HIDE DEF p
<1>8. Leaves(E, <<>>, p)
  BY <1>2, <1>5, <1>6, <1>7, NothingLeft
<1>9. QED BY <1>2, <1>4, <1>8 DEF Sound, E

\* o takes all of ops off the stack.
Taken(o, ops) == \A k \in 1 .. Len(ops) : Measure!Binds(o, ops[k])

\* An operator takes the operators the left operand has left off the stack.
OperatorReads(o, s, ops) ==
  \A put : ReadOne(o, <<s \o ops, put>>) = <<Append(s, o), put \o Measure!Reverse(ops)>>

LEMMA OperatorRead ==
  ASSUME NEW o \in Measure!Opps, NEW s \in Seq(Measure!Symbols),
         NEW ops \in Seq(Measure!Opps), Guard(s, Measure!opp_pr(o)), Taken(o, ops)
  PROVE  OperatorReads(o, s, ops)
<1> SUFFICES ASSUME NEW put
             PROVE  ReadOne(o, <<s \o ops, put>>) = <<Append(s, o), put \o Measure!Reverse(ops)>>
  BY DEF OperatorReads
<1> DEFINE S == {t \in Measure!Opps : Measure!Binds(o, t)}
<1>1. ops \in Seq(Measure!Symbols)
  BY OppsAreSymbols
<1>2. \A k \in 1 .. Len(ops) : ops[k] \in S
  BY ElementOfSeq DEF Taken
<1>3. s = <<>> \/ Measure!Last(s) \notin S
  <2>1. Measure!opp_pr(o) >= Measure!opp_pr(o)
    BY SymbolKinds
  <2>2. QED BY <2>1, SymbolKinds DEF Guard
<1> HIDE DEF S
<1>4. Measure!Run(s \o ops, S) = Len(ops)
  BY <1>1, <1>2, <1>3, RunIs
<1>5. Measure!Popped(s \o ops, Len(ops)) = s /\ Measure!Moved(s \o ops, Len(ops)) = Measure!Reverse(ops)
  BY <1>1, TopMoved
<1>6. o \notin Measure!Operands /\ o \notin Measure!Functions \cup {"("}
  BY SymbolKinds
<1>7. QED BY <1>4, <1>5, <1>6 DEF ReadOne, S

\* Operands as Sides allows them.
LEMMA Precedences ==
  ASSUME NEW o \in Measure!Opps
  PROVE  /\ \A m \in 2 .. 5, t \in Measure!Opps :
              (m > Measure!opp_pr(o) \/ (m = Measure!opp_pr(o) /\ ~Measure!IsRight(o)))
                 /\ Measure!opp_pr(t) >= m => Measure!Binds(o, t)
         /\ \A m \in 2 .. 5, t \in Measure!Opps :
              (m > Measure!opp_pr(o) \/ (m = Measure!opp_pr(o) /\ Measure!IsRight(o)))
                 /\ Measure!opp_pr(t) >= m => ~Measure!Binds(t, o)
<1>1. /\ Measure!opp_pr(o) \in 2 .. 4
      /\ \A t \in Measure!Opps : Measure!opp_pr(t) \in 2 .. 4 
      /\ \A t \in Measure!Opps : Measure!IsRight(t) <=> Measure!opp_pr(t) = 4
  BY SymbolKinds DEF Measure!IsRight, Measure!opp_pr, Measure!Opps
<1>2. ASSUME NEW m \in 2 .. 5, NEW t \in Measure!Opps,
             m > Measure!opp_pr(o) \/ (m = Measure!opp_pr(o) /\ ~Measure!IsRight(o)),
             Measure!opp_pr(t) >= m
      PROVE  Measure!Binds(o, t)
  BY <1>1, <1>2 DEF Measure!Binds
<1>3. ASSUME NEW m \in 2 .. 5, NEW t \in Measure!Opps,
             m > Measure!opp_pr(o) \/ (m = Measure!opp_pr(o) /\ Measure!IsRight(o)),
             Measure!opp_pr(t) >= m
      PROVE  ~Measure!Binds(t, o)
  BY <1>1, <1>3 DEF Measure!Binds
<1>4. QED BY <1>2, <1>3

\* An operator between two operands.
LEMMA SoundBinary ==
  ASSUME NEW o \in Measure!Opps, NEW l, NEW r, Sound(l), Sound(r),
         l.pr > Measure!opp_pr(o) \/ (l.pr = Measure!opp_pr(o) /\ ~Measure!IsRight(o)),
         r.pr > Measure!opp_pr(o) \/ (r.pr = Measure!opp_pr(o) /\ Measure!IsRight(o))
  PROVE  Sound(Measure!Binary(o, l, r))
<1>1. PICK lops, lq : Leaves(l, lops, lq)
  BY DEF Sound
<1>2. PICK rops, rq : Leaves(r, rops, rq)
  BY DEF Sound
<1> DEFINE E == Measure!Binary(o, l, r)
           lout == lq \o Measure!Reverse(lops)
           rout == rq \o Measure!Reverse(rops)
           ops == <<o>> \o rops
           q == lout \o rq
<1>3. /\ E.tree = <<o, l.tree, r.tree>> /\ E.symbols = (l.symbols \o <<o>>) \o r.symbols
      /\ E.pr = Measure!opp_pr(o)
  BY DEF Measure!Binary, Measure!Expression
<1>4. /\ lops \in Seq(Measure!Opps) /\ lops \in Seq(Measure!Symbols) /\ lq \in Seq(Measure!Symbols)
      /\ Measure!Reverse(lops) \in Seq(Measure!Symbols) /\ lout \in Seq(Measure!Symbols)
  BY <1>1, LeavesShape
<1>5. /\ rops \in Seq(Measure!Opps) /\ rops \in Seq(Measure!Symbols) /\ rq \in Seq(Measure!Symbols)
      /\ Measure!Reverse(rops) \in Seq(Measure!Symbols) /\ rout \in Seq(Measure!Symbols)
  BY <1>2, LeavesShape
<1>6. /\ <<o>> \in Seq(Measure!Symbols) /\ <<o>> \in Seq(Measure!Opps) /\ o \in Measure!Symbols
      /\ Len(<<o>>) = 1 /\ <<o>>[1] = o
  BY SymbolKinds
<1>7. /\ l.symbols \in Seq(Measure!Symbols) /\ r.symbols \in Seq(Measure!Symbols)
      /\ l.pr \in 2 .. 5 /\ r.pr \in 2 .. 5
      /\ Measure!opp_pr(o) \in 2 .. 4
  BY SymbolKinds DEF Sound
<1>8. /\ l.symbols \o <<o>> \in Seq(Measure!Symbols) /\ E.symbols \in Seq(Measure!Symbols)
  BY <1>3, <1>6, <1>7, Joined
<1>9. ops \in Seq(Measure!Opps) /\ q \in Seq(Measure!Symbols)
  BY <1>4, <1>5, <1>6, Joined, ConcatProperties
<1> HIDE DEF E, lout, rout, q
<1>10. ASSUME NEW k \in 1 .. Len(ops)
       PROVE  Measure!opp_pr(ops[k]) >= Measure!opp_pr(o)
  <2>1. /\ Len(ops) = 1 + Len(rops) /\ Len(rops) \in Nat
        /\ ops[k] = IF k <= 1 THEN o ELSE rops[k - 1]
    BY <1>5, <1>6, ConcatProperties, LenProperties
  <2> HIDE DEF ops
  <2>2. CASE k <= 1
    BY <1>7, <2>1, <2>2
  <2>3. CASE ~(k <= 1)
    <3>1. k - 1 \in 1 .. Len(rops)
      BY <2>1, <2>3
    <3>2. Measure!opp_pr(rops[k - 1]) >= r.pr
      BY <1>2, <3>1 DEF Leaves
    <3>3. rops[k - 1] \in Measure!Opps
      BY <1>5, <3>1, ElementOfSeq
    <3>4. Measure!opp_pr(rops[k - 1]) \in 2 .. 4
      BY <3>3, SymbolKinds
    <3>5. QED BY <1>7, <2>1, <2>3, <3>2, <3>4
  <2>4. QED BY <2>2, <2>3
<1>11. Taken(o, lops)
  <2> SUFFICES ASSUME NEW k \in 1 .. Len(lops) PROVE Measure!Binds(o, lops[k])
    BY DEF Taken
  <2>1. Measure!opp_pr(lops[k]) >= l.pr
    BY <1>1 DEF Leaves
  <2>2. lops[k] \in Measure!Opps
    BY <1>4, ElementOfSeq
  <2>3. QED BY <1>7, <2>1, <2>2, Precedences
<1>12. ASSUME NEW s \in Seq(Measure!Symbols), NEW put \in Seq(Measure!Symbols),
              Guard(s, Measure!opp_pr(o))
       PROVE  Reads(E.symbols, <<s, put>>, <<s \o ops, put \o q>>)
  <2> DEFINE u == Append(s, o)
             v == put \o lout
  <2>1. Guard(s, l.pr)
    <3>1. \A t \in Measure!Opps :
            Measure!opp_pr(t) >= l.pr => Measure!opp_pr(t) >= Measure!opp_pr(o)
      BY <1>7, SymbolKinds
    <3>2. QED BY <1>12, <3>1 DEF Guard
  <2>2. Reads(l.symbols, <<s, put>>, <<s \o lops, put \o lq>>)
    BY <1>1, <2>1 DEF Leaves
  <2>3. Reads(<<o>>, <<s \o lops, put \o lq>>, <<u, v>>)
    <3>1. ReadOne(o, <<s \o lops, put \o lq>>) = <<u, (put \o lq) \o Measure!Reverse(lops)>>
      <4>1. ReadOne(o, <<s \o lops, put \o lq>>) = <<Append(s, o), (put \o lq) \o Measure!Reverse(lops)>>
        <5>1. Guard(s, Measure!opp_pr(o))
          BY <1>12
        <5>2. lops \in Seq(Measure!Opps)
          BY <1>4
        <5>3. OperatorReads(o, s, lops)
          BY <1>11, <5>1, <5>2, OperatorRead
        <5>4. QED BY <5>3 DEF OperatorReads
      <4>2. QED BY <4>1
    <3>2. (put \o lq) \o Measure!Reverse(lops) = v
      BY <1>4, Joined DEF lout
    <3>3. Reads(<<o>>, <<s \o lops, put \o lq>>, ReadOne(o, <<s \o lops, put \o lq>>))
      BY ReadsOne
    <3> HIDE DEF u, v
    <3>4. QED BY <3>1, <3>2, <3>3
  <2>4. /\ u \in Seq(Measure!Symbols) /\ v \in Seq(Measure!Symbols)
        /\ Measure!Last(u) = o /\ u = s \o <<o>>
    BY <1>4, <1>6, Joined, AppendedTop
  <2> HIDE DEF u, v
  <2>5. Guard(u, r.pr)
    <3>1. \A t \in Measure!Opps : Measure!opp_pr(t) >= r.pr => ~Measure!Binds(t, o)
      BY <1>7, Precedences
    <3>2. QED BY <2>4, <3>1 DEF Guard
  <2>6. Reads(r.symbols, <<u, v>>, <<u \o rops, v \o rq>>)
    BY <1>2, <2>4, <2>5 DEF Leaves
  <2>7. u \o rops = s \o ops
    <3>1. (s \o <<o>>) \o rops = s \o (<<o>> \o rops)
      BY <1>5, <1>6, Joined
    <3>2. QED BY <2>4, <3>1
  <2>8. v \o rq = put \o q
    <3>1. (put \o lout) \o rq = put \o (lout \o rq)
      <4>1. lout \in Seq(Measure!Symbols)
        BY <1>4
      <4>2. rq \in Seq(Measure!Symbols)
        BY <1>5
      <4>3. QED BY <4>1, <4>2, Joined
    <3>2. QED BY <3>1 DEF v, q
  <2>9. Reads(l.symbols \o <<o>>, <<s, put>>, <<u, v>>)
    BY <1>6, <1>7, <2>2, <2>3, ReadsOn
  <2>10. Reads(r.symbols, <<u, v>>, <<s \o ops, put \o q>>)
    BY <2>6, <2>7, <2>8
  <2>11. Reads((l.symbols \o <<o>>) \o r.symbols, <<s, put>>, <<s \o ops, put \o q>>)
    <3> HIDE DEF ops
    <3>1. QED BY <1>7, <1>8, <2>9, <2>10, ReadsOn
  <2>12. QED BY <1>3, <2>11
<1>13. Yields(E.tree, q \o Measure!Reverse(ops))
  <2>1. Yields(l.tree, lout)
    BY <1>1 DEF Leaves, lout
  <2>2. Yields(r.tree, rout)
    BY <1>2 DEF Leaves, rout
  <2>3. Yields(E.tree, (lout \o rout) \o <<o>>)
    BY <1>3, <1>4, <1>5, <2>1, <2>2, YieldsBinary
  <2>4. Measure!Reverse(ops) = Measure!Reverse(rops) \o <<o>>
    BY <1>5, <1>6, ReverseBelow
  <2>5. q \o (Measure!Reverse(rops) \o <<o>>) = (q \o Measure!Reverse(rops)) \o <<o>>
    BY <1>5, <1>6, <1>9, Joined
  <2>6. q \o Measure!Reverse(rops) = lout \o rout
    <3>1. (lout \o rq) \o Measure!Reverse(rops) = lout \o (rq \o Measure!Reverse(rops))
      <4>1. lout \in Seq(Measure!Symbols)
        BY <1>4
      <4>2. rq \in Seq(Measure!Symbols) /\ Measure!Reverse(rops) \in Seq(Measure!Symbols)
        BY <1>5
      <4>3. QED BY <4>1, <4>2, Joined, Zenon
    <3>2. QED BY <3>1 DEF q, rout
  <2> HIDE DEF ops
  <2>7. QED BY <2>3, <2>4, <2>5, <2>6
<1> HIDE DEF ops
<1>14. Leaves(E, ops, q)
  BY <1>3, <1>9, <1>10, <1>12, <1>13 DEF Leaves
<1>15. E.pr \in 2 .. 5
  BY <1>3, <1>7
<1>16. QED BY <1>8, <1>14, <1>15 DEF Sound, E

\* What is made of sound expressions is sound.
LEMMA SoundDeeper ==
  ASSUME NEW S, \A e \in S : Sound(e), NEW e \in Measure!Deeper(S)
  PROVE  Sound(e)
<1>1. Used \subseteq Measure!Opps \cup Measure!Functions \cup Measure!Operands
  BY MCMeasureAssumption DEF Measure!RpnAssumption
<1>2. \/ e \in S
      \/ \E f \in Measure!Functions : \E g \in S : e = Measure!Call(f, g)
      \/ \E o \in Measure!Opps : \E l \in Measure!Sides(S, o, FALSE), r \in Measure!Sides(S, o, TRUE) :
           e = Measure!Binary(o, l, r)
  <2>1. \/ e \in S
        \/ e \in UNION {Measure!Calls(f, S) : f \in Used \cap Measure!Functions}
        \/ e \in UNION {Measure!Binaries(o, S) : o \in Used \cap Measure!Opps}
    BY DEF Measure!Deeper
  <2>2. CASE e \in UNION {Measure!Calls(f, S) : f \in Used \cap Measure!Functions}
    <3>1. PICK f \in Used \cap Measure!Functions : e \in Measure!Calls(f, S)
      BY <2>2
    <3>2. \E g \in S : e = Measure!Call(f, g)
      BY <3>1 DEF Measure!Calls
    <3>3. QED BY <3>2
  <2>3. CASE e \in UNION {Measure!Binaries(o, S) : o \in Used \cap Measure!Opps}
    <3>1. PICK o \in Used \cap Measure!Opps : e \in Measure!Binaries(o, S)
      BY <2>3
    <3>2. PICK p \in Measure!Sides(S, o, FALSE) \X Measure!Sides(S, o, TRUE) :
            e = Measure!Binary(o, p[1], p[2])
      BY <3>1 DEF Measure!Binaries
    <3>3. p[1] \in Measure!Sides(S, o, FALSE) /\ p[2] \in Measure!Sides(S, o, TRUE)
      BY <3>2
    <3>4. QED BY <3>2, <3>3
  <2>4. QED BY <2>1, <2>2, <2>3
<1>3. ASSUME NEW o, NEW right, NEW g \in Measure!Sides(S, o, right)
      PROVE  /\ Sound(g)
             /\ g.pr > Measure!opp_pr(o) \/ (g.pr = Measure!opp_pr(o) /\ right = Measure!IsRight(o))
  <2>1. /\ g \in S \cup {Measure!Enclosed(h) : h \in S \ Measure!Words}
        /\ g.pr > Measure!opp_pr(o) \/ (g.pr = Measure!opp_pr(o) /\ right = Measure!IsRight(o))
    BY DEF Measure!Sides
  <2>2. g \in S \/ \E h \in S : g = Measure!Enclosed(h)
    BY <2>1
  <2>3. QED BY <2>1, <2>2, SoundEnclosed
<1>4. CASE e \in S
  BY <1>4
<1>5. CASE \E f \in Measure!Functions : \E g \in S : e = Measure!Call(f, g)
  BY <1>5, SoundCall
<1>6. ASSUME NEW o \in Measure!Opps, NEW l \in Measure!Sides(S, o, FALSE),
             NEW r \in Measure!Sides(S, o, TRUE), e = Measure!Binary(o, l, r)
      PROVE  Sound(e)
  <2>1. /\ Sound(l)
        /\ l.pr > Measure!opp_pr(o) \/ (l.pr = Measure!opp_pr(o) /\ ~Measure!IsRight(o))
    BY <1>3 DEF Measure!IsRight
  <2>2. /\ Sound(r)
        /\ r.pr > Measure!opp_pr(o) \/ (r.pr = Measure!opp_pr(o) /\ Measure!IsRight(o))
    BY <1>3 DEF Measure!IsRight
  <2>3. QED BY <1>6, <2>1, <2>2, SoundBinary
<1>7. QED BY <1>2, <1>4, <1>5, <1>6

-----------------------------------------------------------------------------
(* Expressions: every one that is written is sound.                         *)

\* A first part of the sets of expressions.
Levels(g, m) == g = [n \in 0 .. m |-> IF n = 0 THEN Measure!Words ELSE Measure!Deeper(g[n - 1])]

LEMMA LevelsExist ==
  ASSUME NEW m \in Nat
  PROVE  \E g : Levels(g, m)
<1> DEFINE Bad == {n \in Nat : ~\E g : Levels(g, n)}
<1>1. SUFFICES ASSUME Bad # {} PROVE FALSE
  OBVIOUS
<1>2. PICK n \in Bad : \A k \in Bad : n <= k
  BY <1>1, Least
<1>3. CASE n = 0
  <2> DEFINE g == [k \in 0 .. 0 |-> Measure!Words]
  <2>1. g = [k \in 0 .. 0 |-> IF k = 0 THEN Measure!Words ELSE Measure!Deeper(g[k - 1])]
    OBVIOUS
  <2>2. Levels(g, 0)
    BY <2>1 DEF Levels
  <2>3. QED BY <1>2, <1>3, <2>2
<1>4. CASE n # 0
  <2>1. n - 1 \in Nat /\ n \in Nat /\ n - 1 \notin Bad
    BY <1>2, <1>4
  <2>2. PICK g : Levels(g, n - 1)
    BY <2>1
  <2> DEFINE h == [k \in 0 .. n |-> IF k = n THEN Measure!Deeper(g[n - 1]) ELSE g[k]]
  <2>3. \A k \in 0 .. n - 1 : g[k] = IF k = 0 THEN Measure!Words ELSE Measure!Deeper(g[k - 1])
    BY <2>2 DEF Levels
  <2>4. \A k \in 0 .. n : h[k] = IF k = n THEN Measure!Deeper(g[n - 1]) ELSE g[k]
    OBVIOUS
  <2>5. h = [k \in 0 .. n |-> h[k]]
    OBVIOUS
  <2> HIDE DEF h
  <2>6. ASSUME NEW k \in 0 .. n
        PROVE  h[k] = IF k = 0 THEN Measure!Words ELSE Measure!Deeper(h[k - 1])
    <3>1. CASE k = n
      <4>1. n - 1 \in 0 .. n /\ n - 1 # n
        BY <2>1
      <4>2. h[n - 1] = g[n - 1]
        BY <2>4, <4>1
      <4>3. QED BY <1>4, <2>4, <3>1, <4>2
    <3>2. CASE k # n /\ k # 0
      <4>1. k \in 0 .. n - 1 /\ k - 1 \in 0 .. n /\ k - 1 # n
        BY <2>1, <3>2
      <4>2. h[k] = g[k] /\ h[k - 1] = g[k - 1]
        BY <2>4, <3>2, <4>1
      <4>3. QED BY <2>3, <3>2, <4>1, <4>2
    <3>3. CASE k # n /\ k = 0
      <4>1. 0 \in 0 .. n - 1
        BY <1>4, <2>1
      <4>2. QED BY <2>3, <2>4, <3>3, <4>1
    <3>4. QED BY <3>1, <3>2, <3>3
  <2>7. h = [k \in 0 .. n |-> IF k = 0 THEN Measure!Words ELSE Measure!Deeper(h[k - 1])]
    BY <2>5, <2>6
  <2>8. Levels(h, n)
    BY <2>7 DEF Levels
  <2>9. QED BY <1>2, <2>8
<1>5. QED BY <1>3, <1>4

LEMMA DepthIs == Depth \in Nat
  BY MCMeasureAssumption DEF Measure!RpnAssumption

LEMMA ExpressionsLevels == Levels(Measure!Expressions, Depth)
<1>1. \E g : Levels(g, Depth)
  BY DepthIs, LevelsExist
<1>2. QED BY <1>1 DEF Levels, Measure!Expressions

LEMMA SoundExpressions ==
  ASSUME NEW e \in Measure!Expressions[Depth]
  PROVE  Sound(e)
<1> DEFINE X == Measure!Expressions
           Bad == {n \in 0 .. Depth : \E d \in X[n] : ~Sound(d)}
<1>1. \A n \in 0 .. Depth :
        X[n] = IF n = 0 THEN Measure!Words ELSE Measure!Deeper(X[n - 1])
  BY ExpressionsLevels DEF Levels
<1> HIDE DEF X
<1>2. Bad = {}
  <2>1. SUFFICES ASSUME Bad # {} PROVE FALSE
    OBVIOUS
  <2>2. Bad \in SUBSET Nat
    BY DepthIs
  <2>3. PICK n \in Bad : \A k \in Bad : n <= k
    BY <2>1, <2>2, Least
  <2>4. n \in 0 .. Depth /\ ~\A d \in X[n] : Sound(d)
    BY <2>3
  <2>5. CASE n = 0
    BY <1>1, <2>4, <2>5, SoundWord
  <2>6. CASE n # 0
    <3>1. n - 1 \in 0 .. Depth /\ n - 1 \notin Bad
      BY DepthIs, <2>3, <2>4, <2>6
    <3>2. \A d \in X[n - 1] : Sound(d)
      BY <3>1
    <3>3. X[n] = Measure!Deeper(X[n - 1])
      BY <1>1, <2>4, <2>6
    <3>4. QED BY <2>4, <3>2, <3>3, SoundDeeper
  <2>7. QED BY <2>5, <2>6
<1>3. Depth \in 0 .. Depth
  BY DepthIs
<1>4. QED BY <1>2, <1>3 DEF X

-----------------------------------------------------------------------------
(* Expressions: the steps of rpn_evaluate follow the trace.                 *)

\* What has been read leads to a stack and an output that together yield the tree, and
\* what has been evaluated leads to the tree alone.
MeasureInv ==
  /\ Len(symbols) \in Nat
  /\ phase = "read" =>
       /\ symbol_i \in 1 .. Len(symbols) + 1
       /\ symbols \in Seq(Measure!Symbols)
       /\ \E W, ops, q :
            /\ ops \in Seq(Measure!Symbols) /\ q \in Seq(Measure!Symbols)
            /\ ReadTrace(W, symbols) /\ W[Len(symbols)] = <<ops, q>>
            /\ Yields(tree, q \o Measure!Reverse(ops))
            /\ W[symbol_i - 1] = <<stack, output>>
  /\ phase = "evaluate" =>
       /\ output \in Seq(Measure!Symbols)
       /\ symbol_i \in 1 .. Len(output) + 1
       /\ \E W : EvalTrace(W, output) /\ W[Len(output)] = <<tree>> /\ W[symbol_i - 1] = stack
  /\ phase = "returned" => stack = <<tree>>
  /\ phase \in {"read", "evaluate", "returned"}

LEMMA MeasureInit == Measure!Init => MeasureInv
<1> SUFFICES ASSUME Measure!Init PROVE MeasureInv
  OBVIOUS
<1>1. /\ output = <<>> /\ stack = <<>> /\ symbol_i = 1 /\ phase = "read"
  BY DEF Measure!Init
<1>2. PICK e \in Measure!Expressions[Depth] : tree = e.tree /\ symbols = e.symbols
  BY DEF Measure!Init
<1>3. Sound(e)
  BY SoundExpressions
<1>4. PICK ops, q : Leaves(e, ops, q)
  BY <1>3 DEF Sound
<1>5. /\ symbols \in Seq(Measure!Symbols) /\ Len(symbols) \in Nat
      /\ ops \in Seq(Measure!Symbols) /\ q \in Seq(Measure!Symbols)
      /\ <<>> \in Seq(Measure!Symbols)
  <2>1. symbols \in Seq(Measure!Symbols)
    BY <1>2, <1>3 DEF Sound
  <2>2. QED BY <1>4, <2>1, LeavesShape, LenProperties, EmptySeq
<1>6. Reads(symbols, <<<<>>, <<>>>>, <<<<>> \o ops, <<>> \o q>>)
  BY <1>2, <1>4, <1>5 DEF Leaves, Guard
<1>7. <<>> \o ops = ops /\ <<>> \o q = q
  BY <1>5, ConcatEmptySeq
<1>8. PICK W : W[0] = <<<<>>, <<>>>> /\ W[Len(symbols)] = <<ops, q>> /\ ReadTrace(W, symbols)
  BY <1>6, <1>7 DEF Reads
<1>9. Yields(tree, q \o Measure!Reverse(ops))
  BY <1>2, <1>4 DEF Leaves
<1>10. symbol_i \in 1 .. Len(symbols) + 1 /\ symbol_i - 1 = 0
  BY <1>1, <1>5
<1>11. W[symbol_i - 1] = <<stack, output>>
  BY <1>1, <1>8, <1>10
<1>12. QED BY <1>1, <1>5, <1>8, <1>9, <1>10, <1>11 DEF MeasureInv

\* One more symbol read as ReadOne says.
LEMMA ReadOn ==
  ASSUME MeasureInv, phase = "read", symbol_i <= Len(symbols), symbol_i' = symbol_i + 1,
         UNCHANGED <<tree, symbols, phase>>,
         <<stack', output'>> = ReadOne(symbols[symbol_i], <<stack, output>>)
  PROVE  MeasureInv'
<1>1. /\ Len(symbols) \in Nat /\ symbols \in Seq(Measure!Symbols)
      /\ symbol_i \in 1 .. Len(symbols) + 1
  BY DEF MeasureInv
<1>2. PICK W, ops, q :
        /\ ops \in Seq(Measure!Symbols) /\ q \in Seq(Measure!Symbols)
        /\ ReadTrace(W, symbols) /\ W[Len(symbols)] = <<ops, q>>
        /\ Yields(tree, q \o Measure!Reverse(ops))
        /\ W[symbol_i - 1] = <<stack, output>>
  BY DEF MeasureInv
<1>3. symbol_i \in 1 .. Len(symbols) /\ symbol_i' \in 1 .. Len(symbols) + 1 /\ symbol_i' - 1 = symbol_i
  BY <1>1
<1>4. W[symbol_i] = ReadOne(symbols[symbol_i], W[symbol_i - 1])
  BY <1>2, <1>3 DEF ReadTrace
<1>5. W[symbol_i' - 1] = <<stack', output'>>
  BY <1>2, <1>3, <1>4
<1>6. QED BY <1>1, <1>2, <1>3, <1>5 DEF MeasureInv

LEMMA MeasureNext == MeasureInv /\ [Measure!Next]_(Measure!vars) => MeasureInv'
<1> SUFFICES ASSUME MeasureInv, [Measure!Next]_(Measure!vars) PROVE MeasureInv'
  OBVIOUS
<1>1. CASE Measure!ReadOperand
  <2>1. /\ phase = "read" /\ symbol_i <= Len(symbols) /\ symbol_i' = symbol_i + 1
        /\ symbols[symbol_i] \in Measure!Operands
        /\ output' = Append(output, symbols[symbol_i]) /\ stack' = stack
        /\ UNCHANGED <<tree, symbols, phase>>
    BY <1>1 DEF Measure!ReadOperand, Measure!Reading
  <2>2. <<stack', output'>> = ReadOne(symbols[symbol_i], <<stack, output>>)
    BY <2>1 DEF ReadOne
  <2>3. QED BY <2>1, <2>2, ReadOn
<1>2. CASE Measure!Open
  <2>1. /\ phase = "read" /\ symbol_i <= Len(symbols) /\ symbol_i' = symbol_i + 1
        /\ symbols[symbol_i] \in Measure!Functions \cup {"("}
        /\ stack' = Append(stack, symbols[symbol_i]) /\ output' = output
        /\ UNCHANGED <<tree, symbols, phase>>
    BY <1>2 DEF Measure!Open, Measure!Reading
  <2>2. <<stack', output'>> = ReadOne(symbols[symbol_i], <<stack, output>>)
    BY <2>1, SymbolKinds DEF ReadOne
  <2>3. QED BY <2>1, <2>2, ReadOn
<1>3. CASE Measure!ReadOperator
  <2> DEFINE n == Measure!Run(stack, {s \in Measure!Opps : Measure!Binds(symbols[symbol_i], s)})
  <2>1. /\ phase = "read" /\ symbol_i <= Len(symbols) /\ symbol_i' = symbol_i + 1
        /\ symbols[symbol_i] \in Measure!Opps
        /\ output' = output \o Measure!Moved(stack, n)
        /\ stack' = Append(Measure!Popped(stack, n), symbols[symbol_i])
        /\ UNCHANGED <<tree, symbols, phase>>
    BY <1>3 DEF Measure!ReadOperator, Measure!Reading
  <2>2. <<stack', output'>> = ReadOne(symbols[symbol_i], <<stack, output>>)
    BY <2>1, SymbolKinds DEF ReadOne
  <2> HIDE DEF n
  <2>3. QED BY <2>1, <2>2, ReadOn
<1>4. CASE Measure!Close
  <2> DEFINE n == Measure!Run(stack, Measure!Symbols \ {"("})
             rest == Measure!Popped(stack, n + 1)
             moved == output \o Measure!Moved(stack, n)
  <2>1. /\ phase = "read" /\ symbol_i <= Len(symbols) /\ symbol_i' = symbol_i + 1
        /\ symbols[symbol_i] = ")"
        /\ UNCHANGED <<tree, symbols, phase>>
    BY <1>4 DEF Measure!Close, Measure!Reading
  <2>2. IF rest # <<>> /\ Measure!Last(rest) \in Measure!Functions
        THEN output' = Append(moved, Measure!Last(rest)) /\ stack' = Measure!Front(rest)
        ELSE output' = moved /\ stack' = rest
    BY <1>4 DEF Measure!Close
  <2>3. ReadOne(")", <<stack, output>>)
          = IF rest # <<>> /\ Measure!Last(rest) \in Measure!Functions
            THEN <<Measure!Front(rest), Append(moved, Measure!Last(rest))>>
            ELSE <<rest, moved>>
    BY SymbolKinds DEF ReadOne
  <2> HIDE DEF n, rest, moved
  <2>4. <<stack', output'>> = ReadOne(symbols[symbol_i], <<stack, output>>)
    BY <2>1, <2>2, <2>3
  <2>5. QED BY <2>1, <2>4, ReadOn
<1>5. CASE Measure!Flush
  <2>1. /\ phase = "read" /\ symbol_i > Len(symbols)
        /\ output' = output \o Measure!Moved(stack, Len(stack)) /\ stack' = <<>>
        /\ symbol_i' = 1 /\ phase' = "evaluate"
        /\ UNCHANGED <<tree, symbols>>
    BY <1>5 DEF Measure!Flush
  <2>2. /\ Len(symbols) \in Nat /\ symbols \in Seq(Measure!Symbols)
        /\ symbol_i \in 1 .. Len(symbols) + 1
    BY <2>1 DEF MeasureInv
  <2>3. PICK W, ops, q :
          /\ ops \in Seq(Measure!Symbols) /\ q \in Seq(Measure!Symbols)
          /\ ReadTrace(W, symbols) /\ W[Len(symbols)] = <<ops, q>>
          /\ Yields(tree, q \o Measure!Reverse(ops))
          /\ W[symbol_i - 1] = <<stack, output>>
    BY <2>1 DEF MeasureInv
  <2>4. symbol_i - 1 = Len(symbols)
    BY <2>1, <2>2
  <2>5. stack = ops /\ output = q
    BY <2>3, <2>4
  <2>6. Measure!Moved(ops, Len(ops)) = Measure!Reverse(ops)
    <3>1. <<>> \in Seq(Measure!Symbols) /\ <<>> \o ops = ops
      BY <2>3, ConcatEmptySeq, EmptySeq
    <3>2. Measure!Moved(<<>> \o ops, Len(ops)) = Measure!Reverse(ops)
      BY <2>3, <3>1, TopMoved
    <3>3. QED BY <3>1, <3>2
  <2>7. output' = q \o Measure!Reverse(ops)
    BY <2>1, <2>5, <2>6
  <2>8. output' \in Seq(Measure!Symbols) /\ Len(output') \in Nat
    BY <2>3, <2>7, ReverseIs, ConcatProperties, LenProperties
  <2>9. Evals(output', <<>>, <<tree>>)
    <3>1. <<>> \in Seq({}) /\ Append(<<>>, tree) = <<tree>>
      BY EmptySeq
    <3>2. QED BY <2>3, <2>7, <3>1 DEF Yields
  <2>10. PICK X : X[0] = <<>> /\ X[Len(output')] = <<tree>> /\ EvalTrace(X, output')
    BY <2>9 DEF Evals
  <2>11. symbol_i' \in 1 .. Len(output') + 1 /\ symbol_i' - 1 = 0
    BY <2>1, <2>8
  <2>12. X[symbol_i' - 1] = stack'
    BY <2>1, <2>10, <2>11
  <2>13. QED BY <2>1, <2>2, <2>8, <2>10, <2>11, <2>12 DEF MeasureInv
<1>6. CASE Measure!Evaluate
  <2>1. /\ phase = "evaluate" /\ symbol_i <= Len(output) /\ symbol_i' = symbol_i + 1
        /\ stack' = EvalOne(output[symbol_i], stack)
        /\ UNCHANGED <<tree, symbols, output, phase>>
    BY <1>6 DEF Measure!Evaluate, EvalOne
  <2>2. /\ Len(symbols) \in Nat /\ output \in Seq(Measure!Symbols)
        /\ symbol_i \in 1 .. Len(output) + 1 /\ Len(output) \in Nat
    BY <2>1, LenProperties DEF MeasureInv
  <2>3. PICK W : EvalTrace(W, output) /\ W[Len(output)] = <<tree>> /\ W[symbol_i - 1] = stack
    BY <2>1 DEF MeasureInv
  <2>4. /\ symbol_i \in 1 .. Len(output) /\ symbol_i' \in 1 .. Len(output) + 1
        /\ symbol_i' - 1 = symbol_i
    BY <2>1, <2>2
  <2>5. W[symbol_i] = EvalOne(output[symbol_i], W[symbol_i - 1])
    BY <2>3, <2>4 DEF EvalTrace
  <2>6. W[symbol_i' - 1] = stack'
    BY <2>1, <2>3, <2>4, <2>5
  <2>7. QED BY <2>1, <2>2, <2>3, <2>4, <2>6 DEF MeasureInv
<1>7. CASE Measure!Return
  <2>1. /\ phase = "evaluate" /\ symbol_i > Len(output) /\ phase' = "returned"
        /\ UNCHANGED <<tree, symbols, output, stack, symbol_i>>
    BY <1>7 DEF Measure!Return
  <2>2. /\ Len(symbols) \in Nat /\ output \in Seq(Measure!Symbols)
        /\ symbol_i \in 1 .. Len(output) + 1 /\ Len(output) \in Nat
    BY <2>1, LenProperties DEF MeasureInv
  <2>3. symbol_i - 1 = Len(output)
    BY <2>1, <2>2
  <2>4. stack = <<tree>>
    BY <2>1, <2>3 DEF MeasureInv
  <2>5. QED BY <2>1, <2>2, <2>4 DEF MeasureInv
<1>8. CASE UNCHANGED Measure!vars
  BY <1>8 DEF Measure!vars, MeasureInv
<1>9. QED BY <1>1, <1>2, <1>3, <1>4, <1>5, <1>6, <1>7, <1>8 DEF Measure!Next

\* rpn_evaluate returns the value of the expression as it is written, and nothing stays on
\* the stack, for any operands, operators and functions of the code, nested to any depth,
\* with parentheses wherever they may be left out.
THEOREM EvaluatesAsWrittenHolds == Measure!Spec => []EvaluatesAsWritten
<1>1. MeasureInv => EvaluatesAsWritten
  BY DEF MeasureInv, EvaluatesAsWritten, Measure!EvaluatesAsWritten
<1>2. QED BY <1>1, MeasureInit, MeasureNext, PTL DEF Measure!Spec
=============================================================================
