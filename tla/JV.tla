--------------------------------- MODULE JV ---------------------------------
(***************************************************************************)
(* A current-voltage sweep: sim_jv of plugins/jv/jv.c, from the search for *)
(* the equilibrium (libdevice/find_n0.c) and the ramp to the first voltage *)
(* (libnewtontricks/misc.c, externalv.c) to the figures it reports, over   *)
(* the solver of NewtonLoop.  Every solve_all is one call of SolveCur, for *)
(* a device of one slice.                                                  *)
(*                                                                         *)
(* Voltages, currents and errors are small integers; the current a state   *)
(* carries is given with the problem.  Where the code guesses a voltage by *)
(* a secant, any voltage of the problem may be the guess.                  *)
(***************************************************************************)
EXTENDS NewtonLoop

CONSTANTS
    RampFrom,       \* distance of the first voltage that needs a ramp: 0.2 V
    RampStep,       \* dV of ramp_externalv: 0.12 V
    FirstMin,       \* iterations of the first solution: 30
    MaxTries        \* solutions of one external voltage: 1000

VARIABLES
    at,             \* where sim_jv is
    jv,             \* its locals
    power_den,      \* one point of the lists that start with the second point
    R_list,         \* the voltages of the lists kept for sim_info.dat
    out             \* what is written to sim_info.dat

vars == <<loop, at, jv, power_den, R_list, out>>
lists == <<power_den, R_list, out>>

Abs(x) == IF x < 0 THEN -x ELSE x
Toward(from, to) == IF to > from THEN 1 ELSE -1

J(v, s)   == prob.J[<<v, s>>]
Vexternal == V + prob.Rcontact * J(V, ns.s)

Up == prob.sweep.Vstop >= prob.sweep.Vstart

\* jv_load_config: the sign of the step follows the direction.
Vstep == IF Up THEN Abs(prob.sweep.Vstep) ELSE -Abs(prob.sweep.Vstep)

\* get_step_n: how many steps, each jv_step_mul times the one before, it
\* takes to get from nought to v; and the step that follows.
Reached(w) ==
    LET pos[n \in Nat] == IF n = 0 THEN 0
                          ELSE pos[n - 1] + Abs(w.Vstep) * w.jv_step_mul ^ (n - 1)
    IN pos

get_step_n(w, v) ==
    LET pos == Reached(w) IN
    CHOOSE n \in 0 .. Abs(v) : pos[n] >= Abs(v) /\ (n = 0 \/ pos[n - 1] < Abs(v))

Growth(w, v) == w.jv_step_mul ^ get_step_n(w, v)

NextStep(v, step) ==
    IF prob.sweep.jv_step_mul > 1 THEN Vstep * Growth(prob.sweep, v) ELSE step

\* The states and currents of a device are given at the voltages of a range, and
\* in the dark; the range holds nought, the ends of the sweep and every guess.  A
\* whole power of a whole number is one.  All else is as configured.
ASSUME JVAssumption ==
    /\ Steps \in Nat \ {0}
    /\ Dark \notin Int
    /\ \A p \in Problems :
         /\ p.voltages \subseteq Int
         /\ \E lo, hi \in p.voltages : p.voltages = lo .. hi
         /\ {0, p.sweep.Vstart, p.sweep.Vstop} \cup p.volts \subseteq p.voltages
         /\ p.sweep.Vstep \in Int
         /\ p.sweep.jv_step_mul > 1 => \A v \in p.voltages : Growth(p.sweep, v) \in Nat
         /\ p.first \in p.states
         /\ p.step \in [(p.voltages \cup {Dark}) \X p.states -> p.states]
         /\ \A v \in p.voltages, s \in p.states : p.J[<<v, s>>] \in Int
         /\ p.Rcontact \in Nat
         /\ DOMAIN p.autoramp \cap {"Nion_enabled", "full_newton"} = {}
         /\ p.dump_sim_info \in BOOLEAN

JVInit ==
    /\ LoopInit
    /\ at = "start"
    /\ jv = [V |-> 0, ittr |-> 0, first |-> TRUE, Vstep |-> 0,
             Jlast |-> 0, Pdenlast |-> -1, found_voc |-> FALSE, mu_pmax |-> 0,
             target |-> 0, tries |-> 0, i1 |-> 0, saved |-> Settings(in)]
    /\ power_den = <<>>
    /\ R_list = <<>>
    /\ out = <<>>

Ready(here) == pc = "idle" /\ at = here

(***************************************************************************)
(* find_n0: the equilibrium, first without and then with the mobile ions,  *)
(* both with the settings of the first solution, then with those of the    *)
(* user.                                                                   *)
(***************************************************************************)
N0 == [in EXCEPT !.max_electrical_itt = prob.math.max_electrical_itt0,
                 !.electrical_clamp = prob.math.electrical_clamp0,
                 !.min_cur_error = prob.math.electrical_error0]

WithoutIons ==
    /\ Ready("start")
    /\ in.Nion_enabled
    /\ SolveCur(Dark, [N0 EXCEPT !.Nion_enabled = FALSE])
    /\ at' = "ions"
    /\ jv' = [jv EXCEPT !.saved = Settings(in)]
    /\ UNCHANGED <<math_save_state, lists>>

WithIons_NotInMatrix ==
    /\ Ready("ions")
    /\ SolveCur(Dark, [in EXCEPT !.Nion_enabled = TRUE])
    /\ at' = "restore"
    /\ UNCHANGED <<math_save_state, jv, lists>>

WithIons ==
    /\ Ready("ions")
    /\ SolveCur(Dark, [in EXCEPT !.Nion_enabled = TRUE, !.full_newton = TRUE])
    /\ at' = "restore"
    /\ UNCHANGED <<math_save_state, jv, lists>>

Equilibrium ==
    /\ \/ Ready("start") /\ ~in.Nion_enabled
       \/ Ready("restore")
    /\ SolveCur(Dark, [in EXCEPT !.max_electrical_itt = jv.saved.max_electrical_itt,
                                 !.electrical_clamp = jv.saved.electrical_clamp,
                                 !.min_cur_error = jv.saved.min_cur_error])
    /\ at' = "light"
    /\ UNCHANGED <<math_save_state, jv, lists>>

(***************************************************************************)
(* The ramp to the first voltage.  One device slice goes through           *)
(* ramp_externalv, more than one through ntricks_auto_ramp_contacts.       *)
(***************************************************************************)
Ramps ==
    /\ Ready("light")
    /\ V' = 0
    /\ IF prob.wide
         THEN /\ at' = "wide"
              /\ math_save_state' = Settings(in)
              /\ in' = Replace(in, prob.autoramp)
              /\ UNCHANGED jv
         ELSE /\ at' = IF /\ Abs(prob.sweep.Vstart) > RampFrom
                          /\ Abs(prob.sweep.Vstart) > RampStep
                         THEN "external" ELSE "first"
              /\ jv' = [jv EXCEPT !.target = RampStep * Toward(0, prob.sweep.Vstart)]
              /\ UNCHANGED <<math_save_state, in>>
    /\ UNCHANGED <<prob, ns, ittr, error, cache_file_path, disk, pc, lists>>

\* contacts_itterate_to_desired_voltage moves the contact and solves, until
\* there is no contact left to move.
AutoRamp ==
    /\ Ready("wide")
    /\ V # prob.sweep.Vstart
    /\ SolveCur(V + Toward(V, prob.sweep.Vstart), in)
    /\ UNCHANGED <<math_save_state, at, jv, lists>>

AutoRampDone ==
    /\ Ready("wide")
    /\ V = prob.sweep.Vstart
    /\ in' = Replace(in, math_save_state)
    /\ at' = "first"
    /\ UNCHANGED <<prob, math_save_state, V, ns, ittr, error, cache_file_path,
                   disk, pc, jv, lists>>

\* sim_externalv_ittr: one solution where the contact is, one a little
\* beside it, and then guesses until the voltage over diode and resistor,
\* reckoned with the current of the second solution, is the one wanted.
ExternalFirst ==
    /\ Ready("external")
    /\ SolveCur(V, in)
    /\ at' = "beside"
    /\ jv' = [jv EXCEPT !.tries = 0]
    /\ UNCHANGED <<math_save_state, lists>>

ExternalSecond ==
    /\ Ready("beside")
    /\ \E v \in prob.volts : SolveCur(v, in)
    /\ at' = "guess"
    /\ UNCHANGED <<math_save_state, jv, lists>>

ExternalGuess ==
    /\ Ready("guess")
    /\ \E v \in prob.volts : SolveCur(v, in)
    /\ at' = "test"
    /\ jv' = [jv EXCEPT !.i1 = J(V, ns.s)]
    /\ UNCHANGED <<math_save_state, lists>>

ExternalDone == \/ jv.i1 * prob.Rcontact + V = jv.target
                \/ jv.tries > MaxTries

ExternalAgain ==
    /\ Ready("test")
    /\ ~ExternalDone
    /\ \E v \in prob.volts : SolveCur(v, in)
    /\ jv' = [jv EXCEPT !.tries = @ + 1]
    /\ UNCHANGED <<math_save_state, at, lists>>

\* The voltage is moved once more before the test, and ramp_externalv takes
\* its next step, the last of which is whatever is left.
ExternalNext ==
    /\ Ready("test")
    /\ ExternalDone
    /\ V' \in prob.volts
    /\ LET to == prob.sweep.Vstart IN
       IF jv.target = to
         THEN at' = "first" /\ UNCHANGED jv
         ELSE /\ at' = "external"
              /\ jv' = [jv EXCEPT !.target =
                            IF Abs(@ - to) < RampStep THEN to
                            ELSE @ + RampStep * Toward(0, to)]
    /\ UNCHANGED <<prob, in, math_save_state, ns, ittr, error,
                   cache_file_path, disk, pc, lists>>

(***************************************************************************)
(* The first solution, in the light and with many iterations, and the      *)
(* sweep.  Point is the body of the loop from one solve_all to the next.   *)
(***************************************************************************)
FirstSolution ==
    /\ Ready("first")
    /\ math_save_state' = Settings(in)
    /\ SolveCur(prob.sweep.Vstart, [in EXCEPT !.newton_min_itt = FirstMin])
    /\ at' = "pop"
    /\ UNCHANGED <<jv, lists>>

StartSweep_NoPop ==
    /\ Ready("pop")
    /\ SolveCur(prob.sweep.Vstart, [in EXCEPT !.stop = FALSE])
    /\ at' = "sweep"
    /\ jv' = [jv EXCEPT !.V = prob.sweep.Vstart, !.Vstep = Vstep]
    /\ UNCHANGED <<math_save_state, lists>>

StartSweep ==
    /\ Ready("pop")
    /\ SolveCur(prob.sweep.Vstart, [Replace(in, math_save_state) EXCEPT !.stop = FALSE])
    /\ at' = "sweep"
    /\ jv' = [jv EXCEPT !.V = prob.sweep.Vstart, !.Vstep = Vstep]
    /\ UNCHANGED <<math_save_state, lists>>

Here == [x |-> Vexternal, p |-> J(V, ns.s) * Vexternal, j |-> J(V, ns.s),
         v |-> V, s |-> ns.s]

\* What the point adds to the lists and to the figures of sim_info.dat.
Append_power_First == Append(power_den, Here)
Append_power == IF jv.ittr > 0 THEN Append(power_den, Here) ELSE power_den
Append_R == IF ~jv.first /\ prob.dump_sim_info THEN Append(R_list, Here.x)
            ELSE R_list

Pmax == /\ ~jv.first /\ prob.dump_sim_info
        /\ Abs(Here.p) > jv.Pdenlast /\ Here.x > 0 /\ Here.j < 0
Voc  == /\ ~jv.first /\ prob.dump_sim_info /\ prob.sun
        /\ jv.Jlast <= 0 /\ Here.j >= 0

Beyond(v) == IF Up THEN v > prob.sweep.Vstop ELSE v < prob.sweep.Vstop

Measured ==
    [jv EXCEPT !.ittr = @ + 1, !.first = FALSE, !.Jlast = Here.j,
               !.Pdenlast = IF Pmax THEN Abs(Here.p) ELSE @,
               !.mu_pmax = IF Pmax THEN Here.v ELSE @,
               !.found_voc = @ \/ Voc]

Stepped ==
    LET v == jv.V + jv.Vstep IN
    [Measured EXCEPT !.V = v, !.Vstep = NextStep(v, jv.Vstep)]

LeftByVexternal ==
    /\ ~jv.first
    /\ prob.sweep.jv_use_external_voltage_as_stop
    /\ Beyond(Vexternal)

Stop == \/ Beyond(jv.V + jv.Vstep)
        \/ /\ prob.sweep.jv_use_external_voltage_as_stop
           /\ Here.j > prob.sweep.jv_max_j

Point ==
    /\ Ready("sweep")
    /\ power_den' = Append_power
    /\ R_list' = Append_R
    /\ UNCHANGED <<math_save_state, out>>
    /\ \/ /\ LeftByVexternal
          /\ at' = "report"
          /\ jv' = Measured
          /\ UNCHANGED loop
       \/ /\ ~LeftByVexternal
          /\ Stop \/ prob.sweep.jv_single_point
          /\ at' = "report"
          /\ jv' = Stepped
          /\ in' = [in EXCEPT !.stop = Stop]
          /\ UNCHANGED <<prob, V, ns, ittr, error, cache_file_path, disk, pc>>
       \/ /\ ~LeftByVexternal
          /\ ~Stop /\ ~prob.sweep.jv_single_point
          /\ jv' = Stepped
          /\ SolveCur(jv.V + jv.Vstep, in)
          /\ UNCHANGED at

\* inter_get_min_pos: the first of the smallest.
MinPos(l) == CHOOSE k \in DOMAIN l :
                 /\ \A i \in DOMAIN l : l[k].p <= l[i].p
                 /\ \A i \in 1 .. k - 1 : l[k].p < l[i].p

Report ==
    /\ Ready("report")
    /\ at' = "done"
    /\ out' = IF power_den # <<>> /\ jv.found_voc
                THEN LET k == MinPos(power_den) IN
                     <<[V_pmax |-> power_den[k].x, r_pmax |-> R_list[k],
                        Pmax |-> -power_den[k].p, mu_pmax |-> jv.mu_pmax,
                        v |-> power_den[k].v]>>
                ELSE <<>>
    /\ UNCHANGED <<loop, jv, power_den, R_list>>

Solver == SolveElectrical /\ UNCHANGED <<at, jv, lists>>

Next ==
    \/ Solver
    \/ WithoutIons \/ WithIons \/ Equilibrium
    \/ Ramps \/ AutoRamp \/ AutoRampDone
    \/ ExternalFirst \/ ExternalSecond \/ ExternalGuess \/ ExternalAgain
    \/ ExternalNext
    \/ FirstSolution \/ StartSweep \/ Point \/ Report

Spec == JVInit /\ [][Next]_vars

\* The program is one thread that does not wait for anything.
FairSpec == Spec /\ WF_vars(Next)

(***************************************************************************)
(* The settings a solution runs under are the user's wherever the code     *)
(* does not mean to replace them: the saved settings sit in one slot, and  *)
(* three pieces of code put theirs aside around a solution.                *)
(***************************************************************************)
SettingsKept ==
    at \in {"light", "external", "beside", "guess", "test", "first", "sweep",
            "report", "done"} => Settings(in) = Settings(prob.math)

(***************************************************************************)
(* What the cache holds under the name of a matrix is the state that       *)
(* matrix belongs to, or the one its solution leads to: what is found on   *)
(* disk is never another problem's.  The name is kept from one solution to *)
(* the next, and the file is written after the loop that made it.          *)
(***************************************************************************)
CacheFollowsMatrix ==
    \A m \in DOMAIN disk : disk[m] \in {m[2], prob.step[m]}

(***************************************************************************)
(* Every point of the curve is a state that was solved at the voltage it   *)
(* is recorded at, with the cache or without, however the loop ended.      *)
(***************************************************************************)
PointsSolvedAtTheirVoltage ==
    \A k \in DOMAIN power_den :
        \E t \in prob.states :
            power_den[k].s = prob.step[<<power_den[k].v, t>>]

(***************************************************************************)
(* The recombination rate and the mobility reported at the maximum power   *)
(* point are those of the point with the largest power, where there is any *)
(* power to be had.  One is found by its place in another list, the other  *)
(* is remembered while the sweep goes on.                                  *)
(***************************************************************************)
PmaxOwnPoint ==
    \A i \in DOMAIN out :
        /\ out[i].r_pmax = out[i].V_pmax
        /\ out[i].Pmax > 0 => out[i].mu_pmax = out[i].v

(***************************************************************************)
(* Every sweep comes to an end, in either direction, with steps that grow  *)
(* and with solutions that never converge, unless the program is ended by  *)
(* a bad one as the configuration asks.                                    *)
(***************************************************************************)
SweepEnds == <>(at = "done" \/ pc = "exit")

-----------------------------------------------------------------------------
(***************************************************************************)
(* The inductive invariants behind the safety properties.                  *)
(***************************************************************************)

\* The user's settings are in force, or where the code put them aside; what
\* find_n0 does not replace stays.
User == Settings(prob.math)

Aside ==
    /\ DOMAIN User \cup {"Nion_enabled", "full_newton"} \subseteq DOMAIN in
    /\ {"V", "Vstep", "ittr", "first", "Jlast", "Pdenlast", "mu_pmax", "found_voc",
        "target", "tries", "i1", "saved"} \subseteq DOMAIN jv
    /\ at = "start" => Settings(in) = User
    /\ at \in {"start", "ions", "restore"} =>
         /\ jv.saved = User
         /\ in.newton_min_itt = prob.math.newton_min_itt
         /\ in.newton_clever_exit = prob.math.newton_clever_exit
    /\ at \in {"wide", "pop"} => math_save_state = User

SettingsInv == SettingsKept /\ Aside

\* The name of the cache file is that of the matrix the state comes from.
NamedByMatrix ==
    /\ {"s", "last_ittr"} \subseteq DOMAIN ns
    /\ pc = "after" /\ prob.use_cache =>
         ns.s \in {cache_file_path[2], prob.step[cache_file_path]}

CacheInv == CacheFollowsMatrix /\ NamedByMatrix

\* The voltages asked for are among those the device is given at, since the sweep
\* goes from its start towards its end, in steps that never turn round.
InReach == \/ V \in prob.voltages
           \/ V = Dark /\ at \in {"ions", "restore", "light"}

ReachInv ==
    /\ prob \in Problems
    /\ InReach
    /\ at = "sweep" =>
         /\ jv.V \in prob.voltages /\ jv.Vstep \in Int
         /\ IF Up THEN jv.V >= prob.sweep.Vstart /\ jv.Vstep >= 0
                  ELSE jv.V <= prob.sweep.Vstart /\ jv.Vstep <= 0

\* The ions are in the matrix wherever they are switched on, once they were found.
Ions == at = "start" \/ ~in.Nion_enabled \/ in.full_newton

\* After the first pass of a solution, and so after the loop, in the cache, and
\* where the sweep looks, a state has been solved at its voltage.
SolvedAt(v, s) == \E t \in prob.states : s = prob.step[<<v, t>>]

SolvedInv ==
    /\ prob \in Problems /\ ns.s \in prob.states /\ Ions
    /\ pc = "loop" /\ ns.last_ittr # 0 => SolvedAt(V, ns.s)
    /\ pc = "after" => /\ SolvedAt(V, ns.s)
                       /\ prob.use_cache => cache_file_path[1] = V
    /\ pc = "idle" /\ at = "sweep" => SolvedAt(V, ns.s)
    /\ \A m \in DOMAIN disk : disk[m] \in prob.states /\ SolvedAt(m[1], disk[m])

\* The lists of the points with a figure each are in step.
Figures == [x : Int, p : Int, j : Int, v : Int, s : prob.states]

Aligned ==
    /\ power_den \in Seq(Figures)
    /\ \A k \in DOMAIN power_den : power_den[k].p = power_den[k].j * power_den[k].x
    /\ jv.ittr \in Nat /\ (jv.first <=> jv.ittr = 0)
    /\ R_list \in Seq(Int)
    /\ prob.dump_sim_info =>
         /\ Len(R_list) = Len(power_den)
         /\ \A k \in DOMAIN power_den : R_list[k] = power_den[k].x
    /\ jv.found_voc => prob.dump_sim_info

PointsInv == Aligned /\ PointsSolvedAtTheirVoltage

\* Power is had from a device between nought and the open circuit only.
ForwardOnly(p) == \A v \in p.voltages, s \in p.states : v < 0 => p.J[<<v, s>>] <= 0

Generating == {k \in DOMAIN power_den : power_den[k].x > 0 /\ power_den[k].j < 0}

\* What is remembered of the largest power is of the first point that has it.
Remembered ==
    /\ jv.Pdenlast \in Int /\ jv.Pdenlast >= -1
    /\ prob.dump_sim_info =>
         /\ \A k \in Generating : Abs(power_den[k].p) <= jv.Pdenlast
         /\ \/ Generating = {} /\ jv.Pdenlast = -1
            \/ \E k \in Generating :
                 /\ Abs(power_den[k].p) = jv.Pdenlast
                 /\ power_den[k].v = jv.mu_pmax
                 /\ \A i \in Generating : i < k => Abs(power_den[i].p) < jv.Pdenlast

Passive == \A k \in DOMAIN power_den : power_den[k].x >= 0 \/ power_den[k].j <= 0

PowerInv == Remembered /\ (ForwardOnly(prob) => Passive /\ PmaxOwnPoint)
=============================================================================
