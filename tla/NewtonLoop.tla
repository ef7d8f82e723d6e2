----------------------------- MODULE NewtonLoop -----------------------------
(***************************************************************************)
(* The loop of Newton's method for the electrical problem:                 *)
(* solve_electrical of plugins/newton/newton.c, the ring of the last       *)
(* errors and its "clever exit" (libnewtontricks/newton_state.c), the      *)
(* cache of solved matrices on disk (matrix_solve of libmemory/matrix.c)   *)
(* and the single slot in which the solver's settings are put aside        *)
(* (newton_push_state, newton_pop_state).                                  *)
(*                                                                         *)
(* What the matrix holds is the subject of NewtonMatrix and Fluxes.  Here  *)
(* a device is what repeated solving makes of it: a state, the state that  *)
(* one solution of the matrix turns it into at a voltage, and the error    *)
(* get_cur_error reports at that point.  The matrix is determined by the   *)
(* voltage and the state, so the pair is the name the cache gives it.      *)
(***************************************************************************)
EXTENDS Integers, FiniteSets, Sequences

CONSTANTS
    Problems,       \* the devices and settings to be run
    Steps,          \* errors remembered: ten in the code
    Clever,         \* clever_exit_error, 1e-5 in the code
    Badly,          \* the error above which the log warns, 1e-3 in the code
    Dark            \* stands for the voltage while the equilibrium is sought

NoFile == <<>>

VARIABLES
    prob,             \* the device and its configuration; never changes
    in,               \* the fields of struct device the loop uses
    math_save_state,  \* where newton_push_state keeps the settings
    V,                \* voltage of the active contact
    ns,               \* the newton state: solution, errors, counters
    ittr, error,      \* locals of solve_electrical
    cache_file_path,  \* mx->cache_file_path
    disk,             \* the files of the cache: name of a matrix to state
    pc                \* "idle" in the caller, "loop", "after", "exit"

loop == <<prob, in, math_save_state, V, ns, ittr, error, cache_file_path,
          disk, pc>>

Positions == 0 .. Steps - 1

Matrix == <<V, ns.s>>
Error  == prob.err[Matrix]
Solved == prob.step[Matrix]

(***************************************************************************)
(* newton_state_reset_error and newton_state_set_last_error.               *)
(***************************************************************************)
ResetError(n) ==
    [n EXCEPT !.last_ittr = 0, !.last_error = 0, !.last_error_pos = 0,
              !.last_errors = [i \in Positions |-> 0]]

SetLastError(n, e) ==
    [n EXCEPT !.last_error = e,
              !.last_errors[n.last_error_pos] = e,
              !.last_error_pos = (@ + 1) % Steps]

(***************************************************************************)
(* newton_state_clever_exit.  The errors are read from the oldest to the   *)
(* newest; once one has been below the threshold, the first that is above  *)
(* the one before it ends the loop.  Before the oldest there is nothing,   *)
(* which the code reads as an error of zero.                               *)
(***************************************************************************)
Ordered(n)    == [i \in Positions |-> n.last_errors[(n.last_error_pos + i) % Steps]]
Previous(o, i) == IF i = 0 THEN 0 ELSE o[i - 1]

Rises(n) ==
    LET o == Ordered(n) IN
    {i \in Positions : /\ \E j \in 0 .. i : o[j] < Clever
                       /\ Previous(o, i) < o[i]}

CleverExit(n) == n.last_ittr >= Steps /\ Rises(n) # {}

BeforeRise(n) ==
    Previous(Ordered(n), CHOOSE i \in Rises(n) : \A j \in Rises(n) : i <= j)

(***************************************************************************)
(* A device fresh from device_init, with the settings of its configuration *)
(***************************************************************************)
Settings(f) == [min_cur_error       |-> f.min_cur_error,
                max_electrical_itt  |-> f.max_electrical_itt,
                newton_min_itt      |-> f.newton_min_itt,
                electrical_clamp    |-> f.electrical_clamp,
                newton_clever_exit  |-> f.newton_clever_exit]

\* newton_pop_state, and the code that puts its own in place of some of them.
Replace(f, s) == [x \in DOMAIN f |-> IF x \in DOMAIN s THEN s[x] ELSE f[x]]

LoopInit ==
    /\ prob \in Problems
    /\ in = [min_cur_error       |-> prob.math.min_cur_error,
             max_electrical_itt  |-> prob.math.max_electrical_itt,
             newton_min_itt      |-> prob.math.newton_min_itt,
             electrical_clamp    |-> prob.math.electrical_clamp,
             newton_clever_exit  |-> prob.math.newton_clever_exit,
             stop |-> FALSE, dd_conv |-> FALSE, newton_last_ittr |-> -1,
             Nion_enabled |-> prob.ions, full_newton |-> FALSE]
    /\ math_save_state = Settings(prob.math)
    /\ V = 0
    /\ ns = ResetError([s |-> prob.first, last_ittr |-> 0, last_error |-> 0,
                        last_error_pos |-> 0, last_errors |-> <<>>])
    /\ ittr = 0
    /\ error = 0
    /\ cache_file_path = NoFile
    /\ disk = <<>>
    /\ pc = "idle"

(***************************************************************************)
(* dllinternal_solve_cur, called with the voltage v and the settings i in  *)
(* force.  With mobile ions that are not part of the matrix it does not    *)
(* solve at all.                                                           *)
(***************************************************************************)
SolveCur(v, i) ==
    /\ pc = "idle"
    /\ V' = v
    /\ IF i.Nion_enabled /\ ~i.full_newton
         THEN in' = i /\ UNCHANGED <<ns, ittr, error, pc>>
         ELSE /\ in' = [i EXCEPT !.dd_conv = FALSE]
              /\ ns' = ResetError(ns)
              /\ ittr' = 0
              /\ error' = 0
              /\ pc' = "loop"
    /\ UNCHANGED <<prob, cache_file_path, disk>>

(***************************************************************************)
(* One pass of the loop, by the three ways through it.  The fourth, a      *)
(* break when in->stop is TRUE before the matrix is solved, is never taken *)
(* by this program: only the sweep sets the flag, where it stops solving.  *)
(***************************************************************************)
\* matrix_solve finds the matrix on disk: the state is loaded and
\* solve_electrical returns at once.  use_cache is the configuration's word from the
\* start: sim_run reads it when the device is made, sim_jv reads the same entry again.
FoundInCache ==
    /\ pc = "loop"
    /\ prob.use_cache
    /\ Matrix \in DOMAIN disk
    /\ cache_file_path' = Matrix
    /\ ns' = [ns EXCEPT !.s = disk[Matrix]]
    /\ pc' = "idle"
    /\ UNCHANGED <<prob, in, math_save_state, V, ittr, error, disk>>

\* The name is made anew in every pass: matrix_cache_reset and matrix_init set
\* mx->ittr to nought and nothing counts it up.
Name_Kept == IF prob.use_cache /\ cache_file_path = NoFile THEN Matrix
             ELSE cache_file_path
Name == IF prob.use_cache THEN Matrix ELSE cache_file_path

\* matrix_solve has solved, and named the matrix if the cache is in use.
MatrixSolved ==
    /\ pc = "loop"
    /\ ~(prob.use_cache /\ Matrix \in DOMAIN disk)
    /\ cache_file_path' = Name
    /\ error' = Error
    /\ UNCHANGED <<prob, math_save_state, V, disk>>

NoBetter ==
    LET n == SetLastError(ns, Error) IN
    /\ MatrixSolved
    /\ in.newton_clever_exit
    /\ CleverExit(n)
    /\ ns' = [n EXCEPT !.last_error = BeforeRise(n)]
    /\ pc' = "after"
    /\ UNCHANGED <<in, ittr>>

More(i, e) == \/ i < in.max_electrical_itt /\ e > in.min_cur_error
              \/ i < in.newton_min_itt

Iterate_NotCounted ==
    LET n == SetLastError(ns, Error) IN
    /\ MatrixSolved
    /\ ~(in.newton_clever_exit /\ CleverExit(n))
    /\ ns' = [n EXCEPT !.s = Solved, !.last_ittr = ittr]
    /\ UNCHANGED ittr
    /\ in' = in
    /\ pc' = IF More(ittr + 1, Error) THEN "loop" ELSE "after"

Iterate ==
    LET n == SetLastError(ns, Error) IN
    /\ MatrixSolved
    /\ ~(in.newton_clever_exit /\ CleverExit(n))
    /\ ns' = [n EXCEPT !.s = Solved, !.last_ittr = ittr]
    /\ ittr' = ittr + 1
    /\ in' = IF ittr + 1 = 2 /\ Error < in.min_cur_error
               THEN [in EXCEPT !.dd_conv = TRUE]
               ELSE in
    /\ pc' = IF More(ittr + 1, Error) THEN "loop" ELSE "after"

\* After the loop: a bad error may end the program, else the state is
\* saved under the last name the matrix was given.
AfterLoop ==
    /\ pc = "after"
    /\ in' = [in EXCEPT !.newton_last_ittr = ittr]
    /\ IF error > Badly /\ prob.stop_on_problem
         THEN pc' = "exit" /\ UNCHANGED disk
         ELSE /\ pc' = "idle"
              /\ disk' = IF prob.use_cache /\ cache_file_path # NoFile
                           THEN [m \in DOMAIN disk \cup {cache_file_path} |->
                                   IF m = cache_file_path THEN ns.s ELSE disk[m]]
                           ELSE disk
    /\ UNCHANGED <<prob, math_save_state, V, ns, ittr, error, cache_file_path>>

SolveElectrical ==
    FoundInCache \/ NoBetter \/ Iterate \/ AfterLoop
=============================================================================
