-------------------------------- MODULE MCFit --------------------------------
(***************************************************************************)
(* Fit beside the other things the program does (MCProgram), under names   *)
(* that differ from theirs, with the fits that TLC tries.                  *)
(***************************************************************************)
EXTENDS Integers

CONSTANTS Configs, Dims, Errors, StopError, NoError

VARIABLES
    fitconfig, ndim, y, i_hi0, i_hi1, i_lo, ytry, ytry_reflect, last_error,
    steps_that_dont_reduce_error, sub_iterations, fit_status, tried, least,
    fit_pc, fit_error

Fitting == INSTANCE Fit WITH pc <- fit_pc, error <- fit_error

ASSUME MCFitAssumption == Fitting!FitAssumption

fitvars ==
    <<fitconfig, ndim, y, i_hi0, i_hi1, i_lo, ytry, ytry_reflect, fit_error, last_error,
      steps_that_dont_reduce_error, sub_iterations, fit_status, tried, least, fit_pc>>

NoFit ==
    /\ fit_pc = "finished" /\ fitconfig = <<>> /\ ndim = 0 /\ y = <<>>
    /\ i_hi0 = 0 /\ i_hi1 = 0 /\ i_lo = 0 /\ ytry = 0 /\ ytry_reflect = 0
    /\ fit_error = 0 /\ last_error = 0 /\ steps_that_dont_reduce_error = 0
    /\ sub_iterations = 0 /\ fit_status = "" /\ tried = <<>> /\ least = 0

\* The properties of Fit.
NothingForgotten == Fitting!NothingForgotten
StuckIsReset == Fitting!StuckIsReset
ConvergedEndsFit == Fitting!ConvergedEndsFit

-----------------------------------------------------------------------------
\* Errors 0 .. 2, of which 0 is below stop_error; 1 is good enough for some fits, and
\* near enough to the minimum for some to be given up rather than reset.
Resets == {r \in [simple : BOOLEAN, random : BOOLEAN] : ~(r.simple /\ r.random)}
Plain  == [fit_method |-> "simplex", stall_steps |-> 1, simplexreset |-> 1,
           disable_reset_at |-> 0, converge_error |-> 1, enable_simple_reset |-> FALSE,
           randomize |-> FALSE, crashes |-> FALSE]

MCConfigs ==
    {[Plain EXCEPT !.disable_reset_at = d, !.converge_error = c,
                   !.enable_simple_reset = r.simple, !.randomize = r.random] :
        d \in {0, 1}, c \in {1, 2}, r \in Resets}
    \cup {[Plain EXCEPT !.crashes = TRUE], [Plain EXCEPT !.fit_method = "newton"],
          [Plain EXCEPT !.fit_method = "bfgs", !.converge_error = 2]}
=============================================================================
