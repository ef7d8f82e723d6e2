--------------------------------- MODULE Fit ---------------------------------
(***************************************************************************)
(* Fitting a device to measurements: fit_now and fit_simplex (libfit), and *)
(* simplex_iterate with its moves (libsimplex).                            *)
(*                                                                         *)
(* Of a corner of the simplex only the error there is kept: the error may  *)
(* be any function of the point.  The same simplex gives the same trial    *)
(* points, and these the same errors; tried remembers them.  n_max, 1e9,   *)
(* is never reached.  Counters stop one past the limit they are compared   *)
(* with.                                                                   *)
(*                                                                         *)
(* A definition X_Other just before X is X with a mistake in it, used to   *)
(* see that the properties notice it; nothing else refers to it.           *)
(***************************************************************************)
EXTENDS Integers, FiniteSets

CONSTANTS
  Configs,     \* the settings of a fit
  Dims,        \* how many parameters are fitted
  Errors,      \* errors of a point
  StopError,   \* data.stop_error, 1e-9
  NoError      \* not evaluated

\* an error is a number, and there is something to fit
FitAssumption == Errors \subseteq Int /\ Dims \subseteq Nat \ {0}

VARIABLES
  fitconfig, ndim,
  y,                       \* the error at each corner
  i_hi0, i_hi1, i_lo,      \* the worst, the next, the best
  ytry, ytry_reflect,
  error, last_error,
  steps_that_dont_reduce_error, sub_iterations,
  fit_status,
  tried,                   \* errors of this simplex's trial points
  least,                   \* the least error computed from this simplex on (history)
  pc

corners == <<i_hi0, i_hi1, i_lo>>
counts == <<steps_that_dont_reduce_error, sub_iterations>>
judged == <<error, last_error, fit_status, counts>>
vars == <<fitconfig, ndim, y, corners, ytry, ytry_reflect, judged, tried, least, pc>>

Untried == [reflect |-> NoError, contract |-> NoError]
Least(S) == CHOOSE e \in S : \A f \in S : e <= f
Up(n, limit) == IF n > limit THEN n ELSE n + 1

Init ==
  /\ fitconfig \in Configs
  /\ ndim \in Dims /\ y = [s \in 0 .. ndim |-> 0]
  /\ i_hi0 = 0 /\ i_hi1 = 0 /\ i_lo = 0
  /\ ytry = 0 /\ ytry_reflect = 0 /\ error = 0 /\ last_error = 0
  /\ steps_that_dont_reduce_error = 0 /\ sub_iterations = 0
  /\ fit_status = "FIT_RUN" /\ tried = Untried /\ least = 0
  /\ pc = "fit_now"

\* fit_newton reports success without doing anything
FitNewton ==
  /\ pc = "fit_now" /\ fitconfig.fit_method = "newton"
  /\ fit_status' = "FIT_FINISH" /\ pc' = "returned"
  /\ UNCHANGED <<fitconfig, ndim, y, corners, ytry, ytry_reflect, error, last_error, counts,
                 tried, least>>

\* fit_simplex up to its loop: a new simplex around what sim.json holds
FitSimplex ==
  /\ pc = "fit_now" /\ fitconfig.fit_method # "newton"
  /\ y' \in [0 .. ndim -> Errors]
  /\ least' = Least({y'[s] : s \in 0 .. ndim})
  /\ error' = 0 /\ last_error' = 0 /\ fit_status' = "FIT_RUN"
  /\ steps_that_dont_reduce_error' = 0 /\ sub_iterations' = 0
  /\ tried' = Untried /\ pc' = "reflect"
  /\ UNCHANGED <<fitconfig, ndim, corners, ytry, ytry_reflect>>

-----------------------------------------------------------------------------
(* simplex_iterate *)

\* multimin_find_best: the bubble sort leaves equal corners in order
Place(f, s) == Cardinality({t \in 0 .. ndim : f[t] > f[s] \/ (f[t] = f[s] /\ t < s)})
At(f, k) == CHOOSE s \in 0 .. ndim : Place(f, s) = k

Reflect ==
  /\ pc = "reflect"
  /\ i_hi0' = At(y, 0) /\ i_hi1' = At(y, 1) /\ i_lo' = At(y, ndim)
  /\ ytry' \in (IF tried.reflect = NoError THEN Errors ELSE {tried.reflect})
  /\ tried' = [tried EXCEPT !.reflect = ytry']
  /\ least' = Least({least, ytry'})
  /\ pc' = "move"
  /\ UNCHANGED <<fitconfig, ndim, y, ytry_reflect, judged>>

\* multimin_sync, which makes another simplex of it
Sync(s, e) == y' = [y EXCEPT ![s] = e] /\ tried' = Untried

Accept ==
  /\ pc = "move" /\ ytry < y[i_hi1] /\ ytry > y[i_lo]
  /\ Sync(i_hi0, ytry)
  /\ pc' = "answer"
  /\ UNCHANGED <<fitconfig, ndim, corners, ytry, ytry_reflect, judged, least>>

Better ==
  /\ pc = "move" /\ ytry < y[i_lo]
  /\ Sync(i_hi0, ytry)
  /\ ytry_reflect' = ytry /\ pc' = "expand"
  /\ UNCHANGED <<fitconfig, ndim, corners, ytry, judged, least>>

Expanded_Always(e) == Sync(i_hi0, e)
Expanded(e) == IF e < ytry_reflect THEN Sync(i_hi0, e) ELSE UNCHANGED <<y, tried>>

Expand ==
  /\ pc = "expand"
  /\ ytry' \in Errors
  /\ Expanded(ytry')
  /\ least' = Least({least, ytry'}) /\ pc' = "answer"
  /\ UNCHANGED <<fitconfig, ndim, corners, ytry_reflect, judged>>

\* a contraction that is no better leaves the simplex as it was
Contract ==
  /\ pc = "move" /\ ytry >= y[i_hi1]
  /\ ytry' \in (IF tried.contract = NoError THEN Errors ELSE {tried.contract})
  /\ IF ytry' < y[i_hi0] THEN Sync(i_hi0, ytry')
     ELSE y' = y /\ tried' = [tried EXCEPT !.contract = ytry']
  /\ least' = Least({least, ytry'}) /\ pc' = "answer"
  /\ UNCHANGED <<fitconfig, ndim, corners, ytry_reflect, judged>>

\* what is left: the reflected point is exactly as good as the best
Shrink ==
  /\ pc = "move" /\ ytry = y[i_lo] /\ ytry < y[i_hi1]
  /\ y' \in {f \in [0 .. ndim -> Errors] : f[i_lo] = y[i_lo]}
  /\ tried' = Untried
  /\ least' = Least({least} \cup {y'[s] : s \in 0 .. ndim}) /\ pc' = "answer"
  /\ UNCHANGED <<fitconfig, ndim, corners, ytry, ytry_reflect, judged>>

\* simplex_copy_ans (the trial errors are not read again), and what is returned: SIMPLEX_CONVERGED ends the loop with
\* the status it has
Answer ==
  /\ pc = "answer"
  /\ i_hi0' = At(y, 0) /\ i_hi1' = At(y, 1) /\ i_lo' = At(y, ndim)
  /\ error' = y[i_lo']
  /\ ytry' = 0 /\ ytry_reflect' = 0
  /\ pc' = IF error' < StopError THEN "returned" ELSE "judge"
  /\ UNCHANGED <<fitconfig, ndim, y, last_error, fit_status, counts, tried, least>>

-----------------------------------------------------------------------------
(* The rest of the loop of fit_simplex *)

Stalled == steps_that_dont_reduce_error > fitconfig.stall_steps

\* stall detection looks at the plain simplex only
Watched == fitconfig.fit_method = "simplex"
Far == error > fitconfig.disable_reset_at

\* a data set whose log reports a crash, or a stall near the minimum
Abandon ==
  /\ pc = "judge"
  /\ fitconfig.crashes \/ (Watched /\ ~Far /\ Stalled)
  /\ fit_status' = "FIT_RESET" /\ pc' = "returned"
  /\ UNCHANGED <<fitconfig, ndim, y, corners, ytry, ytry_reflect, error, last_error, counts, tried, least>>

Reset ==
  Watched /\ Far /\ \/ fitconfig.enable_simple_reset /\ sub_iterations > fitconfig.simplexreset
                    \/ Stalled /\ fitconfig.randomize

NoGain_Strict == last_error < error
NoGain == last_error <= error

Judge ==
  /\ pc = "judge" /\ ~(Watched /\ ~Far /\ Stalled)
  /\ steps_that_dont_reduce_error' =
       IF NoGain THEN Up(steps_that_dont_reduce_error, fitconfig.stall_steps) ELSE 0
  /\ last_error' = error
  /\ sub_iterations' = Up(sub_iterations, fitconfig.simplexreset)
  /\ fit_status' = IF fitconfig.converge_error > error THEN "FIT_FINISH"
                   ELSE IF Reset THEN "FIT_RESET" ELSE fit_status
  /\ pc' = IF fit_status' = "FIT_RUN" THEN "reflect" ELSE "returned"
  /\ UNCHANGED <<fitconfig, ndim, y, corners, ytry, ytry_reflect, error, tried, least>>

\* fit_now goes on until FIT_FINISH
Return ==
  /\ pc = "returned"
  /\ pc' = IF fit_status = "FIT_FINISH" THEN "finished" ELSE "fit_now"
  /\ UNCHANGED <<fitconfig, ndim, y, corners, ytry, ytry_reflect, judged, tried, least>>

Next ==
  \/ FitNewton \/ FitSimplex
  \/ Reflect \/ Accept \/ Better \/ Expand \/ Contract \/ Shrink \/ Answer
  \/ Abandon \/ Judge \/ Return

Spec == Init /\ [][Next]_vars
FairSpec == Spec /\ WF_vars(Next)

-----------------------------------------------------------------------------

\* What simplex_copy_ans reports is the least error computed since the simplex was
\* set up: no reflection, expansion, contraction or shrinking throws a better point
\* away, although the ranking of the corners is out of date after the first sync.
NothingForgotten == pc \in {"judge", "returned"} => error = least

\* A simplex that has got stuck is given up: with a reset switched on, every call of
\* fit_simplex returns, also when a contraction that fails repeats itself for ever.
ResetOn == Watched /\ (fitconfig.enable_simple_reset \/ fitconfig.randomize)
StuckIsReset == (pc = "fit_now" /\ ResetOn) ~> pc = "returned"

\* fit_simplex.c:110, "converged to minimum at", sets FIT_FINISH when the error is
\* below converge_error: a simplex that has converged ends the fit.
Converged == pc = "returned" /\ error < StopError /\ error < fitconfig.converge_error
ConvergedEndsFit == Converged ~> pc = "finished"
=============================================================================
