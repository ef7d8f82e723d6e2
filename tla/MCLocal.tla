-------------------------------- MODULE MCLocal --------------------------------
(***************************************************************************)
(* The GUI's two runners of processes on this machine, for TLC: simple_run *)
(* (LocalServer) and the main window's server (JobServer), over the same   *)
(* table.  A behaviour shows one of them.                                  *)
(***************************************************************************)
EXTENDS LocalServer

CONSTANTS Slots, MaxAdds

VARIABLES part, finished_jobs, timer, shown, signals, added, told, mixed, raised, lost

Window == INSTANCE JobServer

runnervars == <<locks, pc, ls, n, batch, ended, gaveUp>>
windowvars == <<finished_jobs, timer, shown, signals, added, told, mixed, raised, lost>>
mcvars == <<part, vars, windowvars>>

MCInit ==
    /\ part \in {"runner", "window"}
    /\ Init
    /\ Window!Init

RunnerNext == part = "runner" /\ Next /\ UNCHANGED <<part, windowvars>>
WindowNext == part = "window" /\ Window!Next /\ UNCHANGED <<part, runnervars>>
\* everything has been submitted and has ended
WindowDone == part = "window" /\ procs = {} /\ signals = {} /\ (~timer \/ lost) /\ UNCHANGED mcvars
MCNext == RunnerNext \/ WindowNext \/ WindowDone

OfWindow(A) == part = "window" /\ A /\ UNCHANGED <<part, runnervars>>

\* simple_run keeps running, though processes may hang or be killed; the window's timer
\* and callbacks run and its processes end.
MCSpec ==
    /\ MCInit /\ [][MCNext]_mcvars
    /\ WF_mcvars(part = "runner" /\ Server /\ UNCHANGED <<part, windowvars>>)
    /\ WF_mcvars(OfWindow(Window!Tick))
    /\ \A p \in Window!Processes :
          /\ WF_mcvars(OfWindow(Window!Hear(p)))
          /\ WF_mcvars(OfWindow(Window!Report(p) \/ (p \in told /\ Window!Exit(p))))

InRunner(P) == part = "runner" => P
InWindow(P) == part = "window" => P

AtMostCpus == InRunner(CpuBound) /\ InWindow(Window!CpuBound)
CalledFinishedHasEnded == InRunner(FinishedHasEnded) /\ InWindow(Window!FinishedHasEnded)
RaisesOnlyWhenLate == InRunner(RaisesOnlyLate) /\ InWindow(Window!RaisesOnlyLate)
BothEnd == RunEnds /\ Window!RunEnds
=============================================================================
