------------------------------ MODULE MCProgram ------------------------------
(***************************************************************************)
(* gpvdm_core as one thread, for TLC: it loads a configuration (Json),     *)
(* runs a sweep (JV), fits (MCFit), or reckons with what it has measured   *)
(* (Rpn).  A behaviour does one of them; the variables of the others are   *)
(* as if theirs were over.                                                 *)
(***************************************************************************)
EXTENDS JV, MCFit, MCMeasure, MCLoad, TLC

CONSTANT Parts

VARIABLE part

NoSweep ==
    /\ pc = "exit" /\ at = "none" /\ prob = <<>> /\ in = <<>>
    /\ math_save_state = <<>> /\ V = 0 /\ ns = <<>> /\ ittr = 0 /\ error = 0
    /\ cache_file_path = <<>> /\ disk = <<>> /\ jv = <<>>
    /\ power_den = <<>> /\ R_list = <<>> /\ out = <<>>

MCInit ==
    /\ part \in Parts
    /\ IF part = "sweep" THEN JVInit ELSE NoSweep
    /\ IF part = "fit" THEN Fitting!Init ELSE NoFit
    /\ IF part = "measure" THEN Measure!Init ELSE NoMeasure
    /\ IF part = "load" THEN File!Init ELSE NoLoad

MCNext ==
    \/ part = "sweep" /\ Next /\ UNCHANGED <<part, fitvars, measurevars, filevars>>
    \/ part = "fit" /\ Fitting!Next /\ UNCHANGED <<part, vars, measurevars, filevars>>
    \/ part = "measure" /\ Measure!Next /\ UNCHANGED <<part, vars, fitvars, filevars>>
    \/ part = "load" /\ File!Next /\ UNCHANGED <<part, vars, fitvars, measurevars>>
mcvars == <<part, vars, fitvars, measurevars, filevars>>

\* one thread that waits for nothing
MCSpec == MCInit /\ [][MCNext]_mcvars /\ WF_mcvars(MCNext)

-----------------------------------------------------------------------------
(***************************************************************************)
(* Small devices for JV.  A state is the potential the solution has got    *)
(* to, solving once moves it by two at most towards the voltage, and the   *)
(* current grows with it, but never flows forward at a reverse voltage.    *)
(* Some devices never get rid of their error.                              *)
(***************************************************************************)

States == -1 .. 3
Volts  == -1 .. 3

Target(v) == IF v = Dark THEN 0 ELSE v

Move(v, s) == IF Abs(Target(v) - s) <= 2 THEN Target(v)
              ELSE s + 2 * Toward(s, Target(v))

\* Once at the solution the noisy device leaves it and comes back.
Bounce(v, s) == IF s # Target(v) THEN Move(v, s)
                ELSE IF s = 3 THEN 2 ELSE s + 1

Pairs == (Volts \cup {Dark}) \X States

Clean == [step |-> [m \in Pairs |-> Move(m[1], m[2])],
          err  |-> [m \in Pairs |-> Abs(Target(m[1]) - m[2])]]
Noisy == [step |-> [m \in Pairs |-> Bounce(m[1], m[2])],
          err  |-> [m \in Pairs |-> 1 + Abs(Target(m[1]) - m[2])]]
Wild  == [step |-> [m \in Pairs |-> Bounce(m[1], m[2])],
          err  |-> [m \in Pairs |-> 9]]

Math == [min_cur_error |-> 0, max_electrical_itt |-> 5, newton_min_itt |-> 1,
         electrical_clamp |-> 2, newton_clever_exit |-> FALSE,
         max_electrical_itt0 |-> 2, electrical_error0 |-> 1, electrical_clamp0 |-> 3]
Autoramp == [min_cur_error |-> 1, max_electrical_itt |-> 3, newton_min_itt |-> 2,
             electrical_clamp |-> 1]

Sweep == [Vstart |-> 0, Vstop |-> 2, Vstep |-> 1, jv_step_mul |-> 1,
          jv_max_j |-> 9, jv_single_point |-> FALSE,
          jv_use_external_voltage_as_stop |-> FALSE]

Base == [states |-> States, voltages |-> Volts, volts |-> {0, 2}, first |-> 0,
         J |-> [m \in (Volts \cup {Dark}) \X States |->
                  IF Target(m[1]) < 0 /\ m[2] = 3 THEN 0 ELSE m[2] - 2],
         Rcontact |-> 0, sun |-> TRUE, dump_sim_info |-> TRUE, wide |-> FALSE,
         ions |-> FALSE, use_cache |-> FALSE, stop_on_problem |-> FALSE,
         math |-> Math, autoramp |-> Autoramp, sweep |-> Sweep]

Kinds == {Clean, Noisy, Wild}

Cleverly(m) == [m EXCEPT !.newton_clever_exit = TRUE]

Sweeps == {Sweep,
           [Sweep EXCEPT !.Vstart = -1, !.Vstop = 3],
           [Sweep EXCEPT !.Vstart = 2, !.Vstop = -1, !.jv_step_mul = 2],
           [Sweep EXCEPT !.Vstop = 3, !.jv_step_mul = 2],
           [Sweep EXCEPT !.jv_single_point = TRUE],
           [Sweep EXCEPT !.Vstop = 3, !.jv_max_j = 0,
                         !.jv_use_external_voltage_as_stop = TRUE]}

\* Mobile ions, more than one slice, a resistor at the contact, and a
\* program that is ended by a solution that has not converged.
Devices == {[ions |-> FALSE, wide |-> FALSE, Rcontact |-> 0, stop_on_problem |-> FALSE],
            [ions |-> TRUE,  wide |-> FALSE, Rcontact |-> 1, stop_on_problem |-> FALSE],
            [ions |-> FALSE, wide |-> TRUE,  Rcontact |-> 1, stop_on_problem |-> TRUE],
            [ions |-> TRUE,  wide |-> TRUE,  Rcontact |-> 0, stop_on_problem |-> FALSE]}

MCProblems ==
    {k @@ d @@ [Base EXCEPT !.sweep = w, !.use_cache = c, !.math = m] :
       k \in Kinds, d \in Devices, w \in Sweeps, c \in BOOLEAN,
       m \in {Math, Cleverly(Math)}}

\* The proof that one point is reported as a whole needs devices like these.
ASSUME MCForwardOnly == \A p \in Problems : ForwardOnly(p)

-----------------------------------------------------------------------------
\* Configurations of up to two members, some of them objects of up to three, and one of
\* each kind that json_decode cuts short.
Values == {<<>>, <<"1">>, <<"word", ",", " ", "}">>, <<"{", "word", " ">>}
Leaves == {File!Member(<<"a">>, v) : v \in Values}
Inner == {File!Node(<<"b">>, m) : m \in Leaves}
Deep == {File!Node(<<"c">>, m \o k) : m \in Leaves, k \in Inner}
Wide == File!Member(<<"a">>, <<"1">>) \o File!Member(<<"b">>, <<"word">>) \o File!Member(<<"a">>, <<>>)
MCSaved ==
    LET one == Leaves \cup Inner \cup Deep IN
    one \cup {m \o k : m \in one, k \in Leaves \cup Inner}
      \cup {Wide, File!Node(<<"d">>, Wide), Wide \o Wide,
            File!Node(<<"d">>, Wide \o Wide) \o File!Member(<<"a">>, <<"1">>)}
=============================================================================
