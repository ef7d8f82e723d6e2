------------------------------- MODULE MCLoad -------------------------------
(***************************************************************************)
(* Json beside the other things the program does (MCProgram).              *)
(***************************************************************************)
EXTENDS Integers

CONSTANTS Saved, Numbers, MaxMembers

VARIABLES config, text, pos, level, token, objs, act

File == INSTANCE Json

ASSUME MCLoadAssumption == File!JsonAssumption

filevars == <<config, text, pos, level, token, objs, act>>

NoLoad ==
    /\ config = <<>> /\ text = <<>> /\ pos = 0 /\ level = 0 /\ token = <<>> /\ objs = <<>> /\ act = "none"

\* The property of Json.
SavedIsLoaded == act # "none" => File!SavedIsLoaded
=============================================================================
