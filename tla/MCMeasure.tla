------------------------------ MODULE MCMeasure ------------------------------
(***************************************************************************)
(* Rpn beside the other things the program does (MCProgram), under names   *)
(* that differ from theirs.                                                *)
(***************************************************************************)
EXTENDS Integers

CONSTANTS Used, Depth

VARIABLES tree, symbols, output, stack, symbol_i, phase

Measure == INSTANCE Rpn WITH i <- symbol_i

ASSUME MCMeasureAssumption == Measure!RpnAssumption

measurevars == <<tree, symbols, output, stack, symbol_i, phase>>

NoMeasure ==
    /\ tree = <<>> /\ symbols = <<>> /\ output = <<>> /\ stack = <<tree>>
    /\ symbol_i = 0 /\ phase = "returned"

\* The property of Rpn.
EvaluatesAsWritten == Measure!EvaluatesAsWritten
=============================================================================
