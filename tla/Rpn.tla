--------------------------------- MODULE Rpn ---------------------------------
(***************************************************************************)
(* The expressions a user may apply to what was measured (libmeasure):     *)
(* rpn_evaluate of librpn turns them into reverse Polish order on a stack  *)
(* of operators and evaluates that on the same stack.                      *)
(*                                                                         *)
(* An expression comes as its symbols; cutting the text into symbols is    *)
(* left out.  A value is the tree of the operations that give it, so that  *)
(* two results are equal when they are computed alike.  Every operator has *)
(* its operands: a sign is not an operator the code knows.                 *)
(*                                                                         *)
(* A definition X_Other just before X is X with a mistake in it, used to   *)
(* see that the properties notice it; nothing else refers to it.           *)
(***************************************************************************)
EXTENDS Integers, Sequences, SequencesExt

CONSTANTS
  Used,   \* the symbols the expressions are made of, with parentheses
  Depth   \* operations inside one another

VARIABLES
  tree, symbols,  \* the expression, and how it was written
  output, stack,
  i,              \* the symbol read next
  phase

vars == <<tree, symbols, output, stack, i, phase>>

Opps == {"^", "*", "/", "+", "-", ">", "<"}
Functions == {"sin", "abs", "pos", "log"}
opp_pr(o) == CASE o = "^" -> 4 [] o \in {"+", "-"} -> 2 [] OTHER -> 3
IsRight(o) == o = "^"
Operands == {"x", "number"}
Symbols == Opps \cup Functions \cup Operands \cup {"(", ")"}

RpnAssumption == Used \subseteq Opps \cup Functions \cup Operands /\ Depth \in Nat

-----------------------------------------------------------------------------
(* The ways to write a tree.  pr is the precedence of the operator that    *)
(* holds what is written together.                                         *)

Atom == 5
Expression(t, written, pr) == [tree |-> t, symbols |-> written, pr |-> pr]

Words == {Expression(<<s>>, <<s>>, Atom) : s \in Used \cap Operands}
Enclosed(e) == Expression(e.tree, <<"(">> \o e.symbols \o <<")">>, Atom)
Call(f, e) == Expression(<<f, e.tree>>, <<f>> \o Enclosed(e).symbols, Atom)
Binary(o, l, r) ==
  Expression(<<o, l.tree, r.tree>>, l.symbols \o <<o>> \o r.symbols, opp_pr(o))

\* operands of o: in parentheses where it is weaker than o, and there or not elsewhere
Sides(S, o, right) ==
  {e \in S \cup {Enclosed(e) : e \in S \ Words} :
     e.pr > opp_pr(o) \/ (e.pr = opp_pr(o) /\ right = IsRight(o))}
Calls(f, S) == {Call(f, e) : e \in S}
Binaries(o, S) == {Binary(o, p[1], p[2]) : p \in Sides(S, o, FALSE) \X Sides(S, o, TRUE)}
Deeper(S) == S \cup (UNION {Calls(f, S) : f \in Used \cap Functions})
               \cup (UNION {Binaries(o, S) : o \in Used \cap Opps})
Expressions[n \in 0 .. Depth] == IF n = 0 THEN Words ELSE Deeper(Expressions[n - 1])

Init ==
  /\ \E e \in Expressions[Depth] : tree = e.tree /\ symbols = e.symbols
  /\ output = <<>> /\ stack = <<>> /\ i = 1 /\ phase = "read"

-----------------------------------------------------------------------------

\* the operators a new one takes off the stack
Binds_Left(o, top) == opp_pr(o) <= opp_pr(top)
Binds(o, top) == IF IsRight(o) THEN opp_pr(o) < opp_pr(top) ELSE opp_pr(o) <= opp_pr(top)

\* how many symbols of s from the top on are in S
Run(s, S) ==
  CHOOSE n \in 0 .. Len(s) :
    /\ \A k \in 0 .. n - 1 : s[Len(s) - k] \in S
    /\ n < Len(s) => s[Len(s) - n] \notin S
Popped(s, n) == SubSeq(s, 1, Len(s) - n)
Moved(s, n) == Reverse(SubSeq(s, Len(s) - n + 1, Len(s)))

Reading(S) == phase = "read" /\ i <= Len(symbols) /\ symbols[i] \in S /\ i' = i + 1

ReadOperand ==
  /\ Reading(Operands)
  /\ output' = Append(output, symbols[i])
  /\ UNCHANGED <<tree, symbols, stack, phase>>

Open ==
  /\ Reading(Functions \cup {"("})
  /\ stack' = Append(stack, symbols[i])
  /\ UNCHANGED <<tree, symbols, output, phase>>

ReadOperator ==
  /\ Reading(Opps)
  /\ LET n == Run(stack, {s \in Opps : Binds(symbols[i], s)})
     IN output' = output \o Moved(stack, n) /\ stack' = Append(Popped(stack, n), symbols[i])
  /\ UNCHANGED <<tree, symbols, phase>>

\* a function before the parenthesis goes with it
Close ==
  /\ Reading({")"})
  /\ LET n == Run(stack, Symbols \ {"("})
         rest == Popped(stack, n + 1)
         moved == output \o Moved(stack, n)
     IN IF rest # <<>> /\ Last(rest) \in Functions
        THEN output' = Append(moved, Last(rest)) /\ stack' = Front(rest)
        ELSE output' = moved /\ stack' = rest
  /\ UNCHANGED <<tree, symbols, phase>>

Flush ==
  /\ phase = "read" /\ i > Len(symbols)
  /\ output' = output \o Moved(stack, Len(stack)) /\ stack' = <<>>
  /\ i' = 1 /\ phase' = "evaluate"
  /\ UNCHANGED <<tree, symbols>>

\* evaluate: the right operand is on top
Evaluate ==
  /\ phase = "evaluate" /\ i <= Len(output)
  /\ i' = i + 1
  /\ LET token == output[i]  top == Len(stack) IN
     stack' = CASE token \in Operands -> Append(stack, <<token>>)
                [] token \in Opps -> Append(Popped(stack, 2), <<token, stack[top - 1], stack[top]>>)
                [] token \in Functions -> Append(Popped(stack, 1), <<token, stack[top]>>)
  /\ UNCHANGED <<tree, symbols, output, phase>>

Return ==
  /\ phase = "evaluate" /\ i > Len(output)
  /\ phase' = "returned"
  /\ UNCHANGED <<tree, symbols, output, stack, i>>

Next == ReadOperand \/ Open \/ ReadOperator \/ Close \/ Flush \/ Evaluate \/ Return

Spec == Init /\ [][Next]_vars

-----------------------------------------------------------------------------

\* The value returned is computed in the order the expression says, whatever
\* parentheses, functions and operators of whatever precedence and direction it mixes,
\* and nothing stays on the stack.
EvaluatesAsWritten == phase = "returned" => stack = <<tree>>
=============================================================================
