------------------------------ MODULE Lowering ------------------------------
(***************************************************************************)
(* A function body on its way through the compiler: transform() of         *)
(* codegen/body/transformer/mod.rs, then EirEmitter::emit_function_body.   *)
(* Every pass rewrites the tree in place; the emitter reads what the last  *)
(* one left.  "Generate C# code that behaves like the Rust code"           *)
(* (design/design-v1.md) is the promise the passes have to keep together.  *)
(***************************************************************************)
EXTENDS BodyTransformers, BodyEmitter

CONSTANTS
  Programs,   \* the functions to compile: [fn, body]
  InputLen,   \* how many answers external calls give before a run is cut
  Fuel,       \* how many loop iterations before a run is cut
  KnownGaps   \* what the emitter mistranslates without reporting: see Gaps

ASSUME BoundsAssumption == InputLen \in Nat /\ Fuel \in Nat

VARIABLES
  program,    \* the function, as written in Rust
  tree,       \* its body as the passes left it
  output,     \* what was emitted for it
  phase       \* the last pass that ran

vars == <<program, tree, output, phase>>

Inputs == [1 .. InputLen -> {True, False}]

Init ==
  /\ program \in Programs
  /\ tree = program.body
  /\ output = Emitted(<<>>, FALSE, {})
  /\ phase = "lowered"

ImplicitReturnsPass ==
  /\ phase = "lowered"
  /\ tree' = ImplicitReturns(tree)
  /\ phase' = "implicit returns"
  /\ UNCHANGED <<program, output>>

ExpandBlockExprPass ==
  /\ phase = "implicit returns"
  /\ tree' = ExpandBlockExpr(tree)
  /\ phase' = "expand block expr"
  /\ UNCHANGED <<program, output>>

EmitPass ==
  /\ phase = "expand block expr"
  /\ output' = EmitReturningBlock(tree, program.fn)
  /\ phase' = "emitted"
  /\ UNCHANGED <<program, tree>>

Next == ImplicitReturnsPass \/ ExpandBlockExprPass \/ EmitPass

Spec == Init /\ [][Next]_vars
-----------------------------------------------------------------------------
(***************************************************************************)
(* What the emitter translates to something else without logging an error. *)
(***************************************************************************)
InArm(n) == \E m \in Nodes(program.body) :
              m.k = "match" /\ \E a \in ToSet(m.arms) : n \in Nodes(a.e)

HasGap(g) ==
  CASE g = "or" ->           \* || is written &&
         \E n \in Nodes(program.body) : n.k = "or"
    [] g = "try" ->          \* e? throws where it should return
         \E e \in ExprsIn(output.code) : e.k = "Helpers.Try"
    [] g = "return in value" ->  \* an exception that nothing catches
         \E e \in ExprsIn(output.code) : e.k = "throw" /\ e.kind = "throw"
    [] g = "else if" ->          \* as a value, the outer condition is lost
         \E e \in ExprsIn(output.code) : e.k = "?:" /\ e.b.k = "?:" /\ e.b.c = e.c
    [] g = "if without else" ->  \* as a value, its other branch is a type name
         CsValueTuple \in ExprsIn(output.code)
    [] g = "break in match" ->   \* leaves the switch, not the loop
         \E m \in Nodes(program.body) :
           m.k = "match" /\ \E b \in OpenBreaks(m) : b.label = NoLabel
    [] g = "labelled for" ->     \* goto a label that is not there
         \E n \in Nodes(program.body) :
           n.k = "for" /\ \E b \in OpenBreaks(n.body) : b.label = n.label /\ n.label # NoLabel
    [] g = "unit arm" ->         \* return f(); in a void method
         \E m \in Nodes(tree) : m.k = "match" /\ \E a \in ToSet(m.arms) :
           a.e.k = "return" /\ a.e.es # <<>> /\ Type(a.e.es[1]) = "unit"
    [] g = "loop with break" ->  \* taken for diverging
         \E n \in Nodes(program.body) :
           /\ n.k = "loop" /\ BreaksOut(n) # {}
           /\ InArm(n) \/ (program.fn.async /\ program.fn.ret = "unit")
    [] g = "same label" ->       \* C# labels are declared once per block
         \E m, n \in Nodes(program.body) :
           m # n /\ m.k \in Loops /\ n.k \in Loops /\ m.label = n.label /\ n.label # NoLabel

\* The function is emitted, and it is one the compiler claims to translate:
\* no error was logged, and it has none of the known gaps.
Translated ==
  phase = "emitted" /\ output.logged = {} /\ \A g \in KnownGaps : ~HasGap(g)
-----------------------------------------------------------------------------
(* Properties.                                                             *)

\* A pass only rearranges: for all answers of the external calls, the body
\* makes the same calls and ends in the same way after it as before.
PassesKeepMeaning ==
  [][tree' # tree =>
       \A in \in Inputs : RunRust(tree', in, Fuel) = RunRust(tree, in, Fuel)]_vars

\* The C# code does what the Rust function does.
SameBehaviour ==
  Translated =>
    \A in \in Inputs :
      RunCSharp(output.code, program.fn.ret = "unit", in, Fuel)
        = RunRust(program.body, in, Fuel)

\* The C# compiler takes the code: control reaches no end of a section or
\* of a method that returns a value, and no return, goto or throw is misplaced.
Compiles ==
  Translated => CompileErrors(output.code, program.fn) = {}
=============================================================================
