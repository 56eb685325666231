------------------------------ MODULE MC_Pipeline -----------------------------
(***************************************************************************)
(* The compiler pipeline: cfc lowers an AST (Lower) and prints the LIR    *)
(* program as text (LirText); liri reads the text back and runs it        *)
(* (LirInterp).  The text is shown to read back as the lowered program,    *)
(* and the run of that program to implement CFlatSemantics, the outcome   *)
(* the AST promises, under the refinement mapping that hides the          *)
(* interpreter's state until it stops.                                    *)
(***************************************************************************)
EXTENDS CFlatSuite, LirInterp, LirText

BuildsMC == {"debug", "release"}

CONSTANT Asts   \* the AST programs compiled and run

VARIABLE ast    \* the AST the running program was lowered from

\* Every AST in Asts lowers without a fault (checked by MC_Lower).
LoweredAsts == {Lower(x) : x \in Asts}

\* cfc with an AST input and an LIR output: lower the AST, unvalidated,
\* and print the program (the lowered program is bound once).
Cfc(x) == CHOOSE t \in {PrintLir(p) : p \in {Lower(x)}} : TRUE

\* liri runs the program it reads from cfc's text; that this is the
\* lowered program is what TextRoundTrip checks.
PipelineInit == ast \in Asts /\ Init /\ prog = Lower(ast)
PipelineNext == Next /\ UNCHANGED ast
pvars == <<vars, ast>>
PipelineSpec == PipelineInit /\ [][PipelineNext]_pvars /\ WF_pvars(PipelineNext)

\* How the interpreter stands: running, or stopped with its result.
Outcome == [status |-> status, result |-> result]

Sem == INSTANCE CFlatSemantics WITH outcome <- Outcome

\* Lowering then interpreting a valid AST implements CFlatSemantics: every
\* run ends, in the state the AST's meaning prescribes, with main's return
\* value as the result.  This takes name_to_var's scoping, the global
\* function pointers lower_functions adds, eliminate_inits, State::new's
\* zero-initialized locals and globals, and Ret from main together.
CFlatRefinement == Sem!Spec

\* The LIR text cfc prints for the lowered program reads back, in liri, as
\* that program.  The printer writes every variable by its bare name, so
\* this holds only if the reader's lookup (locals, parameters, globals)
\* finds the variable lower's name_to_var chose, and only if every type
\* the printer writes parses.
TextRoundTrip == \E t \in {Cfc(ast)} : ReadLir(t) = Ok(LirCore(Lower(ast)))
====
