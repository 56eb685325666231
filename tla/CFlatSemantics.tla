---------------------------- MODULE CFlatSemantics ---------------------------
(***************************************************************************)
(* What running a CFlat program promises, in one step: the outcome of     *)
(* main.  This is the specification the pipeline lower -> interpret must   *)
(* implement (spec.md 4.1, 8: lowering produces an equivalent IR program,  *)
(* "fn main() -> int { return K; }" lowers and interprets to Ok(K)).       *)
(*                                                                         *)
(* It is given for the statements and expressions whose lowering exists:   *)
(* a body whose first statement is a return, over numbers, nil and names.  *)
(* Local initializers are assignments run before the body (spec.md 4.1     *)
(* preprocessing (c)); a declared variable without one, and every global,  *)
(* holds its type's zero value, 0 for an int.                              *)
(***************************************************************************)
EXTENDS Integers, SequencesExt

CONSTANT Asts          \* the AST programs run

VARIABLES ast,         \* the program (fixed)
          outcome      \* [status, result]: "running", then how main ended

\* The value of an expression in an environment of local values.
Value(env, e) ==
    CASE e.op = "num" -> e.n
      [] e.op = "nil" -> 0
      [] e.op = "id"  -> IF e.x \in DOMAIN env THEN env[e.x] ELSE 0

\* main's locals after its declarations, each initializer run in order.
RECURSIVE LocalsAfter(_, _, _)
LocalsAfter(ds, k, env) ==
    IF k > Len(ds) THEN env
    ELSE LET d == ds[k][1]
             v == IF ds[k][2] = <<>> THEN 0 ELSE Value(env, ds[k][2][1])
         IN  LocalsAfter(ds, k + 1, [x \in DOMAIN env \cup {d.name} |->
                                        IF x = d.name THEN v ELSE env[x]])

\* The outcome of running ast: main returns the value of its return.
Meaning(a) ==
    LET main == CHOOSE fn \in ToSet(a.functions) : fn.name = "main"
        env == LocalsAfter(main.body.decls, 1, <<>>)
    IN  [status |-> "done", result |-> Value(env, main.body.stmts[1].val[1])]

Init == ast \in Asts /\ outcome = [status |-> "running", result |-> 0]

\* The program runs to its outcome.
Run == outcome.status = "running" /\ outcome' = Meaning(ast) /\ UNCHANGED ast

Spec == Init /\ [][Run]_<<ast, outcome>> /\ WF_<<ast, outcome>>(Run)
====
