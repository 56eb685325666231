------------------------------- MODULE MC_Lower -------------------------------
(***************************************************************************)
(* lower() on every program of the CFlatSuite family, with and without an  *)
(* initializer, valid or not: the lowering of a valid program of the       *)
(* implemented fragment hits no implementation fault, and what it produces *)
(* passes lir::validate.                                                   *)
(***************************************************************************)
EXTENDS CFlatSuite, LirValidate

VARIABLE a   \* the AST lowered

Init == a \in Family(LocalChoices) \cup Family(InitLocals)
\* The program is an input: lowering reads it and changes nothing.
Next == UNCHANGED a
Spec == Init /\ [][Next]_a

\* Lowering a valid program whose function bodies start with a return never
\* reaches a todo!(), an unreachable!() of name_to_var, set_terminal's
\* sentinel assert or lower_functions' assert!(fin.is_none()): lower_stmts
\* stops at the first return, so the unimplemented statements after it are
\* never lowered.
LoweringTotal == AstValid(a) /\ InFragment(a) => LowerFault(a) = "none"

\* What lower() produces for a valid program passes every check of
\* lir::validate: the global function pointers it adds match their
\* functions' types and leave main out, names resolve to declared
\* variables of the right type, and every function has one $ret.
LoweredValid == AstValid(a) /\ LowerFault(a) = "none" => Valid(Lower(a))
====
