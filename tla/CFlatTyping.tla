----------------------------- MODULE CFlatTyping -----------------------------
(***************************************************************************)
(* Which ASTs lowering may be given (spec.md 4.1: its input has passed     *)
(* semantic validation: names resolve, types are consistent), for the      *)
(* statements and expressions of the Lower module.  The repository has no  *)
(* AST validator (cfc lowers through skip_validation), so this follows the *)
(* spec.  A name is resolved innermost first: locals, parameters, globals, *)
(* then the functions, each of which is a global function pointer (4.1    *)
(* preprocessing (b)); nil stands for any pointer.                         *)
(***************************************************************************)
EXTENDS Lower

\* Not a type: an unresolved name, and nil.
NoType == [k |-> "none"]
NilType == [k |-> "nil"]

\* The type of a name in function fn of program a, or NoType.
NameType(a, fn, x) ==
    LET ls == {d[1] : d \in ToSet(fn.body.decls)} \cup ToSet(fn.params)
        ds == {d \in ls : d.name = x}
        gs == {d \in ToSet(a.globals) : d.name = x}
        fs == {f \in ToSet(a.functions) : f.name = x}
    IN  CASE ds # {} -> (CHOOSE d \in ds : TRUE).ty
          [] gs # {} -> (CHOOSE d \in gs : TRUE).ty
          [] fs # {} -> LET f == CHOOSE g \in fs : TRUE
                        IN  PtrT(FnT(f.rettyp, DeclTys(f.params)))
          [] OTHER   -> NoType

ExpType(a, fn, e) ==
    CASE e.op = "num" -> IntT
      [] e.op = "nil" -> NilType
      [] e.op = "id"  -> NameType(a, fn, e.x)

\* e may be used where a value of type ty is expected.
Fits(a, fn, e, ty) ==
    LET t == ExpType(a, fn, e) IN t = ty \/ (t = NilType /\ ty.k = "ptr")

\* Function and variable names are distinct where they share a scope, every
\* initializer fits its declaration, and every return fits the return type.
AstValid(a) ==
    /\ IsInjective([k \in 1..Len(a.functions) |-> a.functions[k].name])
    /\ IsInjective([k \in 1..Len(a.globals) |-> a.globals[k].name])
    /\ {g.name : g \in ToSet(a.globals)} \cap {f.name : f \in ToSet(a.functions)} = {}
    /\ \A fn \in ToSet(a.functions) :
          LET names == [k \in 1..Len(fn.params) |-> fn.params[k].name]
                            \o [k \in 1..Len(fn.body.decls) |-> fn.body.decls[k][1].name]
          IN  /\ IsInjective(names)
              /\ \A d \in ToSet(fn.body.decls) :
                    d[2] # <<>> => Fits(a, fn, d[2][1], d[1].ty)
              /\ \A s \in ToSet(fn.body.stmts) :
                    s.op = "return" =>
                       IF fn.rettyp = <<>> THEN s.val = <<>>
                       ELSE s.val # <<>> /\ Fits(a, fn, s.val[1], fn.rettyp[1])
    /\ \E fn \in ToSet(a.functions) :
          fn.name = "main" /\ fn.params = <<>> /\ fn.rettyp = <<IntT>>

\* The fragment whose lowering is implemented: every function body starts
\* with a return (what follows it is never lowered).
InFragment(a) ==
    \A fn \in ToSet(a.functions) :
        fn.body.stmts # <<>> /\ fn.body.stmts[1].op = "return"
====
