-------------------------------- MODULE Lower --------------------------------
(***************************************************************************)
(* The CFlat AST (src/src/front_end/ast.rs) and its lowering to LIR        *)
(* (src/src/front_end/lower.rs), for the part of lower.rs that is          *)
(* implemented.  lower() records structs, globals and externs, adds a      *)
(* global function pointer for every function but main, and lowers each    *)
(* function body with lower_stmts into blocks starting at "entry".         *)
(*                                                                         *)
(* Of the statements only Return is implemented; Break and Continue are    *)
(* todo!(), and lower_if, lower_while, lower_assign and lower_call reach a  *)
(* todo!() before they change anything.  Of the expressions only Num, Id   *)
(* and Nil are implemented.  Every todo!(), unreachable!() and assert! of  *)
(* the lowering is an implementation fault, reported by LowerFault.        *)
(*                                                                         *)
(* A local or parameter n of function f is the LIR variable n with scope *)
(* f (var_id(n, ty, Some(f))); a global has no scope.                     *)
(***************************************************************************)
EXTENDS LirProgram, SequencesExt

(* ------------------------------- the AST ------------------------------- *)
\* rettyp is <<>> or <<type>> (Option<Type>); decls pair a Decl with <<>> or
\* <<initializer>>.
ADecl(name, ty) == [name |-> name, ty |-> ty]
Typedef(name, fields) == [name |-> name, fields |-> fields]
Function(name, params, rettyp, decls, stmts) ==
    [name |-> name, params |-> params, rettyp |-> rettyp,
     body |-> [decls |-> decls, stmts |-> stmts]]
AProgram(globals, typedefs, externs, functions) ==
    [globals |-> globals, typedefs |-> typedefs, externs |-> externs,
     functions |-> functions]

Return(o) == [op |-> "return", val |-> o]
\* Break, Continue, Assign, Call, If and While: only the variant matters,
\* since lowering any of them stops at a todo!().
StmtKinds == {"break", "continue", "assign", "call", "if", "while"}
Stmt(kind) == [op |-> kind]

Num(n) == [op |-> "num", n |-> n]
Id(x) == [op |-> "id", x |-> x]
Nil == [op |-> "nil"]
\* Neg, Deref, Not, Arith, Compare, And, Or, ArrayAccess, FieldAccess, Call.
ExpKinds == {"neg", "deref", "not", "arith", "compare", "and", "or",
             "arrayaccess", "fieldaccess", "call"}
Exp(kind) == [op |-> kind]

(* ------------------------------- lowering ------------------------------ *)
DeclTys(ds) == [k \in 1..Len(ds) |-> ds[k].ty]

LowerStructs(tds) ==
    [s \in {td.name : td \in ToSet(tds)} |->
        LET td == CHOOSE t \in ToSet(tds) : t.name = s
        IN  {Field(d.name, d.ty) : d \in ToSet(td.fields)}]
LowerGlobals(gs) == {Var(d.name, d.ty) : d \in ToSet(gs)}
LowerExterns(es) == [e \in {d.name : d \in ToSet(es)} |->
                        (CHOOSE d \in ToSet(es) : d.name = e).ty]

\* Mutation of FuncPtrGlobals: main gets a function pointer as well.
FuncPtrGlobalsWithMain(fs) ==
    {Var(f.name, PtrT(FnT(f.rettyp, DeclTys(f.params)))) : f \in ToSet(fs)}

\* The first loop of lower_functions: a global function pointer for every
\* function except main.
FuncPtrGlobals(fs) ==
    {Var(f.name, PtrT(FnT(f.rettyp, DeclTys(f.params)))) :
        f \in {g \in ToSet(fs) : g.name # "main"}}

LowerParams(ps, f) == [k \in 1..Len(ps) |-> LocalVar(f, ps[k].name, ps[k].ty)]
LowerLocals(ds, f) == {LocalVar(f, ds[k][1].name, ds[k][1].ty) : k \in 1..Len(ds)}

\* Lowering's per-function info: the function, params, locals, globals.
Info(ast, fn) ==
    [func |-> fn.name, params |-> LowerParams(fn.params, fn.name),
     locals |-> LowerLocals(fn.body.decls, fn.name),
     globals |-> LowerGlobals(ast.globals) \cup FuncPtrGlobals(ast.functions)]

\* Mutation of NameToVar: globals are looked up before locals and params.
NameToVarGlobalsFirst(info, n) ==
    LET gs == {v \in info.globals : v.name = n}
        ls == {v \in info.locals : v.name = n}
        ps == {v \in ToSet(info.params) : v.name = n}
    IN  CASE gs # {} -> [fault |-> "none", var |-> CHOOSE v \in gs : TRUE]
          [] ls # {} -> [fault |-> "none", var |-> CHOOSE v \in ls : TRUE]
          [] ps # {} -> [fault |-> "none", var |-> CHOOSE v \in ps : TRUE]
          [] OTHER   -> [fault |-> "unreachable"]

\* Lowering::name_to_var: locals, then parameters, then globals.
NameToVar(info, n) ==
    LET ls == {v \in info.locals : v.name = n}
        ps == {v \in ToSet(info.params) : v.name = n}
        gs == {v \in info.globals : v.name = n}
    IN  CASE ls # {} -> [fault |-> "none", var |-> CHOOSE v \in ls : TRUE]
          [] ps # {} -> [fault |-> "none", var |-> CHOOSE v \in ps : TRUE]
          [] gs # {} -> [fault |-> "none", var |-> CHOOSE v \in gs : TRUE]
          [] OTHER   -> [fault |-> "unreachable"]

\* lower_exp_to_operand for the implemented expressions.
LowerExpToOperand(info, e) ==
    CASE e.op = "num" -> [fault |-> "none", op |-> CInt(e.n)]
      [] e.op = "nil" -> [fault |-> "none", op |-> CInt(0)]
      [] e.op = "id"  -> LET r == NameToVar(info, e.x) IN
                         IF r.fault # "none" THEN r ELSE [fault |-> "none", op |-> OVar(r.var)]
      [] OTHER        -> [fault |-> "todo"]

\* The terminal lower_stmts gives a block it creates, until set_terminal.
Sentinel == Jump("_SENTINEL")

\* set_terminal: asserts the block still has the sentinel terminal.
SetTerminal(bb, t) ==
    IF bb.term = Sentinel THEN [fault |-> "none", bb |-> [bb EXCEPT !.term = t]]
    ELSE [fault |-> "sentinel"]

\* The outcome of lowering a statement list: a fault, or the block and
\* whether control falls through its end (lower_stmts returns Some(curr_bb)).
Lowered(bb, fin) == [fault |-> "none", bb |-> bb, fin |-> fin]

\* Mutation of LowerStmtsFrom: lowering goes on after a Return.
RECURSIVE LowerStmtsOn(_, _, _, _)
LowerStmtsOn(info, ss, k, bb) ==
    IF k > Len(ss) THEN Lowered(bb, TRUE)
    ELSE IF ss[k].op # "return" THEN [fault |-> "todo"]
    ELSE LET o == IF ss[k].val = <<>> THEN [fault |-> "none"]
                  ELSE LowerExpToOperand(info, ss[k].val[1])
             t == SetTerminal(bb, Ret(IF ss[k].val = <<>> THEN <<>> ELSE <<o.op>>))
         IN  CASE o.fault # "none" -> o
               [] t.fault # "none" -> t
               [] OTHER -> LowerStmtsOn(info, ss, k + 1, t.bb)

\* lower_stmts from statement k on, into block bb: a Return sets the
\* terminal and ends the lowering (the statements after it are not
\* lowered); every other statement reaches a todo!().
RECURSIVE LowerStmtsFrom(_, _, _, _)
LowerStmtsFrom(info, ss, k, bb) ==
    IF k > Len(ss) THEN Lowered(bb, TRUE)
    ELSE IF ss[k].op # "return" THEN [fault |-> "todo"]
    ELSE LET o == IF ss[k].val = <<>> THEN [fault |-> "none"]
                  ELSE LowerExpToOperand(info, ss[k].val[1])
             t == SetTerminal(bb, Ret(IF ss[k].val = <<>> THEN <<>> ELSE <<o.op>>))
         IN  CASE o.fault # "none" -> o
               [] t.fault # "none" -> t
               [] OTHER -> Lowered(t.bb, FALSE)

\* lower_stmts: the entry block, created with the sentinel terminal.
LowerStmts(info, ss) == LowerStmtsFrom(info, ss, 1, [insts |-> <<>>, term |-> Sentinel])

\* eliminate_inits: returns the statements unchanged (its TODO); the
\* initializers of the declarations are dropped.
EliminateInits(body) == body.stmts

\* eliminate_multiple_ret: returns before doing anything.
EliminateMultipleRet(blocks) == blocks

\* The body lower_functions builds for fn, or a fault: lower_stmts's, or
\* assert!(fin.is_none()) when control falls off the end of the body.
LowerBody(ast, fn) ==
    LET r == LowerStmts(Info(ast, fn), EliminateInits(fn.body)) IN
    CASE r.fault # "none" -> r
      [] r.fin -> [fault |-> "fallthrough"]
      [] OTHER -> [fault |-> "none", body |-> EliminateMultipleRet("entry" :> r.bb)]

\* The implementation fault lowering ast hits first, or "none".
LowerFault(ast) ==
    LET faults == {LowerBody(ast, fn).fault : fn \in ToSet(ast.functions)} \ {"none"}
    IN  IF faults = {} THEN "none" ELSE CHOOSE f \in faults : TRUE

\* lower(): the LIR program, for an AST whose lowering does not fault.
\* fnRank and fieldRank order names as strings, which only a comparison of
\* function pointers reads; lowered bodies never compare.
Lower(ast) ==
    LET fns == ToSet(ast.functions)
        fnOf(n) == CHOOSE fn \in fns : fn.name = n
        structs == LowerStructs(ast.typedefs)
    IN  [funcs |-> [n \in {fn.name : fn \in fns} |->
                      [params |-> LowerParams(fnOf(n).params, n),
                       locals |-> LowerLocals(fnOf(n).body.decls, n),
                       ret |-> fnOf(n).rettyp,
                       body |-> LowerBody(ast, fnOf(n)).body]],
         globals |-> LowerGlobals(ast.globals) \cup FuncPtrGlobals(ast.functions),
         externs |-> LowerExterns(ast.externs),
         structs |-> structs,
         fnRank |-> [n \in {fn.name : fn \in fns} |-> 0],
         fieldRank |-> [fd \in UNION {structs[s] : s \in DOMAIN structs} |-> 0]]
====
