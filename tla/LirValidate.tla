----------------------------- MODULE LirValidate ----------------------------
(***************************************************************************)
(* lir::validate (src/src/middle_end/lir/validate.rs) as a predicate on    *)
(* the program records of LirProgram: one operator per check_* function,   *)
(* Valid their conjunction.  Identifier spelling and the name-to-id        *)
(* mapping are properties of strings the model does not have, so          *)
(* check_identifiers keeps only its alloc-id uniqueness part and           *)
(* check_name_mapping is not modelled.                                     *)
(***************************************************************************)
EXTENDS LirProgram, Functions

Funcs(prog) == DOMAIN prog.funcs
Blocks(prog, f) == DOMAIN prog.funcs[f].body
Term(prog, f, l) == prog.funcs[f].body[l].term
InstsOf(prog, f, l) == prog.funcs[f].body[l].insts
ParamTys(ps) == [k \in 1..Len(ps) |-> ps[k].ty]

OpTy(o) == IF o.k = "const" THEN IntT ELSE o.x.ty
IsZeroConst(o) == o.k = "const" /\ o.n = 0

\* check_identifiers, its alloc-id part: alloc sites are unique program-wide.
AllocSites(prog) ==
    UNION {UNION {{<<f, l, k>> : k \in {j \in 1..Len(InstsOf(prog, f, l)) :
                                          InstsOf(prog, f, l)[j].op = "alloc"}}
                  : l \in Blocks(prog, f)} : f \in Funcs(prog)}
CheckIdentifiers(prog) ==
    \A s, t \in AllocSites(prog) :
        InstsOf(prog, s[1], s[2])[s[3]].id = InstsOf(prog, t[1], t[2])[t[3]].id => s = t

CheckStructs(prog) == \A s \in DOMAIN prog.structs : prog.structs[s] # {}

CheckForRequiredElements(prog) ==
    /\ "main" \in Funcs(prog)
    /\ prog.funcs["main"].params = <<>> /\ prog.funcs["main"].ret = <<IntT>>
    /\ \A f \in Funcs(prog) : "entry" \in Blocks(prog, f)

CheckParameters(prog) == \A f \in Funcs(prog) : IsInjective(prog.funcs[f].params)

CheckRet(prog) ==
    \A f \in Funcs(prog) : Cardinality({l \in Blocks(prog, f) : Term(prog, f, l).op = "ret"}) = 1

\* The labels a terminal continues at (the edge facts of check_reachability).
Targets(t) == CASE t.op = "branch" -> {t.tt, t.ff}
                [] t.op \in {"calldir", "callidr"} -> {t.next}
                [] t.op = "jump" -> {t.target}
                [] t.op = "ret" -> {}

CheckTerminators(prog) ==
    \A f \in Funcs(prog) : \A l \in Blocks(prog, f) :
        LET t == Term(prog, f, l) IN
        /\ Targets(t) \subseteq Blocks(prog, f)
        /\ t.op = "calldir" => t.callee \in Funcs(prog) /\ t.callee # "main"

\* The variables an instruction or terminal names (check_declared).
OpVars(os) == {os[k].x : k \in {j \in 1..Len(os) : os[j].k = "var"}}
InstVars(i) ==
    CASE i.op = "addrof" -> {i.lhs, i.rhs}
      [] i.op = "alloc"  -> {i.lhs}
      [] i.op \in {"arith", "cmp"} -> {i.lhs} \cup OpVars(<<i.op1, i.op2>>)
      [] i.op = "callext" -> {i.lhs[k] : k \in DOMAIN i.lhs} \cup OpVars(i.args)
      [] i.op = "copy"   -> {i.lhs} \cup OpVars(<<i.src>>)
      [] i.op = "gep"    -> {i.lhs, i.src} \cup OpVars(<<i.idx>>)
      [] i.op \in {"gfp", "load"} -> {i.lhs, i.src}
      [] i.op = "phi"    -> {i.lhs} \cup OpVars(i.args)
      [] i.op = "store"  -> {i.dst} \cup OpVars(<<i.src>>)
TermVars(t) ==
    CASE t.op = "branch" -> OpVars(<<t.cond>>)
      [] t.op = "calldir" -> {t.lhs[k] : k \in DOMAIN t.lhs} \cup OpVars(t.args)
      [] t.op = "callidr" -> {t.lhs[k] : k \in DOMAIN t.lhs} \cup {t.calleeVar} \cup OpVars(t.args)
      [] t.op = "jump" -> {}
      [] t.op = "ret" -> OpVars(t.val)

CheckDeclared(prog) ==
    \A f \in Funcs(prog) : \A l \in Blocks(prog, f) :
        LET scope == prog.globals \cup prog.funcs[f].locals
                     \cup {prog.funcs[f].params[k] : k \in DOMAIN prog.funcs[f].params}
        IN  /\ \A k \in 1..Len(InstsOf(prog, f, l)) : InstVars(InstsOf(prog, f, l)[k]) \subseteq scope
            /\ TermVars(Term(prog, f, l)) \subseteq scope

CheckNoFuncType(prog) ==
    /\ \A s \in DOMAIN prog.structs : \A fd \in prog.structs[s] : fd.ty.k # "fn"
    /\ \A g \in prog.globals : g.ty.k # "fn"
    /\ \A f \in Funcs(prog) :
          /\ \A k \in DOMAIN prog.funcs[f].params : prog.funcs[f].params[k].ty.k # "fn"
          /\ \A x \in prog.funcs[f].locals : x.ty.k # "fn"

\* check_reachability: the ascent program's entry_reaches and reaches_exit,
\* computed as least fixpoints over the edge facts.  The code compares the
\* sizes of those relations with the number of blocks.
\* Mutation of Forward: one round of the edge rule, without the transitive rule.
ForwardOnce(prog, f, S) ==
    S \cup UNION {Targets(Term(prog, f, l)) : l \in S \cap Blocks(prog, f)}

RECURSIVE Forward(_, _, _)
Forward(prog, f, S) ==
    LET S2 == S \cup UNION {Targets(Term(prog, f, l)) : l \in S \cap Blocks(prog, f)}
    IN  IF S2 = S THEN S ELSE Forward(prog, f, S2)
RECURSIVE Backward(_, _, _)
Backward(prog, f, S) ==
    LET S2 == S \cup {l \in Blocks(prog, f) : Targets(Term(prog, f, l)) \cap S # {}}
    IN  IF S2 = S THEN S ELSE Backward(prog, f, S2)
EntryReaches(prog, f) == Forward(prog, f, {"entry"} \cap Blocks(prog, f))
ReachesExit(prog, f) ==
    Backward(prog, f, {l \in Blocks(prog, f) : Term(prog, f, l).op = "ret"})
CheckReachability(prog) ==
    \A f \in Funcs(prog) :
        /\ Cardinality(EntryReaches(prog, f)) = Cardinality(Blocks(prog, f))
        /\ Cardinality(ReachesExit(prog, f)) = Cardinality(Blocks(prog, f))

CheckFuncAndExternNames(prog) == DOMAIN prog.externs \cap Funcs(prog) = {}

CheckGlobalFuncPtrs(prog) ==
    \A g \in prog.globals :
        /\ g.name # "main"
        /\ g.name \in Funcs(prog) =>
              /\ g.ty.k = "ptr"
              /\ g.ty.to = FnT(prog.funcs[g.name].ret, ParamTys(prog.funcs[g.name].params))

\* Arguments against parameter types; a constant 0 may stand for nil.
ArgsMatch(args, tys) ==
    /\ Len(args) = Len(tys)
    /\ \A k \in 1..Len(args) :
          OpTy(args[k]) = tys[k] \/ (tys[k].k = "ptr" /\ IsZeroConst(args[k]))
\* lhs (Option<VarId>) against a return type (Option<Type>).
LhsMatches(lhs, ret) == lhs = <<>> \/ ret = <<lhs[1].ty>>

\* check_types, for one instruction.
InstWellTyped(prog, i) ==
    CASE i.op = "addrof" -> i.lhs.ty.k = "ptr" /\ i.lhs.ty.to = i.rhs.ty
      [] i.op = "alloc" -> i.lhs.ty.k = "ptr" /\ i.lhs.ty.to.k # "fn" /\ OpTy(i.num) = IntT
      [] i.op = "arith" -> i.lhs.ty = IntT /\ OpTy(i.op1) = IntT /\ OpTy(i.op2) = IntT
      [] i.op = "callext" ->
            /\ i.callee \in DOMAIN prog.externs
            /\ prog.externs[i.callee].k = "fn"
            /\ LhsMatches(i.lhs, prog.externs[i.callee].ret)
            /\ ArgsMatch(i.args, prog.externs[i.callee].params)
      [] i.op = "cmp" ->
            LET t1 == OpTy(i.op1)  t2 == OpTy(i.op2) IN
            /\ i.lhs.ty = IntT
            /\ \/ t1 = t2 /\ t1.k \in {"int", "ptr"}
               \/ t1.k = "ptr" /\ t2 = IntT /\ IsZeroConst(i.op2)
               \/ t1 = IntT /\ t2.k = "ptr" /\ IsZeroConst(i.op1)
      [] i.op = "copy" ->
            i.lhs.ty = OpTy(i.src) \/ (i.lhs.ty.k = "ptr" /\ IsZeroConst(i.src))
      [] i.op = "gep" ->
            /\ i.lhs.ty.k = "ptr" /\ i.src.ty.k = "ptr" /\ OpTy(i.idx) = IntT
            /\ i.lhs.ty.to = i.src.ty.to
      [] i.op = "gfp" ->
            /\ i.lhs.ty.k = "ptr" /\ i.src.ty.k = "ptr" /\ i.src.ty.to.k = "struct"
            /\ i.src.ty.to.s \in DOMAIN prog.structs
            /\ i.field \in prog.structs[i.src.ty.to.s]
            /\ i.lhs.ty.to = i.field.ty
      [] i.op = "load" -> i.src.ty.k = "ptr" /\ i.lhs.ty = i.src.ty.to
      [] i.op = "phi" ->
            /\ i.args # <<>>
            /\ \A k \in 1..Len(i.args) :
                  OpTy(i.args[k]) = i.lhs.ty \/ (i.lhs.ty.k = "ptr" /\ IsZeroConst(i.args[k]))
      [] i.op = "store" ->
            /\ i.dst.ty.k = "ptr"
            /\ \/ i.dst.ty.to = OpTy(i.src)
               \/ i.dst.ty.to.k = "ptr" /\ IsZeroConst(i.src)

\* check_types, for the terminal of a block of function f.
TermWellTyped(prog, f, t) ==
    CASE t.op = "branch" -> OpTy(t.cond) = IntT
      [] t.op = "calldir" ->
            /\ t.callee \in Funcs(prog)
            /\ LhsMatches(t.lhs, prog.funcs[t.callee].ret)
            /\ ArgsMatch(t.args, ParamTys(prog.funcs[t.callee].params))
      [] t.op = "callidr" ->
            /\ t.calleeVar.ty.k = "ptr" /\ t.calleeVar.ty.to.k = "fn"
            /\ LhsMatches(t.lhs, t.calleeVar.ty.to.ret)
            /\ ArgsMatch(t.args, t.calleeVar.ty.to.params)
      [] t.op = "jump" -> TRUE
      [] t.op = "ret" ->
            LET r == prog.funcs[f].ret IN
            \/ t.val = <<>> /\ r = <<>>
            \/ t.val # <<>> /\ r = <<OpTy(t.val[1])>>
            \/ r # <<>> /\ r[1].k = "ptr" /\ t.val = <<CInt(0)>>

CheckTypes(prog) ==
    \A f \in Funcs(prog) : \A l \in Blocks(prog, f) :
        /\ \A k \in 1..Len(InstsOf(prog, f, l)) : InstWellTyped(prog, InstsOf(prog, f, l)[k])
        /\ TermWellTyped(prog, f, Term(prog, f, l))

\* validate: every check; check_types only runs once the others pass.
Valid(prog) ==
    /\ CheckIdentifiers(prog) /\ CheckStructs(prog)
    /\ CheckForRequiredElements(prog) /\ CheckParameters(prog)
    /\ CheckRet(prog) /\ CheckTerminators(prog) /\ CheckDeclared(prog)
    /\ CheckNoFuncType(prog) /\ CheckReachability(prog)
    /\ CheckFuncAndExternNames(prog) /\ CheckGlobalFuncPtrs(prog)
    /\ CheckTypes(prog)
====
