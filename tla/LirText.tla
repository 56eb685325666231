------------------------------- MODULE LirText -------------------------------
(***************************************************************************)
(* The textual form of LIR: the printer (Display for Program, in          *)
(* src/src/middle_end/lir/display_impl.rs) that cfc writes, and the reader *)
(* (FromStr for Program, in src/src/middle_end/lir/fromstr_impl.rs) that   *)
(* liri runs on it.                                                         *)
(*                                                                         *)
(* Text is abstracted to the parse tree pest builds for it: a sequence of  *)
(* items (struct_def, global_def, extern_decl, function_def), and for an   *)
(* instruction or terminal its rule and the sequence of its inner pairs    *)
(* (ident, operand, aop, rop) in the order they are written.  A token is   *)
(* [r, s, num]: its rule, its text, and <<n>> when the text parses as an   *)
(* i32.  The printer writes a variable or field by its name alone          *)
(* (Display for LirVar and FieldId), so the reader has to find its scope   *)
(* and type again by name.                                                 *)
(***************************************************************************)
EXTENDS LirProgram, SequencesExt

\* The struct names of the instance whose text begins with the letters
\* "int" (TLC cannot take a prefix of a string).
CONSTANT IntPrefixedNames

(* ------------------------------- printing ------------------------------ *)
\* The elements of a set, once each, in the order a BTreeSet or BTreeMap
\* iterates them (abstracted to some fixed order).
Listing(S) ==
    LET list[T \in SUBSET S] ==
            IF T = {} THEN <<>>
            ELSE <<CHOOSE x \in T : TRUE>> \o list[T \ {CHOOSE x \in T : TRUE}]
    IN  list[S]
Tok(r, s) == [r |-> r, s |-> s, num |-> <<>>]
Ident(s) == Tok("ident", s)
\* Display for Operand: a constant as its decimal text, a variable by name.
OperandText(o) == IF o.k = "const" THEN [r |-> "operand", s |-> "", num |-> <<o.n>>]
                  ELSE Tok("operand", o.x.name)
ArgsText(os) == [k \in DOMAIN os |-> OperandText(os[k])]
\* "x = " in front of a call with a left-hand side.
LhsText(lhs) == [k \in DOMAIN lhs |-> Ident(lhs[k].name)]

\* Display for LirType: int, a struct's name, &t, (t1,...) -> ret.
RECURSIVE TypeText(_)
TypeText(ty) ==
    CASE ty.k = "int"    -> [tt |-> "word", w |-> "int"]
      [] ty.k = "struct" -> [tt |-> "word", w |-> ty.s]
      [] ty.k = "ptr"    -> [tt |-> "ptr", to |-> TypeText(ty.to)]
      [] ty.k = "fn"     -> [tt |-> "fn", ret |-> [k \in DOMAIN ty.ret |-> TypeText(ty.ret[k])],
                             params |-> [k \in DOMAIN ty.params |-> TypeText(ty.params[k])]]

\* typed_to_string: name:type, for parameters, locals, globals and fields.
DeclText(x) == [name |-> x.name, ty |-> TypeText(x.ty)]

\* Display for Instruction.
InstText(i) == [rule |-> i.op, pairs |->
    CASE i.op = "addrof" -> <<Ident(i.lhs.name), Ident(i.rhs.name)>>
      [] i.op = "alloc"  -> <<Ident(i.lhs.name), OperandText(i.num), Ident(i.id.name)>>
      [] i.op = "arith"  -> <<Ident(i.lhs.name), Tok("aop", i.aop), OperandText(i.op1), OperandText(i.op2)>>
      [] i.op = "cmp"    -> <<Ident(i.lhs.name), Tok("rop", i.rop), OperandText(i.op1), OperandText(i.op2)>>
      [] i.op = "callext" -> LhsText(i.lhs) \o <<Ident(i.callee)>> \o ArgsText(i.args)
      [] i.op = "copy"   -> <<Ident(i.lhs.name), OperandText(i.src)>>
      [] i.op = "gep"    -> <<Ident(i.lhs.name), Ident(i.src.name), OperandText(i.idx)>>
      [] i.op = "gfp"    -> <<Ident(i.lhs.name), Ident(i.src.name), Ident(i.field.name)>>
      [] i.op = "load"   -> <<Ident(i.lhs.name), Ident(i.src.name)>>
      [] i.op = "phi"    -> <<Ident(i.lhs.name)>> \o ArgsText(i.args)
      [] i.op = "store"  -> <<Ident(i.dst.name), OperandText(i.src)>>]

\* Display for Terminal.
TermText(t) == [rule |-> t.op, pairs |->
    CASE t.op = "branch"  -> <<OperandText(t.cond), Ident(t.tt), Ident(t.ff)>>
      [] t.op = "calldir" -> LhsText(t.lhs) \o <<Ident(t.callee)>> \o ArgsText(t.args) \o <<Ident(t.next)>>
      [] t.op = "callidr" -> LhsText(t.lhs) \o <<Ident(t.calleeVar.name)>> \o ArgsText(t.args) \o <<Ident(t.next)>>
      [] t.op = "jump"    -> <<Ident(t.target)>>
      [] t.op = "ret"     -> ArgsText(t.val)]

\* Display for Function and BasicBlock: the header, "let" with the locals,
\* then the blocks in label order (the listings bound once).
FunctionText(f, fn) ==
    LET BlockText(l) == [label |-> l, insts |-> [k \in DOMAIN fn.body[l].insts |->
                                                    InstText(fn.body[l].insts[k])],
                         term |-> TermText(fn.body[l].term)]
        text(labels, locals) ==
            [rule |-> "function_def", name |-> f,
             params |-> [k \in DOMAIN fn.params |-> DeclText(fn.params[k])],
             ret |-> [k \in DOMAIN fn.ret |-> TypeText(fn.ret[k])],
             decls |-> [k \in DOMAIN locals |-> DeclText(locals[k])],
             blocks |-> [k \in DOMAIN labels |-> BlockText(labels[k])]]
    IN  CHOOSE t \in {text(labels, locals) : labels \in {Listing(DOMAIN fn.body)},
                                             locals \in {Listing(fn.locals)}} : TRUE

\* Display for Program: structs, globals, externs, then functions.
PrintLir(p) ==
    LET fieldSeq(s) == Listing(p.structs[s])
        text(ss, gs, es, fs) ==
            [k \in DOMAIN ss |-> [rule |-> "struct_def", name |-> ss[k],
                 fields |-> [j \in DOMAIN fieldSeq(ss[k]) |-> DeclText(fieldSeq(ss[k])[j])]]]
            \o [k \in DOMAIN gs |-> [rule |-> "global_def", name |-> gs[k].name,
                                      ty |-> TypeText(gs[k].ty)]]
            \o [k \in DOMAIN es |-> [rule |-> "extern_decl", name |-> es[k],
                                      ty |-> TypeText(p.externs[es[k]])]]
            \o [k \in DOMAIN fs |-> FunctionText(fs[k], p.funcs[fs[k]])]
    IN  CHOOSE t \in {text(ss, gs, es, fs) : ss \in {Listing(DOMAIN p.structs)},
                        gs \in {Listing(p.globals)}, es \in {Listing(DOMAIN p.externs)},
                        fs \in {Listing(DOMAIN p.funcs)}} : TRUE

(* ---------------------------- the grammar ---------------------------- *)
\* type_id = { "int" | ident | func_typ | ptr_typ } is an ordered choice:
\* on a word that begins with "int" the first alternative matches those
\* three letters and the rule that follows the type fails on the rest.
RECURSIVE TypeParses(_)
TypeParses(t) ==
    CASE t.tt = "word" -> t.w \notin IntPrefixedNames
      [] t.tt = "ptr"  -> TypeParses(t.to)
      [] t.tt = "fn"   -> /\ \A k \in DOMAIN t.ret : TypeParses(t.ret[k])
                          /\ \A k \in DOMAIN t.params : TypeParses(t.params[k])

SectionRank == ("struct_def" :> 0) @@ ("global_def" :> 1) @@ ("extern_decl" :> 2)
               @@ ("function_def" :> 3)
DeclsParse(ds) == \A k \in DOMAIN ds : TypeParses(ds[k].ty)

\* The program rule: the sections in order, field_def+, an extern of a
\* func_typ, basic_block+ and function_def+.
ParseOk(items) ==
    /\ \A j, k \in DOMAIN items :
           j < k => SectionRank[items[j].rule] <= SectionRank[items[k].rule]
    /\ \E k \in DOMAIN items : items[k].rule = "function_def"
    /\ \A k \in DOMAIN items :
        LET it == items[k] IN
        CASE it.rule = "struct_def"   -> it.fields # <<>> /\ DeclsParse(it.fields)
          [] it.rule = "global_def"   -> TypeParses(it.ty)
          [] it.rule = "extern_decl"  -> it.ty.tt = "fn" /\ TypeParses(it.ty)
          [] it.rule = "function_def" -> /\ it.blocks # <<>>
                                         /\ DeclsParse(it.params) /\ DeclsParse(it.decls)
                                         /\ \A j \in DOMAIN it.ret : TypeParses(it.ret[j])

(* ------------------------------- reading ------------------------------- *)
Ok(v) == [err |-> "none", val |-> v]
Err(e) == [err |-> e]

RECURSIVE CreateType(_), CreateFunctionType(_)
\* create_type: the text "int" is Int, any other word a struct.
CreateType(t) ==
    CASE t.tt = "word" -> IF t.w = "int" THEN IntT ELSE StructT(t.w)
      [] t.tt = "ptr"  -> PtrT(CreateType(t.to))
      [] t.tt = "fn"   -> CreateFunctionType(t)
CreateFunctionType(t) ==
    FnT([k \in DOMAIN t.ret |-> CreateType(t.ret[k])],
        [k \in DOMAIN t.params |-> CreateType(t.params[k])])

\* Mutation of LookupName: globals are searched first.
LookupNameGlobalsFirst(sc, v) ==
    LET gs == {x \in sc.globals : x.name = v}
        ls == {x \in sc.locals : x.name = v}
        ps == {x \in ToSet(sc.params) : x.name = v}
    IN  CASE gs # {} -> Ok(CHOOSE x \in gs : TRUE)
          [] ls # {} -> Ok(CHOOSE x \in ls : TRUE)
          [] ps # {} -> Ok(CHOOSE x \in ps : TRUE)
          [] OTHER   -> Err("undefvar")

\* The lookup closure of create_basic_block: by name, in the locals, then
\* the parameters, then the globals read so far.
LookupName(sc, v) ==
    LET ls == {x \in sc.locals : x.name = v}
        ps == {x \in ToSet(sc.params) : x.name = v}
        gs == {x \in sc.globals : x.name = v}
    IN  CASE ls # {} -> Ok(CHOOSE x \in ls : TRUE)
          [] ps # {} -> Ok(CHOOSE x \in ps : TRUE)
          [] gs # {} -> Ok(CHOOSE x \in gs : TRUE)
          [] OTHER   -> Err("undefvar")

\* Mutation of CreateOperand: the text is parsed as an unsigned number.
CreateOperandUnsigned(sc, tok) ==
    IF tok.num # <<>> /\ tok.num[1] >= 0 THEN Ok(CInt(tok.num[1]))
    ELSE LET r == LookupName(sc, tok.s) IN IF r.err # "none" THEN r ELSE Ok(OVar(r.val))

\* create_operand: text that parses as an i32 is a constant, any other a
\* variable.
CreateOperand(sc, tok) ==
    IF tok.num # <<>> THEN Ok(CInt(tok.num[1]))
    ELSE LET r == LookupName(sc, tok.s) IN IF r.err # "none" THEN r ELSE Ok(OVar(r.val))

\* An operand pair is read by create_operand, an ident by lookup.
Resolve(sc, tok) == IF tok.r = "operand" THEN CreateOperand(sc, tok) ELSE LookupName(sc, tok.s)
Unresolved(sc, ps, used) == \E k \in used : Resolve(sc, ps[k]).err # "none"

\* The instruction arms of create_basic_block.  Each reads its pairs in
\* order and stops at the first undefined variable; $alloc and $gfp then
\* require a pointer left-hand side, whose pointee types the allocation id
\* or the field.
CreateInst(sc, t) ==
    LET ps == t.pairs
        hasLhs == Len(ps) >= 2 /\ ps[2].r = "ident"
        names == CASE t.rule \in {"alloc", "gfp"} -> {3}
                   [] t.rule = "callext" -> IF hasLhs THEN {2} ELSE {1}
                   [] OTHER -> {}
        used == {k \in DOMAIN ps : ps[k].r \in {"ident", "operand"}} \ names
        res(k) == Resolve(sc, ps[k]).val
        args(from) == [k \in 1..Len(ps) - from + 1 |-> res(k + from - 1)]
    IN  CASE Unresolved(sc, ps, used) -> Err("undefvar")
          [] t.rule = "alloc" /\ res(1).ty.k # "ptr" -> Err("allocnotptr")
          [] t.rule = "gfp" /\ res(1).ty.k # "ptr" -> Err("gfpnotptr")
          [] OTHER -> Ok(
             CASE t.rule = "addrof" -> AddrOf(res(1), res(2))
               [] t.rule = "alloc"  -> Alloc(res(1), res(2), ps[3].s)
               [] t.rule = "arith"  -> Arith(res(1), ps[2].s, res(3), res(4))
               [] t.rule = "cmp"    -> Cmp(res(1), ps[2].s, res(3), res(4))
               [] t.rule = "callext" -> IF hasLhs THEN CallExt(<<res(1)>>, ps[2].s, args(3))
                                        ELSE CallExt(<<>>, ps[1].s, args(2))
               [] t.rule = "copy"   -> Copy(res(1), res(2))
               [] t.rule = "gep"    -> Gep(res(1), res(2), res(3))
               [] t.rule = "gfp"    -> Gfp(res(1), res(2), Field(ps[3].s, res(1).ty.to))
               [] t.rule = "load"   -> Load(res(1), res(2))
               [] t.rule = "phi"    -> Phi(res(1), args(2))
               [] t.rule = "store"  -> Store(res(1), res(2)))

\* The terminal arm of create_basic_block, with create_call: the last pair
\* of a call is the next block, and the call has a left-hand side when its
\* second pair is an ident; the callee of $call_dir is a function name, the
\* callee of $call_idr a variable.
CreateTerminal(sc, t) ==
    LET ps == t.pairs
        hasLhs == t.rule \in {"calldir", "callidr"} /\ Len(ps) >= 3 /\ ps[2].r = "ident"
        used == {k \in DOMAIN ps : ps[k].r = "operand"}
                \cup (IF hasLhs THEN {1} ELSE {})
                \cup (IF t.rule = "callidr" THEN {IF hasLhs THEN 2 ELSE 1} ELSE {})
        res(k) == Resolve(sc, ps[k]).val
        args(from) == [k \in 1..Len(ps) - from |-> res(k + from - 1)]
        next == ps[Len(ps)].s
    IN  IF Unresolved(sc, ps, used) THEN Err("undefvar")
        ELSE Ok(
          CASE t.rule = "branch"  -> Branch(res(1), ps[2].s, ps[3].s)
            [] t.rule = "calldir" -> IF hasLhs THEN CallDirect(<<res(1)>>, ps[2].s, args(3), next)
                                     ELSE CallDirect(<<>>, ps[1].s, args(2), next)
            [] t.rule = "callidr" -> IF hasLhs THEN CallIndirect(<<res(1)>>, res(2), args(3), next)
                                     ELSE CallIndirect(<<>>, res(1), args(2), next)
            [] t.rule = "jump"    -> Jump(ps[1].s)
            [] t.rule = "ret"     -> Ret(IF ps = <<>> THEN <<>> ELSE <<res(1)>>))

\* create_basic_block: a label among the blocks read before is an error;
\* else the instructions, then the terminal, the first error stopping the
\* block.
CreateBasicBlock(sc, labels, b) ==
    LET result(is, tr) ==
            LET bad == {k \in DOMAIN is : is[k].err # "none"}
            IN  CASE bad # {} -> is[Min(bad)]
                  [] tr.err # "none" -> tr
                  [] OTHER -> Ok([insts |-> [k \in DOMAIN is |-> is[k].val], term |-> tr.val])
    IN  IF b.label \in labels THEN Err("dupblock")
        ELSE CHOOSE r \in {result(is, tr) :
                 is \in {[k \in DOMAIN b.insts |-> CreateInst(sc, b.insts[k])]},
                 tr \in {CreateTerminal(sc, b.term)}} : TRUE

HasDupName(ds) == \E j, k \in DOMAIN ds : j < k /\ ds[j].name = ds[k].name

\* create_function, after the duplicate-function check: the parameters (a
\* duplicate name is an error), the return type, the locals of "let"
\* (likewise), and the blocks in order, which see the globals gs read
\* before the function.
CreateFunction(gs, fd) ==
    LET f == fd.name
        params == [k \in DOMAIN fd.params |->
                      LocalVar(f, fd.params[k].name, CreateType(fd.params[k].ty))]
        locals == {LocalVar(f, d.name, CreateType(d.ty)) : d \in ToSet(fd.decls)}
        bs == fd.blocks
        \* each block read once, in the scope bound once
        read(sc) == [k \in DOMAIN bs |->
                        CreateBasicBlock(sc, {bs[j].label : j \in 1..k-1}, bs[k])]
        result(rs) ==
            LET bad == {k \in DOMAIN bs : rs[k].err # "none"}
            IN  IF bad # {} THEN rs[Min(bad)]
                ELSE Ok([params |-> params, locals |-> locals,
                         ret |-> [k \in DOMAIN fd.ret |-> CreateType(fd.ret[k])],
                         body |-> [l \in {b.label : b \in ToSet(bs)} |->
                                     rs[CHOOSE k \in DOMAIN bs : bs[k].label = l].val]])
    IN  CASE HasDupName(fd.params) -> Err("dupparam")
          [] HasDupName(fd.decls) -> Err("duplocal")
          [] OTHER -> CHOOSE r \in {result(rs) : rs \in
                         {read(sc) : sc \in {[locals |-> locals, params |-> params, globals |-> gs]}}} : TRUE

\* create_struct: a duplicate struct, then a duplicate field name.
CreateStruct(known, sd) ==
    CASE sd.name \in known -> Err("dupstruct")
      [] HasDupName(sd.fields) -> Err("dupfield")
      [] OTHER -> Ok({Field(d.name, CreateType(d.ty)) : d \in ToSet(sd.fields)})

\* create_global: a global is unscoped; its name must be new.
CreateGlobal(known, gd) ==
    IF gd.name \in known THEN Err("dupglobal") ELSE Ok(Var(gd.name, CreateType(gd.ty)))

\* create_extern.
CreateExtern(known, ed) ==
    IF ed.name \in known THEN Err("dupextern") ELSE Ok(CreateFunctionType(ed.ty))

\* The items of a rule before item k, and the names they declare.
ItemsBefore(items, k, rule) == {items[j] : j \in {i \in 1..k-1 : items[i].rule = rule}}
NamesBefore(items, k, rule) == {it.name : it \in ItemsBefore(items, k, rule)}

\* One iteration of create_program's loop: item k read into the maps the
\* items before it filled in.
ItemResult(items, k) ==
    LET it == items[k]
        known == NamesBefore(items, k, it.rule)
    IN  CASE it.rule = "struct_def"   -> CreateStruct(known, it)
          [] it.rule = "global_def"   -> CreateGlobal(known, it)
          [] it.rule = "extern_decl"  -> CreateExtern(known, it)
          [] it.rule = "function_def" ->
                IF it.name \in known THEN Err("dupfunc")
                ELSE CreateFunction({CreateGlobal({}, g).val : g \in
                                        ItemsBefore(items, k, "global_def")}, it)

\* create_program: the items in order, the first error ending the read.
CreateProgram(items) ==
    LET of(rule) == {k \in DOMAIN items : items[k].rule = rule}
        names(rule) == {items[k].name : k \in of(rule)}
        result(rs) ==
            LET bad == {k \in DOMAIN items : rs[k].err # "none"}
                at(rule, n) == rs[CHOOSE k \in of(rule) : items[k].name = n].val
            IN  IF bad # {} THEN rs[Min(bad)]
                ELSE Ok([structs |-> [n \in names("struct_def") |-> at("struct_def", n)],
                         globals |-> {rs[k].val : k \in of("global_def")},
                         externs |-> [n \in names("extern_decl") |-> at("extern_decl", n)],
                         funcs |-> [n \in names("function_def") |-> at("function_def", n)]])
    IN  CHOOSE r \in {result(rs) : rs \in {[k \in DOMAIN items |-> ItemResult(items, k)]}} : TRUE

\* Program::from_str: a pest error, or create_program of the parse tree.
ReadLir(items) == IF ParseOk(items) THEN CreateProgram(items) ELSE Err("parse")

\* The program p printed and read back; the text is bound once, so that it
\* is computed once.
ReadBack(p) == CHOOSE r \in {ReadLir(t) : t \in {PrintLir(p)}} : TRUE

\* The fields of lir::Program that the text carries.
LirCore(p) == [structs |-> p.structs, globals |-> p.globals, externs |-> p.externs,
               funcs |-> p.funcs]
====
