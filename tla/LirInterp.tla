------------------------------ MODULE LirInterp ------------------------------
(***************************************************************************)
(* The LIR interpreter of src/src/interpreter.rs: the CESK machine State   *)
(* (control, current function, env, glob, store, call stack, next_address) *)
(* driven by interpret()'s loop.  One step of the model executes one       *)
(* instruction of the current block (one iteration of the loop in          *)
(* State::step) or the block's terminal (execute_terminal); nothing else   *)
(* runs in between, so this is the same sequence of state changes.         *)
(*                                                                         *)
(* The program is chosen in Init from Programs and never changes.  The     *)
(* interpreter stops with status "done" (main returned an int), "error"    *)
(* (a RuntimeError, kind in err) or "panic" (an assert, unreachable!,      *)
(* unimplemented! or u32 overflow in a debug build).                       *)
(***************************************************************************)
EXTENDS LirValidate, SequencesExt

CONSTANTS
    Programs,   \* the programs interpreted, validated or not (liri does not validate)
    Builds,     \* subset of {"debug", "release"}: overflow checks on or off
    MaxSteps    \* bound on the number of steps; interpret() has no budget

VARIABLES
    prog, build,         \* the program and the build profile (fixed)
    func, blk, pc,       \* State.func, State.control, index in control.insts
    env, glob, store,    \* State.env, State.glob, State.store
    stack, nextAddress,  \* State.stack, State.next_address
    status, err, result, \* how interpret() ended, and its Ok value
    output,              \* what the print extern wrote, in order
    allocs,              \* ghost: the alloc_array calls in order, [base, n, ty]
    steps                \* bound counter

ctl == <<func, blk, pc>>
heap == <<store, nextAddress, allocs>>
vars == <<prog, build, func, blk, pc, env, glob, store, stack, nextAddress,
          status, err, result, output, allocs, steps>>

Statuses == {"running", "done", "error", "panic"}
\* The RuntimeError messages of interpreter.rs, one name per message.
ErrKinds == {"none", "notint", "negalloc", "div0", "extern", "cmp", "notheap",
             "notptr", "nil", "oob", "notstruct", "nofield", "notfn", "noret",
             "mainret", "undef"}

Fn == prog.funcs[func]
Insts == Fn.body[blk].insts
AtInst(op) == pc <= Len(Insts) /\ Insts[pc].op = op
AtTerm(op) == pc = Len(Insts) + 1 /\ Fn.body[blk].term.op = op
CurInst == Insts[pc]
CurTerm == Fn.body[blk].term

ParamSet(f) == {f.params[k] : k \in 1..Len(f.params)}

\* What State::lookup yields for a variable in neither env nor glob: the
\* "undefined variable" RuntimeError.
UndefV == [t |-> "undef"]

\* State::lookup (env first, then glob) and State::eval.
Lookup(x) == IF x \in DOMAIN env THEN env[x]
             ELSE IF x \in DOMAIN glob THEN glob[x] ELSE UndefV
Eval(o) == IF o.k = "const" THEN IntV(o.n) ELSE Lookup(o.x)

\* The error State::eval_to_int returns for v, or "none".
IntErr(v) == CASE v.t = "undef" -> "undef"
               [] v.t # "int"   -> "notint"
               [] OTHER         -> "none"

\* State::bind's nil rule: an Int(0) bound to a pointer-typed variable
\* becomes Ptr(Nil).
Coerce(x, v) == IF IsIntZero(v) /\ x.ty.k = "ptr" THEN PtrV(NilA, 0) ELSE v

\* State::bind finds x in env or glob, or fails with "undefined variable".
Defined(x) == x \in DOMAIN env \cup DOMAIN glob

\* State::bind(x, v) for a defined x: env's if it is there, else glob's.
Bind(x, v) ==
    IF x \in DOMAIN env
    THEN env' = [env EXCEPT ![x] = Coerce(x, v)] /\ UNCHANGED glob
    ELSE glob' = [glob EXCEPT ![x] = Coerce(x, v)] /\ UNCHANGED env

\* State::new_env: a zero-initialized environment for f's locals.
NewEnv(f) == [x \in prog.funcs[f].locals |-> ZeroInit(prog, x.ty)]

\* Mutation of Reserve: n instead of n.max(1).
ReserveExact(n) == n

\* The cells alloc_array reserves for a request of n: n.max(1).
Reserve(n) == IF n > 1 THEN n ELSE 1

\* Mutation of Advance: skips an instruction.
AdvanceTwice == pc' = pc + 2 /\ UNCHANGED <<func, blk>>

Advance == pc' = pc + 1 /\ UNCHANGED <<func, blk>>
Goto(l) == blk' = l /\ pc' = 1 /\ UNCHANGED func

\* Indexing program.functions[f].body with a label panics when the block
\* is missing.
HasBlock(f, l) == l \in DOMAIN prog.funcs[f].body

\* A RuntimeError ends interpret(); a panic ends the process.
Fail(e) == /\ status' = "error" /\ err' = e
           /\ UNCHANGED <<func, blk, pc, env, glob, store, stack, nextAddress,
                          allocs, result, output>>
Panic == /\ status' = "panic"
         /\ UNCHANGED <<func, blk, pc, env, glob, store, stack, nextAddress,
                        allocs, err, result, output>>
Running == UNCHANGED <<status, err, result>>

\* The end of an instruction that binds its result: State::bind, then the
\* next instruction.
BindStep(x, v) ==
    \/ ~Defined(x) /\ Fail("undef")
    \/ Defined(x) /\ Bind(x, v) /\ Advance /\ Running

(* ------------------------- instructions -------------------------------- *)

\* Instruction::Alloc, State::alloc_array: reserve max(n, 1) cells, store n
\* zero-initialized ones, bind lhs to the first.
ExecAlloc ==
    /\ AtInst("alloc")
    /\ LET nv == Eval(CurInst.num) IN
       \/ IntErr(nv) # "none" /\ Fail(IntErr(nv))
       \/ nv.t = "int" /\ nv.n < 0 /\ Fail("negalloc")
       \/ nv.t = "int" /\ nv.n >= 0 /\ ZeroInitFaults(prog, CurInst.id.ty) /\ Panic
       \* alloc_array has run when bind fails; the error ends interpret()
       \/ /\ nv.t = "int" /\ nv.n >= 0 /\ ~ZeroInitFaults(prog, CurInst.id.ty)
          /\ ~Defined(CurInst.lhs) /\ Fail("undef")
       \/ /\ nv.t = "int" /\ nv.n >= 0 /\ ~ZeroInitFaults(prog, CurInst.id.ty)
          /\ Defined(CurInst.lhs)
          /\ LET a == nextAddress
                 cells == a .. (a + nv.n - 1)
                 z == ZeroInit(prog, CurInst.id.ty)
             IN /\ nextAddress' = a + Reserve(nv.n)
                /\ store' = [j \in DOMAIN store \cup cells |->
                               IF j \in cells THEN z ELSE store[j]]
                /\ allocs' = Append(allocs, [base |-> a, n |-> nv.n, ty |-> CurInst.id.ty])
                /\ Bind(CurInst.lhs, PtrV(ToHeap(a), a))
          /\ Advance /\ Running /\ UNCHANGED <<stack, output>>

ArithValue(aop, n1, n2) ==
    CASE aop = "add" -> n1 + n2
      [] aop = "sub" -> n1 - n2
      [] aop = "mul" -> n1 * n2
      [] aop = "div" -> TruncDiv(n1, n2)

\* Instruction::Arith
ExecArith ==
    /\ AtInst("arith")
    /\ LET v1 == Eval(CurInst.op1)
           v2 == Eval(CurInst.op2)
           e == IF IntErr(v1) # "none" THEN IntErr(v1) ELSE IntErr(v2) IN
       \/ e # "none" /\ Fail(e)
       \/ e = "none" /\ CurInst.aop = "div" /\ v2.n = 0 /\ Fail("div0")
       \/ /\ e = "none" /\ ~(CurInst.aop = "div" /\ v2.n = 0)
          /\ BindStep(CurInst.lhs, IntV(ArithValue(CurInst.aop, v1.n, v2.n)))
          /\ UNCHANGED <<heap, stack, output>>

\* Instruction::CallExt: only print(int) and isPythagorean(int,int,int)->int.
\* Every argument is evaluated before the callee is looked at.
ExecCallExt ==
    /\ AtInst("callext")
    /\ LET vs == [k \in 1..Len(CurInst.args) |-> Eval(CurInst.args[k])]
           intArgs == \A k \in 1..Len(vs) : vs[k].t = "int"
           isPrint == CurInst.callee = "print" /\ Len(vs) = 1 /\ CurInst.lhs = <<>>
           isPyth == CurInst.callee = "isPythagorean" /\ Len(vs) = 3 /\ CurInst.lhs # <<>>
           undef == \E k \in 1..Len(vs) : vs[k].t = "undef"
       IN \/ undef /\ Fail("undef")
          \/ ~undef /\ ~isPrint /\ ~isPyth /\ Fail("extern")
          \/ ~undef /\ (isPrint \/ isPyth) /\ ~intArgs /\ Fail("notint")
          \/ /\ isPrint /\ intArgs
             /\ output' = Append(output, vs[1].n)
             /\ Advance /\ Running /\ UNCHANGED <<env, glob, heap, stack>>
          \/ /\ isPyth /\ intArgs
             /\ BindStep(CurInst.lhs[1],
                         IF vs[1].n * vs[1].n + vs[2].n * vs[2].n = vs[3].n * vs[3].n
                         THEN IntV(1) ELSE IntV(0))
             /\ UNCHANGED <<heap, stack, output>>

\* The match of Instruction::Cmp: the -1/0/1 order of two values, or
\* Unordered for the pairs its first five arms do not cover.
Unordered == 2
CmpOrder(v1, v2) ==
    CASE v1.t = "int" /\ v2.t = "int"     -> Sign(v1.n - v2.n)
      [] v1.t = "ptr" /\ v2.t = "ptr"     -> AddrCmp(prog, v1.a, v2.a)
      [] v1.t = "ptr" /\ IsIntZero(v2)    -> AddrCmp(prog, v1.a, NilA)
      [] IsIntZero(v1) /\ v2.t = "ptr"    -> AddrCmp(prog, NilA, v2.a)
      [] v1.t = "fnptr" /\ v2.t = "fnptr" -> Sign(prog.fnRank[v1.f] - prog.fnRank[v2.f])
      [] OTHER -> Unordered

\* The two arms comparing a function pointer with Ptr(Nil) answer "is the
\* operator one of Greater/GreaterEq" (resp. Less/LessEq) instead.
CmpResult(rop, v1, v2) ==
    CASE v1.t = "fnptr" /\ v2.t = "ptr" /\ v2.a = NilA ->
            IF rop \in {"gt", "gte"} THEN IntV(1) ELSE IntV(0)
      [] v1.t = "ptr" /\ v1.a = NilA /\ v2.t = "fnptr" ->
            IF rop \in {"lt", "lte"} THEN IntV(1) ELSE IntV(0)
      [] OTHER -> Compare(rop, CmpOrder(v1, v2))

CmpDefined(v1, v2) ==
    \/ CmpOrder(v1, v2) # Unordered
    \/ v1.t = "fnptr" /\ v2.t = "ptr" /\ v2.a = NilA
    \/ v1.t = "ptr" /\ v1.a = NilA /\ v2.t = "fnptr"

\* Instruction::Cmp
ExecCmp ==
    /\ AtInst("cmp")
    /\ LET v1 == Eval(CurInst.op1)
           v2 == Eval(CurInst.op2)
           undef == v1.t = "undef" \/ v2.t = "undef" IN
       \/ undef /\ Fail("undef")
       \/ ~undef /\ ~CmpDefined(v1, v2) /\ Fail("cmp")
       \/ /\ ~undef /\ CmpDefined(v1, v2)
          /\ BindStep(CurInst.lhs, CmpResult(CurInst.rop, v1, v2))
          /\ UNCHANGED <<heap, stack, output>>

\* Instruction::Copy
ExecCopy ==
    /\ AtInst("copy")
    /\ LET v == Eval(CurInst.src) IN
       \/ v.t = "undef" /\ Fail("undef")
       \/ v.t # "undef" /\ BindStep(CurInst.lhs, v) /\ UNCHANGED <<heap, stack, output>>

\* address + i as u32: the u32 addition overflows exactly when the signed
\* sum of an operand that stands for a value >= 2^31 and one that does not
\* is non-negative, or when both do.  Sums reaching 2^32 from two small
\* non-negative operands are beyond any reachable heap.
\* Mutation of GepOverflows: overflow taken as a negative signed sum.
GepOverflowsSigned(a, i) == a + i < 0

GepOverflows(a, i) ==
    IF a < 0 /\ i < 0 THEN TRUE
    ELSE IF a < 0 \/ i < 0 THEN a + i >= 0 ELSE FALSE

\* Instruction::Gep: only on a heap pointer; the sum panics on overflow in a
\* debug build and wraps in a release build.
ExecGep ==
    /\ AtInst("gep")
    /\ LET iv == Eval(CurInst.idx)
           sv == Lookup(CurInst.src) IN
       \/ IntErr(iv) # "none" /\ Fail(IntErr(iv))
       \/ iv.t = "int" /\ sv.t = "undef" /\ Fail("undef")
       \/ /\ iv.t = "int" /\ sv.t # "undef" /\ ~(sv.t = "ptr" /\ sv.a.k = "heap")
          /\ Fail("notheap")
       \/ /\ iv.t = "int" /\ sv.t = "ptr" /\ sv.a.k = "heap"
          /\ GepOverflows(sv.a.i, iv.n) /\ build = "debug"
          /\ Panic
       \/ /\ iv.t = "int" /\ sv.t = "ptr" /\ sv.a.k = "heap"
          /\ ~(GepOverflows(sv.a.i, iv.n) /\ build = "debug")
          /\ BindStep(CurInst.lhs, PtrV(ToHeap(sv.a.i + iv.n), sv.prov))
          /\ UNCHANGED <<heap, stack, output>>

\* Instruction::Gfp: a field address of any pointer, without dereferencing.
ExecGfp ==
    /\ AtInst("gfp")
    /\ LET sv == Lookup(CurInst.src) IN
       \/ sv.t = "undef" /\ Fail("undef")
       \/ sv.t \notin {"ptr", "undef"} /\ Fail("notptr")
       \/ /\ sv.t = "ptr"
          /\ BindStep(CurInst.lhs, PtrV(FieldA(sv.a, CurInst.field), sv.prov))
          /\ UNCHANGED <<heap, stack, output>>

\* Instruction::Load through State::value_ref.
ExecLoad ==
    /\ AtInst("load")
    /\ LET sv == Lookup(CurInst.src) IN
       \/ sv.t = "undef" /\ Fail("undef")
       \/ sv.t \notin {"ptr", "undef"} /\ Fail("notptr")
       \/ sv.t = "ptr" /\ RefError(store, sv.a) # "none" /\ Fail(RefError(store, sv.a))
       \/ /\ sv.t = "ptr" /\ RefError(store, sv.a) = "none"
          /\ BindStep(CurInst.lhs, ValueAtRef(store, sv.a))
          /\ UNCHANGED <<heap, stack, output>>

\* Instruction::Store through State::update_store; the value is stored as
\* evaluated (no nil rule).
ExecStore ==
    /\ AtInst("store")
    /\ LET v == Eval(CurInst.src)
           dv == Lookup(CurInst.dst) IN
       \/ (v.t = "undef" \/ dv.t = "undef") /\ Fail("undef")
       \/ v.t # "undef" /\ dv.t \notin {"ptr", "undef"} /\ Fail("notptr")
       \/ /\ v.t # "undef" /\ dv.t = "ptr" /\ RefError(store, dv.a) # "none"
          /\ Fail(RefError(store, dv.a))
       \/ /\ v.t # "undef" /\ dv.t = "ptr" /\ RefError(store, dv.a) = "none"
          /\ store' = UpdateAt(store, dv.a, v)
          /\ Advance /\ Running
          /\ UNCHANGED <<env, glob, nextAddress, allocs, stack, output>>

\* Instruction::Phi is unreachable!, Instruction::AddrOf unimplemented!.
ExecUnsupported ==
    /\ AtInst("phi") \/ AtInst("addrof")
    /\ Panic

(* --------------------------- terminals --------------------------------- *)

\* Terminal::Branch: a non-zero int selects tt.
\* Mutation of BranchTarget: targets swapped.
BranchTargetSwapped(c, t) == IF c.n = 0 THEN t.tt ELSE t.ff

BranchTarget(c, t) == IF c.n = 0 THEN t.ff ELSE t.tt

ExecBranch ==
    /\ AtTerm("branch")
    /\ LET c == Eval(CurTerm.cond) IN
       \/ IntErr(c) # "none" /\ Fail(IntErr(c))
       \/ c.t = "int" /\ ~HasBlock(func, BranchTarget(c, CurTerm)) /\ Panic
       \/ /\ c.t = "int" /\ HasBlock(func, BranchTarget(c, CurTerm))
          /\ Goto(BranchTarget(c, CurTerm))
          /\ Running /\ UNCHANGED <<env, glob, heap, stack, output>>

\* Mutation of CalleeEnv: the arguments bound to the parameters in reverse
\* order.
CalleeEnvReversed(callee, args) ==
    LET ps == prog.funcs[callee].params
        rargs == Reverse(args) IN
    [x \in prog.funcs[callee].locals \cup ParamSet(prog.funcs[callee]) |->
        IF \E k \in 1..Len(ps) : ps[k] = x
        THEN Eval(rargs[CHOOSE k \in 1..Len(ps) : ps[k] = x])
        ELSE ZeroInit(prog, x.ty)]

\* The callee's environment in State::call: new_env's zero-initialized
\* locals, with each parameter inserted as its argument evaluates (no nil
\* rule).
CalleeEnv(callee, args) ==
    LET ps == prog.funcs[callee].params IN
    [x \in prog.funcs[callee].locals \cup ParamSet(prog.funcs[callee]) |->
        IF \E k \in 1..Len(ps) : ps[k] = x
        THEN Eval(args[CHOOSE k \in 1..Len(ps) : ps[k] = x])
        ELSE ZeroInit(prog, x.ty)]

\* State::call, in the code's order: new_env indexes program.functions and
\* zero-initializes the callee's locals (a panic if either fails), the
\* arity assert_eq!, the arguments evaluated ("undefined variable"), then
\* the resume block of the caller and the callee's entry block indexed
\* (a panic if missing), the call site pushed.
Call(lhs, callee, args, next) ==
    LET before == IF callee \notin DOMAIN prog.funcs THEN TRUE
                  ELSE \/ \E x \in prog.funcs[callee].locals : ZeroInitFaults(prog, x.ty)
                       \/ Len(prog.funcs[callee].params) # Len(args)
        undef == \E k \in 1..Len(args) : Eval(args[k]).t = "undef"
        after == ~HasBlock(func, next) \/ ~HasBlock(callee, "entry")
    IN
    \/ before /\ Panic
    \/ ~before /\ undef /\ Fail("undef")
    \/ ~before /\ ~undef /\ after /\ Panic
    \/ /\ ~before /\ ~undef /\ ~after
       /\ env' = CalleeEnv(callee, args)
       /\ stack' = Append(stack, [next |-> next, dst |-> lhs, env |-> env, func |-> func])
       /\ func' = callee /\ blk' = "entry" /\ pc' = 1
       /\ Running /\ UNCHANGED <<glob, heap, output>>

\* Terminal::CallDirect
ExecCallDirect ==
    /\ AtTerm("calldir")
    /\ Call(CurTerm.lhs, CurTerm.callee, CurTerm.args, CurTerm.next)

\* Terminal::CallIndirect: the callee variable must hold a function pointer.
ExecCallIndirect ==
    /\ AtTerm("callidr")
    /\ LET fv == Lookup(CurTerm.calleeVar) IN
       \/ fv.t = "undef" /\ Fail("undef")
       \/ fv.t \notin {"fnptr", "undef"} /\ Fail("notfn")
       \/ fv.t = "fnptr" /\ Call(CurTerm.lhs, fv.f, CurTerm.args, CurTerm.next)

\* Terminal::Jump
ExecJump ==
    /\ AtTerm("jump")
    /\ \/ ~HasBlock(func, CurTerm.target) /\ Panic
       \/ /\ HasBlock(func, CurTerm.target) /\ Goto(CurTerm.target)
          /\ Running /\ UNCHANGED <<env, glob, heap, stack, output>>

\* Terminal::Ret(None): pop the call site (error if none), assert that it
\* wants no value, resume the caller.
ExecRetNone ==
    /\ AtTerm("ret") /\ CurTerm.val = <<>>
    /\ \/ stack = <<>> /\ Fail("noret")
       \/ stack # <<>> /\ Last(stack).dst # <<>> /\ Panic
       \/ /\ stack # <<>> /\ Last(stack).dst = <<>>
          /\ LET cs == Last(stack) IN
             /\ func' = cs.func /\ blk' = cs.next /\ pc' = 1
             /\ env' = cs.env
             /\ stack' = Front(stack)
          /\ Running /\ UNCHANGED <<glob, heap, output>>

\* Terminal::Ret(Some(e)): evaluate e in the callee, then resume the caller
\* and bind the destination there; with no caller, main's int is the result.
\* The assert_eq!(func, "main") cannot fail: the stack is empty only in the
\* activation State::new starts, main's, as every call pushes a frame.
ExecRetSome ==
    /\ AtTerm("ret") /\ CurTerm.val # <<>>
    /\ LET v == Eval(CurTerm.val[1])
           cs == Last(stack)
           lost == cs.dst # <<>> /\ cs.dst[1] \notin DOMAIN cs.env \cup DOMAIN glob IN
       \/ v.t = "undef" /\ Fail("undef")
       \* the caller's frame is restored before bind fails; the error ends
       \* interpret()
       \/ v.t # "undef" /\ stack # <<>> /\ lost /\ Fail("undef")
       \/ /\ v.t # "undef" /\ stack # <<>> /\ ~lost
          /\ func' = cs.func /\ blk' = cs.next /\ pc' = 1
          /\ stack' = Front(stack)
          /\ IF cs.dst = <<>>
             THEN env' = cs.env /\ UNCHANGED glob
             ELSE IF cs.dst[1] \in DOMAIN cs.env
                  THEN env' = [cs.env EXCEPT ![cs.dst[1]] = Coerce(cs.dst[1], v)]
                       /\ UNCHANGED glob
                  ELSE env' = cs.env
                       /\ glob' = [glob EXCEPT ![cs.dst[1]] = Coerce(cs.dst[1], v)]
          /\ Running /\ UNCHANGED <<heap, output>>
       \/ /\ stack = <<>> /\ func = "main" /\ v.t \notin {"int", "undef"}
          /\ Fail("mainret")
       \/ /\ stack = <<>> /\ func = "main" /\ v.t = "int"
          /\ status' = "done" /\ result' = v.n
          /\ UNCHANGED <<func, blk, pc, env, glob, heap, stack, output, err>>

(* ---------------------------- specification ---------------------------- *)

\* State::new panics when there is no main or no entry block in it, or
\* when zero_init fails for a global (every global is zero-initialized,
\* those named after a function included) or for a local of main.
NewPanics ==
    \/ "main" \notin DOMAIN prog.funcs
    \/ ~HasBlock("main", "entry")
    \/ \E g \in prog.globals : ZeroInitFaults(prog, g.ty)
    \/ \E x \in prog.funcs["main"].locals : ZeroInitFaults(prog, x.ty)

\* State::new: main's entry block, main's locals, the globals zero-
\* initialized except those named after a function, which point to it.
Init ==
    /\ prog \in Programs
    /\ build \in Builds
    /\ func = "main" /\ blk = "entry" /\ pc = 1
    /\ IF NewPanics
       THEN env = [x \in {} |-> IntV(0)] /\ glob = [x \in {} |-> IntV(0)]
       ELSE /\ env = NewEnv("main")
            /\ glob = [g \in prog.globals |->
                         IF g.name \in DOMAIN prog.funcs THEN FnPtrV(g.name)
                         ELSE ZeroInit(prog, g.ty)]
    /\ store = [j \in {} |-> IntV(0)]
    /\ stack = <<>>
    /\ nextAddress = 1
    /\ allocs = <<>>
    /\ status = IF NewPanics THEN "panic" ELSE "running"
    /\ err = "none" /\ result = 0
    /\ output = <<>>
    /\ steps = 0

Step ==
    \/ ExecAlloc \/ ExecArith \/ ExecCallExt \/ ExecCmp \/ ExecCopy
    \/ ExecGep \/ ExecGfp \/ ExecLoad \/ ExecStore \/ ExecUnsupported
    \/ ExecBranch \/ ExecCallDirect \/ ExecCallIndirect \/ ExecJump
    \/ ExecRetNone \/ ExecRetSome

\* interpret(): step while running; the step bound is the model's, not the code's.
Next ==
    /\ status = "running" /\ steps < MaxSteps
    /\ Step
    /\ steps' = steps + 1
    /\ UNCHANGED <<prog, build>>

\* interpret() calls step() again as long as it returns Ok(None): a running
\* interpreter always takes its next step.
Spec == Init /\ [][Next]_vars /\ WF_vars(Next)

(* ------------------------------ properties ----------------------------- *)

TypeOK ==
    /\ prog \in Programs /\ build \in Builds
    /\ func \in DOMAIN prog.funcs /\ blk \in DOMAIN prog.funcs[func].body
    /\ pc \in 1..(Len(Insts) + 1)
    /\ status \in Statuses /\ result \in Int
    /\ output \in Seq(Int)
    /\ nextAddress \in Nat \ {0}
    /\ DOMAIN store \subseteq 1..(nextAddress - 1)
    /\ \A k \in DOMAIN stack : /\ stack[k].func \in DOMAIN prog.funcs
                              /\ stack[k].next \in DOMAIN prog.funcs[stack[k].func].body
    /\ err \in ErrKinds
    /\ steps \in 0..MaxSteps

Frames == {env} \cup {stack[k].env : k \in DOMAIN stack}

\* The type of function f as a value of a function-pointer variable.
FnType(f) == FnT(prog.funcs[f].ret, ParamTys(prog.funcs[f].params))
IsNilLike(v) == IsIntZero(v) \/ (v.t = "ptr" /\ v.a = NilA)

\* A runtime value inhabits a static LIR type; 0 stands for nil.
RECURSIVE Conforms(_, _)
Conforms(v, ty) ==
    CASE ty.k = "int" -> v.t = "int"
      [] ty.k = "ptr" /\ ty.to.k = "fn" ->
            IsNilLike(v) \/ (v.t = "fnptr" /\ FnType(v.f) = ty.to)
      [] ty.k = "ptr" -> IsNilLike(v) \/ v.t = "ptr"
      [] ty.k = "struct" ->
            /\ v.t = "struct" /\ DOMAIN v.fs = prog.structs[ty.s]
            /\ \A fd \in DOMAIN v.fs : Conforms(v.fs[fd], fd.ty)
      [] OTHER -> FALSE

\* A pointer that can be dereferenced reaches a value of its pointee type.
TargetConforms(v, ty) ==
    (ty.k = "ptr" /\ v.t = "ptr" /\ RefError(store, v.a) = "none")
        => Conforms(ValueAtRef(store, v.a), ty.to)

Cells(r) == r.base .. (r.base + r.n - 1)

\* Type soundness of validate + interpret: in a program lir::validate
\* accepts, every variable of every frame and every global holds a value of
\* its declared type, pointing at a value of the pointee type, and every
\* heap cell holds a value of its allocation's type, after any number of
\* steps (Instruction::Store and State::call bind values without bind's nil
\* rule, Load/Gep/Gfp/Ret move values between frames and the heap).
RuntimeWellTyped ==
    Valid(prog) =>
        /\ \A e \in Frames \cup {glob} : \A x \in DOMAIN e :
              Conforms(e[x], x.ty) /\ TargetConforms(e[x], x.ty)
        /\ \A k \in DOMAIN allocs : \A j \in Cells(allocs[k]) :
              Conforms(store[j], allocs[k].ty)

\* alloc_array hands every allocation a fresh base address below
\* next_address, even for a request of 0 cells (so pointers from distinct
\* allocations never compare equal), allocations never share a cell, and
\* the store holds exactly the cells of the allocations.
DistinctAllocations ==
    /\ \A k1, k2 \in DOMAIN allocs :
          k1 # k2 => /\ allocs[k1].base # allocs[k2].base
                     /\ Cells(allocs[k1]) \cap Cells(allocs[k2]) = {}
    /\ \A k \in DOMAIN allocs : allocs[k].base + allocs[k].n <= nextAddress
                               /\ allocs[k].base < nextAddress
    /\ DOMAIN store = UNION {Cells(allocs[k]) : k \in DOMAIN allocs}

\* The heap index an address is based on (0 for nil).
RECURSIVE BaseIndex(_)
BaseIndex(a) == CASE a.k = "nil" -> 0 [] a.k = "heap" -> a.i
                  [] a.k = "field" -> BaseIndex(a.base)

\* In a program that validates, every pointer held in a variable that can be
\* dereferenced reaches a cell of the allocation it was derived from (Gep
\* computes address + i with no bounds information, value_ref only checks
\* that a cell exists): the spec's allocation/indexing law.
SpatialSafety ==
    Valid(prog) =>
    \A e \in Frames \cup {glob} : \A x \in DOMAIN e :
        LET v == e[x] IN
        (v.t = "ptr" /\ v.a # NilA /\ BaseIndex(v.a) \in DOMAIN store)
            => \E k \in DOMAIN allocs :
                  allocs[k].base = v.prov /\ BaseIndex(v.a) \in Cells(allocs[k])

\* When interpret() ends, its outcome (the Ok value, the printed lines, or
\* the kind of RuntimeError or panic) is the one the spec prescribes.
ExpectedOutcome ==
    status # "running" =>
        [status |-> status, result |-> result, output |-> output, err |-> err] = prog.expect

\* A program that validates never makes the interpreter panic (the
\* assert!s of Ret and call, unreachable!, u32 overflow): it ends with a
\* result or a RuntimeError.
NoInternalFault == Valid(prog) => status # "panic"

\* interpret() returns for every program of the suite (they all terminate).
Terminates == <>(status # "running")
=============================================================================
