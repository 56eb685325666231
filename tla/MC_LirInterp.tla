---------------------------- MODULE MC_LirInterp ----------------------------
(***************************************************************************)
(* Programs for model checking LirInterp.  Each is the LIR that the        *)
(* lowering of a small CFlat program produces (or a hand-written LIR file  *)
(* given to liri), with the outcome the spec prescribes for it.  The       *)
(* suites:                                                                 *)
(*   Sound    - programs that validate, covering every instruction and     *)
(*              terminal and their RuntimeError paths;                     *)
(*   Unsound  - programs lir::validate rejects, as liri runs them anyway;  *)
(*   and one suite per disagreement between the code and the spec.         *)
(***************************************************************************)
EXTENDS LirInterp, LirText, TLC

\* A variable of function f (its scope folded into the name) or a global.
V(f, n, ty) == LocalVar(f, n, ty)
G(n, ty) == Var(n, ty)
B(insts, term) == [insts |-> insts, term |-> term]
Fun(params, locals, ret, body) ==
    [params |-> params, locals |-> locals, ret |-> ret, body |-> body]
Expect(st, res, out, e) == [status |-> st, result |-> res, output |-> out, err |-> e]
Done(res, out) == Expect("done", res, out, "none")
Error(e) == Expect("error", 0, <<>>, e)
PanicE == Expect("panic", 0, <<>>, "none")

PI == PtrT(IntT)
VoidFn == FnT(<<>>, <<>>)
Externs == ("print" :> FnT(<<>>, <<IntT>>))
           @@ ("isPythagorean" :> FnT(<<IntT>>, <<IntT, IntT, IntT>>))
Prog(funcs, globals, structs, expect) ==
    [funcs |-> funcs, globals |-> globals, structs |-> structs,
     externs |-> Externs, fnRank |-> [f \in DOMAIN funcs |-> 0],
     fieldRank |-> [f \in UNION {structs[s] : s \in DOMAIN structs} |-> 0],
     expect |-> expect]
\* A program whose main is one block: the instructions, then return r.
MainOnly(locals, insts, r, structs, expect) ==
    Prog("main" :> Fun(<<>>, locals, <<IntT>>, "entry" :> B(insts, Ret(<<r>>))),
         {}, structs, expect)

(* -------- build a K-node list in a loop, sum it recursively ------------ *)
Node == StructT("node")
FVal == Field("val", IntT)
FNext == Field("next", PtrT(Node))
NodeS == "node" :> {FVal, FNext}
SumTy == FnT(<<IntT>>, <<PtrT(Node)>>)

mHead == V("main", "head", PtrT(Node))
mN == V("main", "n", PtrT(Node))
mI == V("main", "i", IntT)
mC == V("main", "c", IntT)
mR == V("main", "r", IntT)
mPv == V("main", "pv", PI)
mPn == V("main", "pn", PtrT(PtrT(Node)))
sP == V("sum", "p", PtrT(Node))
sC == V("sum", "c", IntT)
sV == V("sum", "v", IntT)
sS == V("sum", "s", IntT)
sT == V("sum", "t", IntT)
sNx == V("sum", "nx", PtrT(Node))
sPv == V("sum", "pv", PI)
sPn == V("sum", "pn", PtrT(PtrT(Node)))
gSum == G("sum", PtrT(SumTy))

SumFun ==
    Fun(<<sP>>, {sC, sV, sS, sT, sNx, sPv, sPn}, <<IntT>>,
        ("entry" :> B(<<Cmp(sC, "eq", OVar(sP), CInt(0))>>, Branch(OVar(sC), "base", "rec")))
     @@ ("base" :> B(<<Copy(sT, CInt(0))>>, Jump("exit")))
     @@ ("rec" :> B(<<Gfp(sPv, sP, FVal), Load(sV, sPv), CallExt(<<>>, "print", <<OVar(sV)>>),
                     Gfp(sPn, sP, FNext), Load(sNx, sPn)>>,
                   CallDirect(<<sS>>, "sum", <<OVar(sNx)>>, "add")))
     @@ ("add" :> B(<<Arith(sT, "add", OVar(sV), OVar(sS))>>, Jump("exit")))
     @@ ("exit" :> B(<<>>, Ret(<<OVar(sT)>>))))

ListMain(K, indirect) ==
    Fun(<<>>, {mHead, mN, mI, mC, mR, mPv, mPn}, <<IntT>>,
        ("entry" :> B(<<Copy(mI, CInt(0))>>, Jump("loop")))
     @@ ("loop" :> B(<<Cmp(mC, "lt", OVar(mI), CInt(K))>>, Branch(OVar(mC), "body", "done")))
     @@ ("body" :> B(<<Alloc(mN, CInt(1), "node1"), Gfp(mPv, mN, FVal), Store(mPv, OVar(mI)),
                      Gfp(mPn, mN, FNext), Store(mPn, OVar(mHead)), Copy(mHead, OVar(mN)),
                      Arith(mI, "add", OVar(mI), CInt(1))>>, Jump("loop")))
     @@ ("done" :> B(<<>>, IF indirect THEN CallIndirect(<<mR>>, gSum, <<OVar(mHead)>>, "exit")
                          ELSE CallDirect(<<mR>>, "sum", <<OVar(mHead)>>, "exit")))
     @@ ("exit" :> B(<<>>, Ret(<<OVar(mR)>>))))

ListSum(K, indirect) ==
    Prog(("main" :> ListMain(K, indirect)) @@ ("sum" :> SumFun),
         IF indirect THEN {gSum} ELSE {}, NodeS,
         Done((K * (K - 1)) \div 2, [j \in 1..K |-> K - j]))

(* --------- x = new int 2; y = new int N; z = new int 1; y[I] = 7 --------- *)
aX == V("main", "x", PI)
aY == V("main", "y", PI)
aZ == V("main", "z", PI)
aP == V("main", "p", PI)
aV == V("main", "v", IntT)
Arr(N, I) ==
    MainOnly({aX, aY, aZ, aP, aV},
             <<Alloc(aX, CInt(2), "ax"), Alloc(aY, CInt(N), "ay"), Alloc(aZ, CInt(1), "az"),
               Gep(aP, aY, CInt(I)), Store(aP, CInt(7)), Load(aV, aP)>>,
             OVar(aV), <<>>,
             \* the allocation/indexing law of the spec
             IF 0 <= I /\ I < N THEN Done(7, <<>>) ELSE Error("oob"))

(* ----------------- arithmetic, allocation counts, nil -------------------- *)
xA == V("main", "a", IntT)
xB == V("main", "b", IntT)
xP == V("main", "p", PI)
xQ == V("main", "q", PI)
\* (0 - 7) / 2 truncates toward zero
DivNeg == MainOnly({xA, xB}, <<Arith(xA, "sub", CInt(0), CInt(7)),
                                Arith(xB, "div", OVar(xA), CInt(2))>>,
                   OVar(xB), <<>>, Done(-3, <<>>))
\* the division-by-zero law
DivZero == MainOnly({xA, xB}, <<Copy(xA, CInt(5)), Arith(xB, "div", OVar(xA), CInt(0))>>,
                    OVar(xB), <<>>, Error("div0"))
NegAlloc == MainOnly({xA, xP}, <<Arith(xA, "sub", CInt(0), CInt(1)), Alloc(xP, OVar(xA), "s1")>>,
                     CInt(0), <<>>, Error("negalloc"))
\* a nil pointer variable, then a gep of it (not a heap pointer)
NilLoad == MainOnly({xA, xP}, <<Load(xA, xP)>>, OVar(xA), <<>>, Error("nil"))
NilGep == MainOnly({xP, xQ}, <<Gep(xQ, xP, CInt(1))>>, CInt(0), <<>>, Error("notheap"))

(* ---- struct pt { x: int, self: &pt }: a = new pt; a.self = a; a.self.x ---- *)
Pt == StructT("pt")
FX == Field("x", IntT)
FSelf == Field("self", PtrT(Pt))
PtS == "pt" :> {FX, FSelf}
pA == V("main", "a", PtrT(Pt))
pB == V("main", "b", PtrT(Pt))
pS == V("main", "s", PtrT(PtrT(Pt)))
pX == V("main", "x", PI)
pY == V("main", "y", PI)
pR == V("main", "r", IntT)
SelfRef == MainOnly({pA, pB, pS, pX, pY, pR},
    <<Alloc(pA, CInt(1), "pt1"), Gfp(pS, pA, FSelf), Store(pS, OVar(pA)),
      Gfp(pX, pA, FX), Store(pX, CInt(9)), Load(pB, pS), Gfp(pY, pB, FX), Load(pR, pY)>>,
    OVar(pR), PtS, Done(9, <<>>))
\* q.self is nil after zero-initialization: q.self.x dereferences nil
NilField == MainOnly({pA, pB, pS, pX, pR},
    <<Alloc(pA, CInt(1), "pt1"), Gfp(pS, pA, FSelf), Load(pB, pS), Gfp(pX, pB, FX),
      Load(pR, pX)>>, OVar(pR), PtS, Error("nil"))

(* ------- the compare2 test: fn pointers, nil and a void call ------------- *)
gFoo == G("foo", PtrT(VoidFn))
cP == V("main", "p", PtrT(VoidFn))
cQ == V("main", "q", PtrT(VoidFn))
cX == V("main", "x", IntT)
cR == V("main", "r", PI)
cC(k) == V("main", "c" \o ToString(k), IntT)
cT == V("main", "t", IntT)
FooFun == Fun(<<>>, {}, <<>>, "entry" :> B(<<>>, Ret(<<>>)))
Compare2 ==
    Prog(("main" :> Fun(<<>>, {cP, cQ, cX, cR, cT} \cup {cC(k) : k \in 1..4}, <<IntT>>,
            ("entry" :> B(<<Copy(cP, OVar(gFoo)), Alloc(cR, CInt(1), "r1")>>,
                          CallDirect(<<>>, "foo", <<>>, "cmp")))
         @@ ("cmp" :> B(<<Cmp(cC(1), "gt", OVar(cX), CInt(-2)), Cmp(cC(2), "eq", OVar(cP), OVar(cQ)),
                          Cmp(cC(3), "lt", OVar(cQ), OVar(cP)), Cmp(cC(4), "eq", OVar(cR), CInt(0)),
                          Arith(cT, "mul", OVar(cC(4)), CInt(10)), Arith(cT, "add", OVar(cT), OVar(cC(3))),
                          Arith(cT, "mul", OVar(cT), CInt(10)), Arith(cT, "add", OVar(cT), OVar(cC(2))),
                          Arith(cT, "mul", OVar(cT), CInt(10)), Arith(cT, "add", OVar(cT), OVar(cC(1)))>>,
                        Ret(<<OVar(cT)>>)))))
         @@ ("foo" :> FooFun),
         {gFoo}, <<>>, Done(101, <<>>))
\* calling a nil function-pointer variable
CallNil ==
    Prog(("main" :> Fun(<<>>, {cQ, cX}, <<IntT>>,
            ("entry" :> B(<<>>, CallIndirect(<<>>, cQ, <<>>, "exit")))
         @@ ("exit" :> B(<<>>, Ret(<<OVar(cX)>>)))))
         @@ ("foo" :> FooFun),
         {gFoo}, <<>>, Error("notfn"))

(* ------ void setVal(p: &int, v: int) { *p = v; }, called on new int ------ *)
vP == V("setVal", "p", PI)
vV == V("setVal", "v", IntT)
SetVal ==
    Prog(("main" :> Fun(<<>>, {xP, xA}, <<IntT>>,
            ("entry" :> B(<<Alloc(xP, CInt(1), "v1")>>,
                          CallDirect(<<>>, "setVal", <<OVar(xP), CInt(5)>>, "exit")))
         @@ ("exit" :> B(<<Load(xA, xP)>>, Ret(<<OVar(xA)>>)))))
         @@ ("setVal" :> Fun(<<vP, vV>>, {}, <<>>,
                             "entry" :> B(<<Store(vP, OVar(vV))>>, Ret(<<>>)))),
         {}, <<>>, Done(5, <<>>))

(* ------------------------------ externs ---------------------------------- *)
Pyth == MainOnly({xA}, <<CallExt(<<xA>>, "isPythagorean", <<CInt(3), CInt(4), CInt(5)>>),
                         CallExt(<<>>, "print", <<OVar(xA)>>)>>,
                 OVar(xA), <<>>, Done(1, <<1>>))
\* isPythagorean called without binding its result is not in the list
PythNoLhs == MainOnly({xA}, <<CallExt(<<>>, "isPythagorean", <<CInt(3), CInt(4), CInt(6)>>)>>,
                      CInt(0), <<>>, Error("extern"))
(* -- int inc() { cnt = cnt + 1; return cnt; }: inc(); res = inc(); res -- *)
gCnt == G("cnt", IntT)
gRes == G("res", IntT)
Counter ==
    Prog(("main" :> Fun(<<>>, {}, <<IntT>>,
            ("entry" :> B(<<>>, CallDirect(<<>>, "inc", <<>>, "again")))
         @@ ("again" :> B(<<>>, CallDirect(<<gRes>>, "inc", <<>>, "exit")))
         @@ ("exit" :> B(<<>>, Ret(<<OVar(gRes)>>)))))
         @@ ("inc" :> Fun(<<>>, {}, <<IntT>>,
                "entry" :> B(<<Arith(gCnt, "add", OVar(gCnt), CInt(1))>>, Ret(<<OVar(gCnt)>>)))),
         {gCnt, gRes}, <<>>, Done(2, <<>>))

NilStore == MainOnly({xP}, <<Store(xP, CInt(1))>>, CInt(0), <<>>, Error("nil"))

(* ------- programs lir::validate rejects, which liri still runs ---------- *)
\* one block of main: a single ill-typed instruction
Ill(insts, structs, e) == MainOnly({xA, xB, xP, xQ, pA, pX}, insts, CInt(0), structs, e)
\* main calling foo: () -> _ with the given lhs and arguments
IllCall(lhs, args, indirect, e) ==
    Prog(("main" :> Fun(<<>>, {xA}, <<IntT>>,
            ("entry" :> B(<<>>, IF indirect THEN CallIndirect(lhs, gFoo, args, "exit")
                                ELSE CallDirect(lhs, "foo", args, "exit")))
         @@ ("exit" :> B(<<>>, Ret(<<OVar(xA)>>)))))
         @@ ("foo" :> FooFun), {gFoo}, <<>>, e)
\* main's single block ends with the given terminal
IllMain(term, e) ==
    Prog("main" :> Fun(<<>>, {xA, xP}, <<IntT>>,
                       ("entry" :> B(<<>>, term)) @@ ("exit" :> B(<<>>, Ret(<<OVar(xA)>>)))),
         {}, <<>>, e)
Unsound == {
    Ill(<<Alloc(xP, OVar(xQ), "u1")>>, <<>>, Error("notint")),
    Ill(<<Alloc(xP, CInt(1), "u1"), Arith(xA, "add", OVar(xP), CInt(1))>>, <<>>, Error("notint")),
    Ill(<<CallExt(<<>>, "print", <<OVar(xP)>>)>>, <<>>, Error("notint")),
    Ill(<<Copy(xB, CInt(3)), Cmp(xA, "eq", OVar(xB), OVar(xP))>>, <<>>, Error("cmp")),
    Ill(<<Alloc(xP, CInt(1), "u1"), Gep(xQ, xP, OVar(xP))>>, <<>>, Error("notint")),
    Ill(<<Gfp(pX, xA, FX)>>, PtS, Error("notptr")),
    Ill(<<Load(xB, xA)>>, <<>>, Error("notptr")),
    Ill(<<Store(xA, CInt(1))>>, <<>>, Error("notptr")),
    Ill(<<Alloc(xP, CInt(1), "u1"), Gfp(pX, xP, FX), Load(xA, pX)>>, PtS, Error("notstruct")),
    Ill(<<Alloc(pA, CInt(1), "u1"), Gfp(pX, pA, FVal), Load(xA, pX)>>, PtS, Error("nofield")),
    Ill(<<Phi(xA, <<>>)>>, <<>>, PanicE),
    \* a struct with a function-typed field cannot be zero-initialized
    MainOnly({V("main", "f", PtrT(StructT("fs")))},
             <<Alloc(V("main", "f", PtrT(StructT("fs"))), CInt(1), "u1")>>, CInt(0),
             "fs" :> {Field("f", VoidFn)}, PanicE),
    Ill(<<AddrOf(xA, xB)>>, <<>>, PanicE),
    IllMain(Branch(OVar(xP), "exit", "exit"), Error("notint")),
    IllMain(Ret(<<>>), Error("noret")),
    IllMain(Ret(<<OVar(xP)>>), Error("mainret")),
    IllCall(<<xA>>, <<>>, FALSE, PanicE),
    IllCall(<<>>, <<CInt(1)>>, FALSE, PanicE),
    IllCall(<<>>, <<CInt(2)>>, TRUE, PanicE),
    \* y[-1] with y the second allocation: a debug build panics in the
    \* address arithmetic, a release build reaches the phi
    Ill(<<Alloc(xP, CInt(1), "u1"), Alloc(xQ, CInt(1), "u2"), Gep(xQ, xQ, CInt(-1)),
          Load(xA, xQ), Phi(xA, <<>>)>>, <<>>, PanicE)}

\* Programs naming variables that are not declared, or blocks and functions
\* that do not exist (check_declared and check_terminators reject them).
zz == V("main", "zz", IntT)
zp == V("main", "zp", PI)
kFun == Fun(<<>>, {}, <<IntT>>, "entry" :> B(<<>>, Ret(<<CInt(1)>>)))
\* main calls callee with the given arguments and resume block
CallsTo(lhs, callee, args, next, e) ==
    Prog(("main" :> Fun(<<>>, {xA, xP}, <<IntT>>,
            ("entry" :> B(<<Alloc(xP, CInt(1), "v1")>>, CallDirect(lhs, callee, args, next)))
         @@ ("exit" :> B(<<>>, Ret(<<OVar(xA)>>)))))
         @@ ("setVal" :> Fun(<<vP, vV>>, {}, <<>>,
                             "entry" :> B(<<Store(vP, OVar(vV))>>, Ret(<<>>))))
         @@ ("k" :> kFun), {}, <<>>, e)
Undeclared == {
    Ill(<<Copy(zz, CInt(1))>>, <<>>, Error("undef")),
    Ill(<<Copy(xA, OVar(zz))>>, <<>>, Error("undef")),
    \* alloc_array runs, then bind finds no zp
    Ill(<<Alloc(zp, CInt(1), "u1")>>, <<>>, Error("undef")),
    \* op1 is evaluated first: not an int, before zz is looked up
    Ill(<<Arith(xA, "add", OVar(xP), OVar(zz))>>, <<>>, Error("notint")),
    \* the arguments are evaluated before the extern's name is checked
    Ill(<<CallExt(<<>>, "puts", <<OVar(zz)>>)>>, <<>>, Error("undef")),
    Ill(<<Cmp(xA, "eq", OVar(zz), OVar(xP))>>, <<>>, Error("undef")),
    Ill(<<Gep(xQ, zp, CInt(0))>>, <<>>, Error("undef")),
    Ill(<<Gfp(pX, zp, FX)>>, PtS, Error("undef")),
    Ill(<<Load(xA, zp)>>, <<>>, Error("undef")),
    Ill(<<Store(zp, CInt(1))>>, <<>>, Error("undef")),
    IllMain(Branch(OVar(zz), "exit", "exit"), Error("undef")),
    IllMain(Branch(CInt(1), "nowhere", "exit"), PanicE),
    IllMain(Jump("nowhere"), PanicE),
    IllMain(CallIndirect(<<>>, zp, <<>>, "exit"), Error("undef")),
    IllMain(Ret(<<OVar(zz)>>), Error("undef")),
    CallsTo(<<>>, "nofn", <<>>, "exit", PanicE),
    CallsTo(<<>>, "setVal", <<OVar(xP), OVar(zz)>>, "exit", Error("undef")),
    CallsTo(<<>>, "setVal", <<OVar(xP), CInt(1)>>, "nowhere", PanicE),
    \* the arity assert_eq! comes before the arguments are evaluated, and
    \* the arguments before the resume block is looked up
    CallsTo(<<>>, "setVal", <<OVar(zz)>>, "exit", PanicE),
    CallsTo(<<>>, "setVal", <<OVar(xP), OVar(zz)>>, "nowhere", Error("undef")),
    \* k returns into a destination the caller does not have
    CallsTo(<<zz>>, "k", <<>>, "exit", Error("undef")),
    \* State::new zero-initializes a function-typed global: unreachable!
    Prog("main" :> Fun(<<>>, {xA}, <<IntT>>, "entry" :> B(<<>>, Ret(<<OVar(xA)>>))),
         {G("gf", VoidFn)}, <<>>, PanicE)}

Sound == {ListSum(0, FALSE), ListSum(3, FALSE), ListSum(2, TRUE),
          Arr(2, 0), Arr(2, 1), Arr(0, 0), Arr(1, 2), Arr(2, -4),
          DivNeg, DivZero, NegAlloc, NilLoad, NilGep, NilStore, SelfRef, NilField,
          Compare2, CallNil, SetVal, Counter, Pyth, PythNoLhs}

ASSUME \A p \in Sound : Valid(p)
ASSUME \A p \in Unsound \cup Undeclared : ~Valid(p)

(* ------------- disagreements between interpreter.rs and the spec ----------- *)
\* y = new int 1 lies right below z = new int 1: y[1] is z's cell.
Adjacent == {Arr(1, 1)}
\* y[-1]: address + (-1 as u32) overflows u32.
NegIndex == {Arr(1, -1)}
\* p = foo; return p != q with q nil: the spec's answer is 1.
FnPtrNeqNil ==
    {Prog(("main" :> Fun(<<>>, {cP, cQ, cX}, <<IntT>>,
             "entry" :> B(<<Copy(cP, OVar(gFoo)), Cmp(cX, "neq", OVar(cP), OVar(cQ))>>,
                          Ret(<<OVar(cX)>>))))
          @@ ("foo" :> FooFun), {gFoo}, <<>>, Done(1, <<>>))}
\* int same(f: &() -> _, g: &() -> _) { return f == g; } called as
\* same(foo, 0): argument passing is a site where 0 is nil, so 0.
sF == V("same", "f", PtrT(VoidFn))
sG == V("same", "g", PtrT(VoidFn))
sX == V("same", "x", IntT)
NilArgument ==
    {Prog(("main" :> Fun(<<>>, {cX}, <<IntT>>,
             ("entry" :> B(<<>>, CallDirect(<<cX>>, "same", <<OVar(gFoo), CInt(0)>>, "exit")))
          @@ ("exit" :> B(<<>>, Ret(<<OVar(cX)>>)))))
          @@ ("same" :> Fun(<<sF, sG>>, {sX}, <<IntT>>,
                 "entry" :> B(<<Cmp(sX, "eq", OVar(sF), OVar(sG))>>, Ret(<<OVar(sX)>>))))
          @@ ("foo" :> FooFun), {gFoo}, <<>>, Done(0, <<>>))}
\* p = foo; return p == 0: a comparison with 0 standing for nil, so 0.
FnPtrVsZero ==
    {Prog(("main" :> Fun(<<>>, {cP, cX}, <<IntT>>,
             "entry" :> B(<<Copy(cP, OVar(gFoo)), Cmp(cX, "eq", OVar(cP), CInt(0))>>,
                          Ret(<<OVar(cX)>>))))
          @@ ("foo" :> FooFun), {gFoo}, <<>>, Done(0, <<>>))}
\* The comparisons of a function pointer with nil that the Cmp arms miss.
FnPtrCompare == FnPtrNeqNil \cup FnPtrVsZero
\* p = &a: well-typed, accepted by lir::validate.
AddrOfValid == {MainOnly({xA, xP}, <<AddrOf(xP, xA)>>, OVar(xA), <<>>, Done(0, <<>>))}
\* x = new s 1 with struct s declared nowhere: nothing in lir::validate
\* relates a pointer's pointee to the struct section.
UnknownStruct ==
    {MainOnly({V("main", "u", PtrT(StructT("s")))},
              <<Alloc(V("main", "u", PtrT(StructT("s"))), CInt(1), "u1")>>, CInt(0),
              <<>>, Done(0, <<>>))}

\* struct loop { next: loop } passes check_structs (it has a field) and
\* check_types; allocating one makes zero_init call itself for ever.
SelfContaining ==
    {MainOnly({V("main", "u", PtrT(StructT("loop")))},
              <<Alloc(V("main", "u", PtrT(StructT("loop"))), CInt(1), "u1")>>, CInt(0),
              "loop" :> {Field("next", StructT("loop"))}, Done(0, <<>>))}

ASSUME \A p \in Adjacent \cup NegIndex \cup FnPtrNeqNil \cup NilArgument \cup FnPtrVsZero
                 \cup AddrOfValid \cup UnknownStruct \cup SelfContaining : Valid(p)

\* The two ways zero_init trusts the struct section of a valid program.
ZeroInitTrust == UnknownStruct \cup SelfContaining

BuildsMC == {"debug", "release"}
AllPrograms == Sound \cup Unsound \cup Undeclared

\* Every valid program of the suites, printed as LIR text and read back by
\* liri's reader, is the program itself: the reader recovers from bare
\* names the scope and type of every variable, the type of every
\* allocation id and field, and the form of every call.
SuiteRoundTrip == Valid(prog) => ReadBack(prog) = Ok(LirCore(prog))
====
