----------------------------- MODULE LirProgram -----------------------------
(***************************************************************************)
(* The LIR data model (src/src/middle_end/lir.rs) and the runtime value    *)
(* domain of the interpreter (src/src/interpreter.rs): types, variables,   *)
(* operands, instructions, terminals, addresses and values, with the pure  *)
(* helpers the interpreter uses on them (zero_init, compare, value_ref).   *)
(*                                                                         *)
(* A program is a record                                                   *)
(*   [funcs   : [FuncName -> [params: Seq(Var), locals: SUBSET Var,       *)
(*                            ret: <<>> or <<Type>>,                       *)
(*                            body: [Label -> [insts: Seq(Inst),           *)
(*                                             term: Term]]]],             *)
(*    globals : SUBSET Var,                                                *)
(*    externs : [FuncName -> FnT(..)],                                     *)
(*    structs : [StructName -> SUBSET Field],                              *)
(*    fnRank  : [FuncName -> Nat],      \* the order of FuncId (by name)   *)
(*    fieldRank : [Field -> Nat],       \* the order of FieldId            *)
(*    expect  : the outcome the spec prescribes for the program]           *)
(* Names are strings.                                                      *)
(***************************************************************************)
EXTENDS Integers, Sequences, FiniteSets

(* ---------------------------- types (LirType) -------------------------- *)
IntT == [k |-> "int"]
PtrT(t) == [k |-> "ptr", to |-> t]
StructT(s) == [k |-> "struct", s |-> s]
\* LirType::Function; ret is <<>> or <<type>> (Option<Type>), params a Seq.
FnT(ret, params) == [k |-> "fn", ret |-> ret, params |-> params]

\* A VarId is a name, a type and a scope: <<f>> for a local or parameter
\* of function f, <<>> (None) for a global or an alloc id.  A FieldId is a
\* name with a type.
Var(name, ty) == [name |-> name, ty |-> ty, scope |-> <<>>]
LocalVar(f, name, ty) == [name |-> name, ty |-> ty, scope |-> <<f>>]
Field(name, ty) == [name |-> name, ty |-> ty]

\* Operand::CInt and Operand::Var
CInt(n) == [k |-> "const", n |-> n]
OVar(x) == [k |-> "var", x |-> x]

(* ---------------------------- instructions ----------------------------- *)
\* The alloc-site id gets the pointee type of lhs, as the LIR reader does.
Alloc(lhs, num, site) == [op |-> "alloc", lhs |-> lhs, num |-> num,
                          id |-> Var(site, lhs.ty.to)]
Arith(lhs, aop, op1, op2) == [op |-> "arith", lhs |-> lhs, aop |-> aop,
                              op1 |-> op1, op2 |-> op2]
\* lhs is <<>> or <<x>> (Option<VarId>)
CallExt(lhs, callee, args) == [op |-> "callext", lhs |-> lhs,
                               callee |-> callee, args |-> args]
Cmp(lhs, rop, op1, op2) == [op |-> "cmp", lhs |-> lhs, rop |-> rop,
                            op1 |-> op1, op2 |-> op2]
Copy(lhs, o) == [op |-> "copy", lhs |-> lhs, src |-> o]
Gep(lhs, src, idx) == [op |-> "gep", lhs |-> lhs, src |-> src, idx |-> idx]
Gfp(lhs, src, f) == [op |-> "gfp", lhs |-> lhs, src |-> src, field |-> f]
Load(lhs, src) == [op |-> "load", lhs |-> lhs, src |-> src]
Store(dst, o) == [op |-> "store", dst |-> dst, src |-> o]
Phi(lhs, args) == [op |-> "phi", lhs |-> lhs, args |-> args]
AddrOf(lhs, rhs) == [op |-> "addrof", lhs |-> lhs, rhs |-> rhs]

ArithOps == {"add", "sub", "mul", "div"}
CmpOps == {"eq", "neq", "lt", "lte", "gt", "gte"}

(* ----------------------------- terminals ------------------------------- *)
Branch(c, tt, ff) == [op |-> "branch", cond |-> c, tt |-> tt, ff |-> ff]
CallDirect(lhs, f, args, next) == [op |-> "calldir", lhs |-> lhs, callee |-> f,
                                   args |-> args, next |-> next]
\* The callee of CallIndirect is a VarId; its field is named calleeVar so
\* that it is never compared with CallDirect's FuncId.
CallIndirect(lhs, x, args, next) == [op |-> "callidr", lhs |-> lhs, calleeVar |-> x,
                                     args |-> args, next |-> next]
Jump(l) == [op |-> "jump", target |-> l]
\* o is <<>> or <<operand>> (Option<Operand>)
Ret(o) == [op |-> "ret", val |-> o]

(* ------------------------- addresses and values ------------------------ *)
\* enum Address { Nil, ToHeap(u32), Field(Box<Address>, FieldId) }.  A heap
\* index is kept as a signed integer i; a negative i stands for the u32
\* value 2^32 + i that wrapping address arithmetic produces.
NilA == [k |-> "nil"]
ToHeap(i) == [k |-> "heap", i |-> i]
FieldA(base, f) == [k |-> "field", base |-> base, f |-> f]

\* enum Value { FnPtr(FuncId), Ptr(Address), Int(i64), Struct(Map) }.
\* prov is a ghost field of Ptr: the base index of the allocation the
\* pointer was derived from (0 for nil); the interpreter never reads it.
IntV(n) == [t |-> "int", n |-> n]
PtrV(a, prov) == [t |-> "ptr", a |-> a, prov |-> prov]
FnPtrV(f) == [t |-> "fnptr", f |-> f]
StructV(fs) == [t |-> "struct", fs |-> fs]

IsIntZero(v) == v.t = "int" /\ v.n = 0

\* State::zero_init.  A function type panics (unreachable!), and so does an
\* unknown struct name (indexing program.structs).
RECURSIVE ZeroInit(_, _)
ZeroInit(prog, ty) ==
    CASE ty.k = "int"    -> IntV(0)
      [] ty.k = "ptr"    -> PtrV(NilA, 0)
      [] ty.k = "struct" -> StructV([f \in prog.structs[ty.s] |-> ZeroInit(prog, f.ty)])

\* zero_init of ty panics, given the structs whose zero_init calls are
\* already on the Rust stack: reaching one of them again means a struct
\* that contains itself by value, and zero_init recurses until the stack
\* overflows and the process aborts.
RECURSIVE ZeroInitFaultsOn(_, _, _)
ZeroInitFaultsOn(prog, ty, path) ==
    \/ ty.k = "fn"
    \/ /\ ty.k = "struct"
       /\ \/ ty.s \notin DOMAIN prog.structs
          \/ ty.s \in path
          \/ \E f \in prog.structs[ty.s] : ZeroInitFaultsOn(prog, f.ty, path \cup {ty.s})

ZeroInitFaults(prog, ty) == ZeroInitFaultsOn(prog, ty, {})

\* The derived Ord of Address: variants in declaration order, ToHeap by its
\* u32 payload, Field by base address and then by FieldId.  Result -1, 0, 1.
Sign(n) == IF n < 0 THEN -1 ELSE IF n = 0 THEN 0 ELSE 1
AddrRank(a) == CASE a.k = "nil" -> 0 [] a.k = "heap" -> 1 [] a.k = "field" -> 2
U32Cmp(i, j) == IF (i < 0) = (j < 0) THEN Sign(i - j)
                ELSE IF i < 0 THEN 1 ELSE -1
RECURSIVE AddrCmp(_, _, _)
AddrCmp(prog, a1, a2) ==
    IF AddrRank(a1) # AddrRank(a2) THEN Sign(AddrRank(a1) - AddrRank(a2))
    ELSE CASE a1.k = "nil"  -> 0
           [] a1.k = "heap" -> U32Cmp(a1.i, a2.i)
           [] a1.k = "field" ->
                LET b == AddrCmp(prog, a1.base, a2.base)
                IN  IF b # 0 THEN b
                    ELSE Sign(prog.fieldRank[a1.f] - prog.fieldRank[a2.f])

\* fn compare: the comparison of two values that have an order, given as -1/0/1.
Compare(rop, c) ==
    IF (CASE rop = "eq"  -> c = 0
          [] rop = "neq" -> c # 0
          [] rop = "lt"  -> c < 0
          [] rop = "lte" -> c <= 0
          [] rop = "gt"  -> c > 0
          [] rop = "gte" -> c >= 0)
    THEN IntV(1) ELSE IntV(0)

\* Mutation of TruncDiv: flooring division, as TLA+'s \div does.
TruncDivFloor(a, b) == a \div b

\* Rust's i64 division truncates toward zero.
TruncDiv(a, b) == IF (a >= 0) = (b > 0) THEN (IF a >= 0 THEN a \div b ELSE (-a) \div (-b))
                  ELSE -((IF a >= 0 THEN a ELSE -a) \div (IF b > 0 THEN b ELSE -b))

(* ---------------- State::value_ref over a store (heap) ----------------- *)
RECURSIVE ValueAtRef(_, _)
ValueAtRef(store, a) ==
    IF a.k = "heap" THEN store[a.i]
    ELSE ValueAtRef(store, a.base).fs[a.f]

\* The error value_ref reports for an address, or "none".
RECURSIVE RefError(_, _)
RefError(store, a) ==
    CASE a.k = "nil"  -> "nil"
      [] a.k = "heap" -> IF a.i \in DOMAIN store THEN "none" ELSE "oob"
      [] a.k = "field" ->
           LET e == RefError(store, a.base) IN
           IF e # "none" THEN e
           ELSE LET sv == ValueAtRef(store, a.base) IN
                IF sv.t # "struct" THEN "notstruct"
                ELSE IF a.f \notin DOMAIN sv.fs THEN "nofield" ELSE "none"

\* The store after *value_ref(a) = v (State::update_store).
RECURSIVE UpdateAt(_, _, _)
UpdateAt(store, a, v) ==
    IF a.k = "heap" THEN [store EXCEPT ![a.i] = v]
    ELSE LET sv == ValueAtRef(store, a.base)
         IN  UpdateAt(store, a.base, [sv EXCEPT !.fs[a.f] = v])
=============================================================================
