----------------------------- MODULE CFlatSuite ------------------------------
(***************************************************************************)
(* A family of CFlat programs in the fragment whose lowering exists.       *)
(* Besides main there are functions returning an int, a parameter, nil,    *)
(* nothing, and another function (as a function pointer), each followed   *)
(* by statements that are never lowered.  main varies in its globals, its  *)
(* locals (which may shadow a global or a function), what it returns and   *)
(* the dead statements after the return.                                   *)
(***************************************************************************)
EXTENDS CFlatTyping

PI == PtrT(IntT)
IntFn == FnT(<<IntT>>, <<>>)

OtherFunctions ==
    << Function("k", <<>>, <<IntT>>, <<>>, <<Return(<<Num(5)>>)>>),
       Function("idp", <<ADecl("p", PI)>>, <<PI>>, <<>>, <<Return(<<Id("p")>>)>>),
       Function("mk", <<ADecl("q", IntT)>>, <<PI>>, <<>>,
                <<Return(<<Nil>>), Stmt("if")>>),
       Function("v", <<>>, <<>>, <<>>, <<Return(<<>>), Stmt("call")>>),
       Function("h", <<>>, <<PtrT(IntFn)>>, <<>>, <<Return(<<Id("k")>>)>>) >>

Typedefs == <<Typedef("s", <<ADecl("a", IntT)>>)>>
Externs == <<ADecl("print", FnT(<<>>, <<IntT>>))>>

GlobalChoices == {<<>>, <<ADecl("x", PI)>>, <<ADecl("g", IntT)>>,
                  <<ADecl("x", PI), ADecl("g", IntT)>>}
\* Locals without initializers; x shadows the global x, k the function k.
LocalChoices == {<<>>, <<<<ADecl("x", IntT), <<>>>>>>, <<<<ADecl("k", IntT), <<>>>>>>,
                 <<<<ADecl("x", IntT), <<>>>>, <<ADecl("k", IntT), <<>>>>>>}
Returned == {Num(0), Num(7), Num(-3), Id("x"), Id("g"), Id("k"), Nil}
DeadCode == {<<>>, <<Stmt("while")>>, <<Return(<<Num(1)>>)>>,
             <<Stmt("assign"), Stmt("break")>>}

Prog(gs, ds, e, dead) ==
    AProgram(gs, Typedefs, Externs,
             <<Function("main", <<>>, <<IntT>>, ds, <<Return(<<e>>)>> \o dead)>>
             \o OtherFunctions)

\* Every program of the family, valid or not.
Family(locals) ==
    {Prog(gs, ds, e, dead) : gs \in GlobalChoices, ds \in locals,
                             e \in Returned, dead \in DeadCode}

\* The valid ones, without initializers.
ValidFamily == {a \in Family(LocalChoices) : AstValid(a)}

\* main's local x initialized to 7.
InitLocals == {<<<<ADecl("x", IntT), <<Num(7)>>>>>>}

\* fn main() -> int { let x: int = 7; return x; }
LostInit == {Prog(<<>>, <<<<ADecl("x", IntT), <<Num(7)>>>>>>, Id("x"), <<>>)}

\* struct interval { lo: int } r: &interval; fn main() -> int { return 0; }
IntervalStruct ==
    {AProgram(<<ADecl("r", PtrT(StructT("interval")))>>,
              <<Typedef("interval", <<ADecl("lo", IntT)>>)>>, Externs,
              <<Function("main", <<>>, <<IntT>>, <<>>, <<Return(<<Num(0)>>)>>)>>)}
ASSUME \A a \in IntervalStruct : AstValid(a)
====
