--------------------------- MODULE MC_LirValidate ---------------------------
(***************************************************************************)
(* check_reachability of lir::validate over every control-flow graph of a  *)
(* three-block main: each block ends with a jump, branch, indirect call or *)
(* return, with targets among the blocks and one label "x" that names no   *)
(* block.  The ascent fixpoint of LirValidate is compared with path-based  *)
(* reachability from the community Graphs module.                          *)
(***************************************************************************)
EXTENDS LirValidate, Graphs

Labels == {"entry", "a", "b"}
Targets4 == Labels \cup {"x"}
fp == LocalVar("main", "fp", PtrT(FnT(<<>>, <<>>)))
Terms == {Jump(l) : l \in Targets4}
         \cup {Branch(CInt(1), l1, l2) : l1, l2 \in Targets4}
         \cup {CallIndirect(<<>>, fp, <<>>, l) : l \in Targets4}
         \cup {Ret(<<CInt(0)>>)}

VARIABLE term   \* the terminal of each block

CfgProg == [funcs |-> "main" :> [params |-> <<>>, locals |-> {fp}, ret |-> <<IntT>>,
                                 body |-> [l \in Labels |-> [insts |-> <<>>, term |-> term[l]]]],
            globals |-> {}, structs |-> <<>>, externs |-> <<>>]

Init == term \in [Labels -> Terms]
\* The graph is an input: the check reads it and changes nothing.
Next == UNCHANGED term
Spec == Init /\ [][Next]_term

\* The control-flow graph over the blocks that exist.
CFG == [node |-> Labels,
        edge |-> {<<l, m>> \in Labels \X Labels : m \in Targets(term[l])}]
Exits == {l \in Labels : term[l].op = "ret"}
RefEntryReaches == {"entry"} \cup Descendants(CFG, "entry")
RefReachesExit == Exits \cup UNION {Ancestors(CFG, e) : e \in Exits}

\* Whenever every branch, jump and call target names a block
\* (check_terminators), check_reachability accepts the function exactly when
\* every block is reachable from entry and reaches the $ret block along
\* paths of the graph.  The code compares the sizes of the ascent relations
\* with the number of blocks, and its reaches relation includes targets
\* that are not blocks.
ReachabilityAgreesWithGraphs ==
    CheckTerminators(CfgProg) =>
        (CheckReachability(CfgProg) <=>
            Labels \subseteq RefEntryReaches /\ Labels \subseteq RefReachesExit)
====
