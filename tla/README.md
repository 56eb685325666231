# TLA+ models of the CFlat lowering, LIR validator and interpreter

This directory holds TLA+ models of the lowering, middle end and back end of the CFlat
compiler in `src/src`, with TLC configurations that check them.

## The system

The compiler is a pipeline:

- `front_end/lexer.rs` and `front_end/parser.rs` turn CFlat text into an AST (`front_end/ast.rs`).
- `front_end/lower.rs` lowers the AST to LIR. Most of it is still `todo!()`.
- `middle_end/lir.rs` defines LIR. A program is a set of functions made of basic blocks. Each block has a list of instructions and one terminal (branch, jump, direct or indirect call, return). There are also globals, struct declarations and externs.
- `middle_end/lir/validate.rs` checks that a program is well formed. `check_types` runs only when the other checks pass.
- `interpreter.rs` runs a LIR program. `interpret` loops `State::step`, which runs every instruction of the current block and then its terminal.
  - Calls push a `CallSite`, and returns pop it.
  - The heap is a map from `u32` addresses to values. `alloc_array` hands out fresh ranges.
  - Pointers are `Nil`, `ToHeap(u32)` or `Field(base, field)`.
- `middle_end/lir/display_impl.rs` prints a LIR program as text, and `middle_end/lir/fromstr_impl.rs` reads that text back: a pest grammar, then `create_program`, which rebuilds each item and resolves every bare variable name to its scope and type.
- `bin/cfc.rs` lowers a CFlat program and prints the LIR text. `bin/liri.rs` reads LIR text and interprets it without validating it. The two drivers talk only through that text.

The spec (`spec.md`) makes several promises:

- A valid program never hits an internal fault (§8).
- An index outside `[0, n)` of an allocation of `n` elements is an out-of-range error (§8).
- A constant 0 is coerced to nil wherever a pointer is expected (§3): copy, store, comparison, argument passing, return and phi.
- It lists the runtime errors (§4.2, §7).

## Modules

| Module | Models |
|---|---|
| `LirProgram` | The LIR data model (`lir.rs`) and the interpreter's value domain (`Address`, `Value`), with the pure helpers `zero_init`, the derived `Ord` of `Address`, `compare`, truncating `/`, `value_ref` and `update_store`. |
| `LirValidate` | Every check of `validate.rs` as a predicate over a program record. `Valid` is their conjunction. |
| `LirInterp` | The interpreter as a state machine. |
| `MC_LirInterp` | Test programs for `LirInterp` and the violation suites. |
| `MC_LirValidate` | Every three-block control-flow graph, for checking `check_reachability`. |
| `Lower` | The AST (`ast.rs`) as records, and the implemented part of `lower.rs` as operators: `Lower(ast)` is `lower()`, `LowerFault(ast)` the first `todo!()`, `unreachable!()` or `assert!` it would hit. |
| `CFlatTyping` | Which ASTs are valid input to lowering (`AstValid`), from spec §4.1, since the repository has no AST validator; and `InFragment`, the ASTs whose lowering is implemented. |
| `CFlatSemantics` | The abstract specification: one step from `running` to the outcome of `main`, with initializers run first (§4.1(c), §8). |
| `CFlatSuite` | The AST families the lowering runs enumerate. |
| `MC_Lower` | Checks lowering over every AST of the families. |
| `LirText` | The LIR printer (`display_impl.rs`) and reader (`fromstr_impl.rs`). |
| `MC_Pipeline` | Composes lowering, the printing and reading of the LIR text, and `LirInterp`, and checks the refinement of `CFlatSemantics`. |

More on each module:

- **`LirProgram`.** Instructions and terminals are records built by constructors named after the Rust variants. A program is a record `[funcs, globals, externs, structs, fnRank, fieldRank, expect]`:
  - `fnRank` and `fieldRank` give the orders of `FuncId` and `FieldId`.
  - `expect` is the outcome the spec prescribes, and is used only by properties.
  - A heap index is a signed integer. A negative `i` stands for the `u32` value `2^32 + i` that wrapping arithmetic yields.
  - `CallIndirect`'s callee is a variable, kept in a field named `calleeVar`. TLC then never compares it with `CallDirect`'s function name when it orders a set of programs.
  - `ZeroInitFaults` says when `zero_init` panics: a function type, an undeclared struct, or a struct that contains itself by value. The last one recurses until the Rust stack overflows. The operator carries the structs already on the stack and stops when one repeats.
- **`LirValidate`.** Reachability is the least fixpoint of the ascent rules (`Forward`, `Backward`). It is compared by size with the block count, as the code does.
- **`LirInterp`.**
  - The variables are the fields of `State`: `func`, `blk`/`pc` (the control), `env`, `glob`, `store`, `stack`, `nextAddress`.
  - Further variables record the outcome: `status`, `err`, `result`, `output`.
  - `allocs` is a ghost log of allocations, and `prov` in pointers is a ghost provenance.
  - There is one action per instruction and terminal arm: `ExecAlloc`, `ExecArith`, `ExecCallExt`, `ExecCmp`, `ExecCopy`, `ExecGep`, `ExecGfp`, `ExecLoad`, `ExecStore`, `ExecUnsupported` ($addrof and $phi), `ExecBranch`, `ExecCallDirect`, `ExecCallIndirect`, `ExecJump`, `ExecRetNone`, `ExecRetSome`.
  - Each action has a disjunct for every error return (`Fail`) and every panic (`Panic`), with the code's guards, in the order the code meets them. For example:
    - `Lookup` yields `UndefV` for a variable that is neither in `env` nor in `glob`. That is the "undefined variable" error.
    - `BindStep` is `bind`, with the same error for a destination that is in neither.
    - `Call` follows `State::call`. `new_env` (a missing callee, or a local `zero_init` cannot build) and the arity `assert_eq!` panic first. Then an undefined argument is an error. Then a missing resume block or callee `entry` block panics.
    - `Branch` and `Jump` panic when the target block is missing.
    - `Ret(Some)` binds the result only after the caller's frame is restored.
  - `Init` is `State::new`. It panics (`NewPanics`) when `main` or its `entry` block is missing, or when `zero_init` of a global or of a main local panics. Globals named after functions are zero-initialized before `FnPtr` overwrites them.
  - One TLA+ step is one instruction, so `pc` steps through the block. `step` itself is not interruptible, so this finer grain adds no interleavings. It only names where an error happens.
- **`MC_LirInterp`.**
  - `Sound` holds valid programs, each with its expected outcome: a recursive linked-list sum, direct and indirect; array indexing in and out of range; division (negative operands and by zero); nil dereferences; self-referencing structs; comparisons; globals; externs.
  - `Unsound` holds programs the validator rejects, one per error and panic path, because `liri` runs them anyway.
  - `Undeclared` holds programs that fail `check_declared` or name a missing block or function. It has one program per undefined-variable error and per missing-block panic, and two that pin the order inside `call`.
  - `ASSUME`s check that every `Sound` program is `Valid` and every `Unsound` or `Undeclared` one is not.
  - The violation suites (`Adjacent`, `NegIndex`, ..., `ZeroInitTrust`) are valid programs that show a finding.

- **`Lower`.** Lowering is a pure function, so it is a set of operators, not a state machine. Each operator is named after the Rust function it models.
  - A statement other than `Return`, and an expression other than `Num`, `Id` and `Nil`, lowers to `[fault |-> "todo"]`. The Rust helpers for these reach `todo!()` before they change anything.
  - `LowerStmtsFrom` stops at the first `Return`, as `lower_stmts` does with `return None`. `LowerBody` gives the `fallthrough` fault of `assert!(fin.is_none())`.
  - `EliminateInits` and `EliminateMultipleRet` do what the code does. The first returns the statements and drops the initializers. The second changes nothing.
  - A local or parameter `n` of `f` becomes `LocalVar(f, n, ty)`, a variable whose `scope` is `f`, as `var_id(n, ty, Some(f))` makes it. A global is `Var(n, ty)`, with no scope. The printer drops the scope, so the reader has to find it again.
- **`CFlatSuite`.** A family is one AST per combination of:
  - globals: none, `x: &int`, `g: int`, or both;
  - main's locals, without initializers: none, `x: int` (shadows the global `x`), `k: int` (shadows the function `k`), or both;
  - main's return: 0, 7, -3, `x`, `g`, `k` or `nil`;
  - dead code after the return: none, a `while`, a second return, or an assignment and a `break`.

  Besides main, there are five other functions: one returning an int, one returning a parameter, one returning nil, a void function, and one returning another function as a pointer. The AST also has a struct and an extern. `ValidFamily` keeps the valid ASTs, and `InitLocals` adds `let x: int = 7`. `IntervalStruct` is a valid AST with `struct interval` and a global `r: &interval`.
- **`LirText`.** Text is abstracted to the parse tree pest builds for it. The text is a sequence of items, and an instruction is its rule with the sequence of its pairs (ident, operand, aop, rop). A variable or field is printed by its name alone.
  - `PrintLir` is `Display for Program`: structs, globals, externs, then functions. A `BTreeMap`/`BTreeSet` iterates in some fixed order (`Listing`).
  - `ParseOk` holds the grammar's constraints on the items. `TypeParses` models the ordered choice `type_id = { "int" | ident | ... }`: a type name that begins with `int` does not parse. TLC cannot take a prefix of a string, so the instance names these words in the constant `IntPrefixedNames`.
  - `CreateProgram` and the operators below it follow `create_program` and every `create_*` function, in the code's order. The first error ends the read. Each duplicate check and each undefined variable is an `Err`. `LookupName` looks in the locals, then the parameters, then the globals read before the function.
  - Intermediate results (the listings, the scope, the results of the blocks and items) are bound once with `\E`/set-comprehension binding. TLC with coverage would otherwise evaluate them again at every use.
- **`MC_Pipeline`.** Its initial state is any AST of `Asts`, with `LirInterp`'s initial state for `Lower(ast)`. Its next step is `LirInterp`'s. `Cfc(ast)` is the text cfc prints. `TextRoundTrip` checks that liri reads that text back as the lowered program, so the interpreter runs exactly what cfc produced. The refinement maps `Outcome == [status, result]` onto `CFlatSemantics`' `outcome`.

## Runs

| Run | cfg | Expect | What it shows |
|---|---|---|---|
| interp | `MC_LirInterp.cfg` | pass | All suite programs, in debug and release builds, run to the outcome the spec prescribes (`ExpectedOutcome`). |
| validator_reach | `MC_LirValidate.cfg` | pass | `check_reachability` accepts a function exactly when every block is reachable from entry and reaches a return. This is checked against `Graphs!Descendants`/`Ancestors` over the 4,096 three-block CFGs whose targets all name blocks. The 15,625 graphs enumerated also have targets that name a missing block, but `check_terminators` rejects those, so the property does not constrain them. |
| adjacent_index | `MC_Adjacent.cfg` | violation | `y[1]` of a 1-element array reads the next allocation (`SpatialSafety`). |
| negative_index | `MC_NegIndex.cfg` | violation | `y[-1]` panics on `u32` overflow in a debug build. |
| nil_argument | `MC_NilArgument.cfg` | violation | 0 passed for a pointer parameter is not coerced to nil. |
| fnptr_compare | `MC_FnPtrCmp.cfg` | violation | Comparing a function pointer with nil or 0: `fp != nil` evaluates to 0, and `fp == 0` is a runtime error although it validates. |
| addrof_valid | `MC_AddrOfValid.cfg` | violation | A valid program using `$addrof` panics. |
| unknown_struct | `MC_UnknownStruct.cfg` | violation | A valid program allocating an undeclared struct, or `struct loop { next: loop }`, panics (or overflows the stack) in `zero_init`. |
| lowering | `MC_Lower.cfg` | pass | `LoweringTotal`: every valid AST of the implemented fragment lowers without a fault. `LoweredValid`: every valid AST that lowers gives a program that passes the LIR validator. |
| pipeline | `MC_Pipeline.cfg` | pass | `TextRoundTrip`: the LIR text cfc prints for every valid AST reads back in liri as the lowered program. `CFlatRefinement`: lowering then interpreting a valid AST without initializers implements `CFlatSemantics`. This holds in debug and release builds. |
| lost_initializer | `MC_LostInit.cfg` | violation | `let x: int = 7; return x;` lowers and runs to 0, because `eliminate_inits` drops the initializer. |
| int_prefixed_struct | `MC_IntStruct.cfg` | violation | A valid program with `struct interval` and a global `r: &interval` lowers, but liri cannot parse the text cfc prints: the grammar's ordered choice matches `int` and then fails on `erval`. |

Besides `ExpectedOutcome`, the `interp` run checks these properties:

- `RuntimeWellTyped`: for valid programs, every variable and heap cell holds a value of its declared type.
- `DistinctAllocations`: allocations have distinct bases and disjoint cells, all below `next_address`.
- `NoInternalFault`: a valid program never panics.
- `Terminates`: every run ends.
- `SuiteRoundTrip`: every valid suite program, printed and read back, is itself. The suites exercise every instruction and terminal arm except `$phi` and `$addrof`, which no valid suite program uses, because the interpreter does not support them.

The violation runs are findings. PROJECT.json records what each one shows about the code.

Each property of a passing run has a mutant in PROJECT.json that breaks it. The mutants model plausible bugs:

- arguments bound to the callee's parameters in the wrong order;
- an allocation of zero reserving no address;
- flooring instead of truncating division;
- signed instead of unsigned address arithmetic;
- branch targets swapped;
- the reachability fixpoint stopped after one round;
- lowering continued after a `Return`;
- a function-pointer global for `main`;
- globals resolved before locals in `name_to_var`;
- globals resolved before locals in the reader's `lookup`;
- a negative constant operand read as a variable name (`parse::<u32>` instead of `parse::<i32>`).

## Bounds and fairness

Bounds:

- The lowering families cover every way a name can resolve: to a local, a global, a function, or a name shadowing a global or a function. They also cover nil for a pointer and dead code after a return. `MC_Lower` checks 560 ASTs, and `MC_Pipeline` runs every valid one.

- Programs are at most a few blocks and a few functions, with arrays of 0 to 3 elements. That is enough for:
  - zero-length allocation;
  - adjacent allocations;
  - the first and last elements;
  - one past the end;
  - negative indices;
  - recursion three calls deep.
- `MaxSteps` (120 for `interp`, 40 for the violation runs) bounds a run. It is well above the longest suite program, so no behaviour is cut off. The bound only keeps a wrong mutant finite.

Fairness:

- `Spec` has `WF_vars(Next)`. `interpret` calls `step` in a loop until it returns or errs, so an enabled step is always taken.
- `PipelineSpec` has `WF` of the interpreter's step for the same reason. That gives `CFlatSemantics`' `WF(Run)`: the lowered program ends.
- Runs check for deadlock only in `MC_LirValidate` and `MC_Lower`. In `MC_LirInterp` a finished interpreter takes no step, just as `interpret` returns.

## Not modelled

- The lexer is generated by logos and processes text.
- Every grammar function of the parser is `todo!()`.
- The AST printer and reader are text processing. The drivers' file I/O and argument handling are not modelled; only their print-then-read composition is (`Cfc`, `PipelineInit`).
- The LIR text below the parse tree: pest's character-level matching, whitespace and comments, and identifier spelling. An i32 literal that overflows is not modelled either: the printer only writes i32 values. The grammar is modelled by the constraints `ParseOk` puts on the items, and by the ordered choice of `type_id`.
- In `lower.rs`, everything that is `todo!()`: `If`, `While`, assignments, calls, `Break`, `Continue`, and every compound expression. Without them a body has one return and no temporaries or extra blocks, so `create_tmp`, `create_bb` and the loop stack are never used.
- Whether a void function may end without a `return`. The spec does not say, and `assert!(fin.is_none())` rejects it.
- The reader's handling of `$phi` and `$addrof` is modelled (`CreateInst`), but no valid program of the suites or the families reaches it, so the round-trip runs do not exercise it.
- i64 overflow in arithmetic, `i64::MIN / -1`, and truncation of `n as u32`. TLC's integers are 32-bit, so values at these boundaries cannot be represented.
- The order of function pointers and fields by name (`misc_impl.rs`). The suites and `Lower` give every function and field rank 0. No program compares two distinct function pointers, so the order is never read.
- Identifier spelling rules and `check_name_mapping` of the validator. Names are abstract strings.

## Plan

1. As lowering of `If`, `While`, assignments and calls is implemented, model it in `Lower`. Then extend `CFlatSemantics` to those statements and check the single-return normalization of `eliminate_multiple_ret`.
2. Extend `MC_LirValidate` to the 0-as-nil corner cases of `check_types`, compared with `Conforms`.
