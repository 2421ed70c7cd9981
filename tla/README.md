# A verification model of VERI-V (riscverifier)

VERI-V reads the objdump listing of one or more RISC-V binaries, the DWARF data
of the ELF files and specification files, and writes a UCLID5 model in which
the functions of the binary are procedures that can be verified against the
specifications.  It is a sequential batch program: the hard part is not
concurrency but that several passes, each written against an idea of what the
others leave behind, must fit together, and that the text they produce must
mean what the binary does and what the author of a specification wrote.

## 1. The system

```
Disassembler::read_binaries -> BasicBlock::split -> Translator::gen_func_model --+
   (lines, entry/exit marks)     (block map)          create_cfg, topo_sort,     |
                                                      cfg_to_symbolic_blk,       |
DwarfReader::new ------------+                        al_to_ir_stmt, recursion   +-> UCLID5
   (trees, signatures,       |                                                   |    text
    globals)                 v                                                   |
SpecParser ------> process_specs (types, rename, fold) --------------------------+
```

| part | state | operations | what makes it correct |
|---|---|---|---|
| Disassembler (`disassembler.rs`) | lines parsed so far, functions seen | parse a line, mark it as entry or exit | nothing but fences is lost; the marks bound the functions, because a call at an exit mark is taken not to return |
| Basic blocks (`cfg.rs` split) | entry points, exit points, open block, block map | scan a line, split at a line | blocks are disjoint, entered at the top, left at the bottom; none is lost or overwritten; a function can be found by its first block |
| CFG (`cfg.rs` create_cfg, find_cycle) | nodes; path and set of blocks seen | follow a successor, search a cycle | exactly the reachable blocks; a cycle is found when there is one |
| Sort (`translator.rs` topo_sort) | dependencies, waiting, sorted | compute dependencies, pop the ready blocks | an order that execution follows forwards only |
| Function models (gen_func_model) | recursion, generated, memoised modifies sets, model | request, recurse, finish, stub, print, clear | terminates on recursive programs; declares every procedure it calls; modifies sets cover those of the callees |
| Body (cfg_to_symbolic_blk) | pc, returned | a guarded call per block and per callee | executes every path of the function to its return |
| Instructions (`system_model.rs`, al_to_ir_stmt) | registers, pc, returned, four memories | one statement per instruction | the RISC-V manual; the pc goes where the graph expects it; the modifies set covers what changes |
| Rewriting passes of a block (ConstantPropagator, DataMemoryAbstractor) | map of constants, abstracted variables | fold, propagate, replace | the block computes what it did before |
| Specification passes (`lib.rs` process_specs) | map of bound variables, the clause being rewritten, specifications by function | infer types, rename globals, fold constants, print | the text has the value that the author wrote, or is refused |
| Specification lexer and parser (`sl_lexer.rs`, `sl_parser.lalrpop`) | place in the text | cut a token, build a tree | the tree of the text |
| DWARF reader (`dwarfreader.rs`, `cdwarfinterface.rs`) | tree under construction and its stack; memoised types | read an entry, read a type | the tree is the nesting of the entries; a type is read once and completely |
| UCLID5 printer (`uclidinterface.rs`) | none | print | every macro called is defined; arguments are tied to their registers; the printed operators mean what the IR says |
| Template and vectre generators, driver | none, or the request loop | print | |

The parts interact by data only: each pass reads the whole result of the one
before.  What is hard is therefore:

* order within a pass: a branch that is seen after its target was put in a
  block, a block that becomes ready when a predecessor outside the function is
  ignored, a callee whose modifies set is read before it is finished, a
  debugging entry that must be put back when the depth falls;
* agreement between passes: the listing drops fences but successors are
  computed by address; the exit mark of one pass decides in another whether a
  call returns; the pc is computed by the instructions, the graph by the
  disassembler; one pass of a specification types a name as local, the next
  replaces it as global; macros are defined from one recursion over the types
  and called from another;
* partial failure: many lookups are an `expect` or an `unwrap` that rest on
  what an earlier pass established, and a type that cannot be read leaves its
  placeholder behind;
* recursion: over callees, over cycles and over types.

PROJECT.json lists each hazard at its line, with the properties that cover it.

## 2. The modules

| module | models | state and actions |
|---|---|---|
| `Assembly` | the trait `Inst` of a line | pure: `Successors`, the kinds of jumps |
| `Disassembly` | `read_binaries` | `ParseLine`, `EndParse`, `MarkLine`, `EndMark`: the two loops, one line per step |
| `BasicBlocks` | `BasicBlock::split` | `ScanLine`, `EndScan`, `SplitLine`, `EndSplit`; the variables are those of the function |
| `Frontend` | the driver up to `create_label_to_addr_map`: the two above composed | `Disassemble`, `HandOver`, `SplitListing`, `MapLabels` |
| `FlowGraph` | blocks and successors as a graph, `IsFlowOrder` | pure |
| `ControlFlow` | `create_cfg`, `compute_deps`, `topo_sort`, `find_cycle` | a phase per function, a step per block visited, popped or appended |
| `FuncModels` | `gen_func_model` and the driver loop | `Request`, `Recurse`, `Finish`, `PanicOnCycle`, `PrintModel`, `Clear`; the recursion is the variable `stack` |
| `Machine` | abstract: the run of a function, block by block | `RunBlock`, `RunCallee` |
| `SymbolicBlock` | the body that `cfg_to_symbolic_blk` emits, executed | one action per kind of statement, run or skipped |
| `BitVectors` | the operators of the IR as UCLID5 reads them | pure |
| `SystemModel` | the statement of every instruction, over a block | `ExecLine`, one action per form of instruction |
| `RiscvIsa` | reference: the manual, in integers | pure, and the properties against it |
| `BlockPasses` | `ConstantPropagator` and `DataMemoryAbstractor`, over a block executed before and after them; an expression is the sequence of its nodes, operands before their operator | `RewriteAssign`, `RewriteStore`, `VisitIfThenElse`, `Panic` |
| `DwarfTree` | `process_dwarf_file_object`, `entries_to_dwarf_object` | `Descend`, `Ascend`, `EndUnit`: one entry per step, the tree in pieces |
| `DwarfTypes` | `CDwarfInterface`, `DwarfReader::new` | the recursion `_get_type` as a stack of frames, with the memo, a map, of the call |
| `UclidHeader` | what the printer makes of signatures and globals | `PrintModel`, for one of the `Requests` of the command line; the types, arguments and functions to verify |
| `HeaderTypes` | the macros that it prints for a type, and what reading and printing must agree on | pure, walks over types and the types that the entries declare, and the properties |
| `SpecLang` | the expressions of the specification language and the types of its operators | pure |
| `SpecPasses` | `process_specs`: `VExprTypeInference`, `RenameGlobals`, `ConstantFolder`, and the text | one step per quantifier, comparison and pass |
| `SpecMeaning` | reference: the value of what was written and of what was printed | pure, and the properties |

How they compose.  `Frontend` runs `Disassembly` (an instance whose result is
handed over) and then `BasicBlocks`, so the listings that are split are exactly
those that can be read; it and `SystemModel` share `Assembly`: the successors
that cut the blocks, that the exit marks influence and that the instructions
must respect are one definition.  `ControlFlow` and `SymbolicBlock` share
`FlowGraph`: the order that the sort is shown to return (`IsFlowOrder`) is the
one that the body is shown to need.  `UclidHeader` extends `DwarfTypes`, which
extends `DwarfTree`: signatures are read from the trees that the walk builds,
and printed from the types that the memo returns.

The refinement.  `SymbolicBlock` declares
`M == INSTANCE Machine WITH graph <- graph, pc <- pc, link <- link`, and
`ImplementsMachine` (that is `M!Spec`, with fairness) is a property of the run
`symbolic_block`: a straight line of guarded calls, in which each statement is
run or skipped, implements the machine that goes from block to block as long as
it likes; a skipped statement is a stutter.  Its safety half is also proved.  The
basic block step of `Machine` is what `PcFollowsCfg` and
`ReturnedWhereGraphEnds` establish for the instructions.

What is abstracted.  Addresses are counted in instruction lengths (in bytes in
`SystemModel`); a graph is a successor function on small numbers; a register, a
ghost variable or a function is a name.  Text layout, comments and Rust
containers are left out, except that the order in which a hash set or map is
iterated is a nondeterministic choice where it is visible (`MapLabels`, the
ready blocks of the sort, the callees).  `SystemModel` describes a block as
`cfg_node_to_block` builds it; `BlockPasses` says when the rewriting passes
leave it with the same meaning.  The two passes of `BlockPasses` run one after
the other in the code and statement by statement together in the model: the
second keeps nothing that the first one reads.  The doc of DataMemoryAbstractor
(translator.rs:1260) speaks of the addresses of global variables; the code, and
the model, abstract every access at a constant address.  Of a Boolean
specification only the comparisons and quantifiers are kept, in the order in
which the rewriter visits them: the Boolean operators and literals between them
leave no trace in any pass.  A debugging entry keeps its depth, kind, name,
type, size and place; gimli, which decodes them, is external.

A definition whose name is that of the next one with a suffix is a mutated form
of it: the bug that the property named in PROJECT.json catches.

## 3. What the runs check

| run | bounds | shows |
|---|---|---|
| `frontend` | every dump of 3 lines over 2 functions, 4 addresses, 4 kinds of line; every dump of 4 lines with every jump and target, in two functions, around a fence, or from two binaries in descending order | `OneEntryPerFunction`, `CallsStayInFunction`, `MarksDelimitFunctions`, `ListingComplete`; `NeverPanics`, `BlocksSound`, `BlocksDisjoint`, `OnlyOpenTailLost`, `SuccessorsAreEntries`, `BlocksAreFinal`; `FunctionsAreFound` |
| `control_flow` | every graph of 4 blocks with at most 2 successors each, with or without a callee, ignored or not, and graphs with a missing block | `CfgIsReachable`, `SortedFollowsFlow`, `SortedIsFunction`, `CycleIsFound`, `CycleIsReal`, `Terminates` |
| `func_models` | every program of 4 blocks in 3 functions, recursion, jumps into other functions, ignored functions, repeated requests | `MarkedOrPending`, `CalleesDeclared`, `ModifiesCoverInferred`, `Terminates` |
| `symbolic_block` | every acyclic function of 3 blocks calling up to 2 functions, in every flow order | `NeverLosesControl`, `RunsToReturn`, `ImplementsMachine` |
| `system_model` | every instruction as first and second line of a block, values on both sides of the sign bit | `PcFollowsCfg`, `ReturnedWhereGraphEnds`, `ModSetCovers`, `ResultsAreIsa`, `LoadsSeeStores` |
| `block_passes` | every block of 3 out of 36 instructions of 13 kinds, with and without overflow checks | `MapIsCurrent`, `PassesPreserveBlock` |
| `uclid_header` | every nesting of up to 6 entries, pairs of units of up to 3, no unit at all; every graph of 3 types that refer to one another (pointers, typedefs, arrays, structures, bit fields, unreadable and local types) used by two functions and a variable; two units that declare the same function; for each of these programs 6 requests, with functions that are not requested, are ignored, are named to be verified or are not described | `TreesAreUnits`, `NoReentry`, `PartsAreDeclared`, `ArgumentsAtTheirRegisters`, `MacrosAreDefined`, `VerifiesWhatReturns` |
| `spec_passes` | every specification of one comparison, of one under a quantifier followed by another, of two nested quantifiers, and of two blocks, over 4 globals (number, byte-sized number, array, array of structures), 2 arguments, 3 binders and 3 literals; with and without overflow checks | `ReadsAsWritten`, `FoldsInRange`, `CoreIsAccepted` |

Why the bounds are enough.  Three lines give a function that is interrupted by
another one and resumed.  Four lines give a block that is cut by a later
branch, followed by a complete block and an open tail; the places of the lines
are what a dropped fence and a second binary cause.  Four blocks give a diamond,
a cycle behind a prefix, two overlapping cycles and a callee in the middle.
Four blocks in three functions give mutual recursion and a jump into the middle
of the requested function.  Eight-bit registers keep the proportions of RV64
(byte, half and word are an eighth, a quarter and a half), so every slice and
extension of the source has its counterpart; for specifications a word has 16
bits and a byte two.  Six entries give a fall of more than one level, followed
by a descent; three types give a cycle, a type shared by two fields before and
after it fails, and a type inside another one.  A name that is at the same time
a global variable, an argument and a bound variable shows every case of hiding;
an expression of depth three puts a memory read inside `old` inside an operator.

The four runs that are expected to find a violation state what the
documentation says and the code does not do:

* `callee_modifies`: translator.rs:308 announces that the callee's modifies set
  is added to the caller's; the code looks up the caller's own.
* `jalr_target`: the comment at system_model.rs:534 gives the target as
  rs1 + imm; with rd = rs1 the register has been overwritten by then.
* `fold_evaluates`: translator.rs:1084 says that constant_fold evaluates the
  expression; it extends without the sign, so `addiw a0, zero, -1` gives
  4294967295.  The right shifts, slices above bit 0 and the 63-bit mask are
  modelled as they are written and would violate the property as well.
* `formals_shadow`: lib.rs:441 notes that arguments take precedence over
  globals; RenameGlobals does not look at the arguments, and an argument `g` of
  a program with a global `g` is printed as the address of the global.

### What the properties leave out

Some properties hold under a condition; each condition was found to be
necessary, and says where the code departs from what one might expect.

* `CfgIsReachable` includes the graphs with a missing block: create_cfg panics
  exactly if a reachable block has a successor without a block.  That split
  leaves no such block is `SuccessorsAreEntries`, for successors that lie in a
  block; fences, holes and open tails are where a graph misses one.
* The cycle of `CycleIsReal` is made of dependencies of the sort only if
  find_cycle has not entered a callee.  It follows the blocks of callees
  (cfg.rs:102-106), which compute_deps does not expand
  (translator.rs:622-629): the cycle that the panic message of a stuck sort
  prints may be a loop of a callee, with which the sort had nothing to do.
* `CallsStayInFunction` is about linking jumps and about callees whose first
  line is marked as an entry.  A branch at the end of a function does fall
  through, and so does a call before lines of a function seen earlier, which
  have no mark.
* `LoadsSeeStores` is about a load and a store of one width.  A load of another
  width reads another memory (system_model.rs:36) and does not see the store.
* `CalleesDeclared`, `NeverLosesControl` and `RunsToReturn` are stated for
  functions that enter other functions by calls only.  The callees of blocks
  that a function enters in another function are not generated (README.md:25 of
  the repository promises a procedure for each called function); a block that is
  another function's entry and is reached by a branch or by falling through has
  no statement, where translator.rs:447-449 describes a model with the blocks of
  both.
* `ModifiesCoverInferred` leaves out what the specification of a callee adds,
  which `callee_modifies` is about.
* `PcFollowsCfg` and `ReturnedWhereGraphEnds` leave out jalr, which has no
  successor in the graph, and mret, at which the graph ends although the
  unimplemented instruction moves on.
* `ResultsAreIsa` leaves out the bitwise operations, whose reference would be
  their definition, and auipc, whose immediate the code does not sign-extend
  from 32 bits.
* `PassesPreserveBlock` is stated for the instructions that are folded exactly,
  and for blocks in which a location is accessed in one way, always or never at
  a constant address, as the NOTE at translator.rs:1264 assumes.
* In `SymbolicBlock` a callee returns: a stub that leaves the pc at its entry
  needs a specification that says so.
* `FunctionsAreFound` says when a function is found at all: one whose first
  line no jump reaches, and that the line before does not jump over, has no
  block of its own, and the translator panics when asked for it.
* `PartsAreDeclared` gives the type for entries that are neither recursive nor
  unreadable, nor made of such entries; in every case it says when reading fails.  After an error the
  stub of 0 bytes stays in the memo (cdwarfinterface.rs:58-63): of two fields of
  an unreadable type the first is dropped and the second is 0 bytes wide.
* `ArgumentsAtTheirRegisters` is exact: a parameter behind one that was dropped
  is tied to the wrong register.
* `VerifiesWhatReturns` says what the code does, not what its comment says.  The
  doc of control_blk (uclidinterface.rs:356-357) has it "automatically verify
  all functions with a specification".  The code takes those of the functions
  with a model (requested with -f, or called by one that is) that have a
  signature, and a signature needs a return type: a void function is not
  verified against its specification unless it is named on the command line,
  and a function that returns a value is verified without any.
* `ReadsAsWritten` is stated for operands that are printed and plain
  (`IsPlain`), and each of its three parts is needed: no name in it hides a
  global or did so earlier in the clause (`HidesGlobal`: typ_map keeps a bound
  variable after its quantifier, RenameGlobals knows globals only); no memory is
  read inside `old` or an extension (`ReadsInFunction`: lib.rs:555 visits the
  operands twice, and `old(g)` is dereferenced twice); and literals are folded
  within the widths (`FoldsExactly`).
* `CoreIsAccepted` says what is surely accepted.  What is not: a field of a
  global structure without an index (its type is only known behind one), a field
  with the name of a global, registers other than a0, sp and ra, an operation on
  two integer literals, a slice of a literal (the second operand is unwrapped),
  and any quotient, which folds but cannot be printed.  Bound variables and
  arguments always have XLen bits, whatever they are declared with, and a slice
  is inferred one bit too narrow.

Fairness.  The translator is one thread that takes a step as long as there is
one: `FairSpec` in `ControlFlow` and `FuncModels` is weak fairness of `Next`.
In `SymbolicBlock` it says that the verifier considers the body to its end.  No
other fairness is assumed, and no choice is assumed fair.

`Stopped` is the end of the program, so that deadlock checking stays on in every
run; in the other modules a state from which no entry, type or item can be
taken, where the code would loop or unwrap nothing, is a deadlock that TLC
reports.

## 4. What is proved

The theorems hold for every value of the constants, under the assumptions that
the modules name.  Each assumption describes what the part before hands over,
and TLC evaluates it on the constants of the runs:

* `DumpsAssumption` (`Frontend`): a dump is a sequence of lines, each with an
  address, a function, a class of instruction and a target.  Addresses may
  repeat and functions may be interleaved: the assertion on duplicate addresses
  is a step of the model.  `ListingsAssumption` asks for distinct addresses, for
  `BasicBlocks` alone; of the listings in `Frontend` that is proved.
* `GraphsAssumption` (`ControlFlow`), `ProgramsAssumption` (`FuncModels`):
  addresses are numbers, the function starts at a block, and the blocks of a
  graph are finitely many (the block map is a HashMap; `CycleIsFound` would be
  false of an infinite graph).
* `RequestsAssumption` (`FuncModels`): only functions of the binary are
  requested; on any other name gen_func_model stops at an `expect`
  (translator.rs:225-229).  `RequestsAssumption` (`UclidHeader`): a function
  with a model has a name; nothing ties the models to the functions that the
  debugging information describes.
* `WidthsAssumption`, `LinesAssumption` and `MemoryAssumption` (`SystemModel`):
  the width of a register is a power of two and a multiple of 8, as 64 is (the
  amount of a shift is taken modulo the width by a mask, system_model.rs:258);
  the addresses of the lines fit into a register, instructions and the targets
  of direct jumps are aligned, as the constant INST_LENGTH_IN_BYTES takes them
  to be; the operands of a line are registers and its immediate is a vector; a
  word shift by an immediate is by less than a word, which is all that its
  encoding has room for; a memory holds vectors of its own width, as its type
  says.
* `PassesAssumption` (`BlockPasses`): the width of a register is a multiple of 8;
  the registers hold vectors when the block starts, and a line assigns one of
  them; an immediate is a u64, which is what the literals of the IR hold
  (veriv_ast.rs:281); `LuiShift`, 12 on RV64, is less than a word.  Nothing is
  assumed of the memory.
* `TranslationsAssumption` (`SymbolicBlock`): the order is a flow order, which
  is the conclusion of `SortIsFlowOrder`.
* `ProgramsAssumption` (`DwarfTree`): the units have one root and fall or rise
  as gimli reports (`IsUnit`).
* `EntriesAssumption` (`HeaderTypes`), for the theorems about types: what a
  compiler writes.  The root is not a parameter; a type attribute refers to an
  entry of its unit that is not a function or a variable; the type of an index
  of an array is a base type at the first level, and it has the width of an
  address, as pointers have; the parameters of a function have different names.
  Types may refer to one another in cycles, be incomplete, or be local.

None of the properties is inductive as it stands.  The invariants that carry
them:

* `FrontendProofs`, first half (`TypeCorrect`, `UnwrapNeverFails`,
  `SplitIsSound`, `SplitIsDisjoint`, `StoredBlocksAreFinal`,
  `SplitLosesOpenTail`, `SuccessorsAreFound`): theorems of `BasicBlocks`.  `IInv` says what the loop variables mean: after n
  lines of the first pass every line that follows a jump, and every target, is
  an entry point, nothing else is, and exactly the jumps are exit points; in the
  second pass the open block is the run of lines ending just before the current
  one, contains no jump and no entry point but its first line, and every line
  before it is in a stored block.  The unwrap is safe because an exit line is
  always in the open block of some entry; a stored block is final because the
  entry of the open one lies after it; a line is lost only in the block that is
  open at the end; a successor that lies in a block is an entry point, and an
  entry point can only be the first line of its block.
* `FrontendProofs`, the front end as a whole (`EntriesAreUnique`,
  `NoFallThroughIntoFunction`, `MarksAreBoundaries`, `NothingButFencesLost`,
  `BlocksOfEveryDump`, `BlocksOfEveryDumpAreFinal`, `FunctionsFound`).  The
  first pass of read_binaries keeps the lines that are not fences, in order and
  with distinct addresses; in the second one the marks of the lines so far are
  determined by the functions seen.  `FrontendInv` puts the invariants of the
  two stages together: while split waits, its variables are initial; after
  HandOver its listing is the finished one, which is a listing in the sense of
  `BasicBlocks`.  So the theorems of `BasicBlocks` hold for every dump without
  an assumption on listings, and a function is found exactly if its first line
  opens a block that is closed, in whatever order the hash maps are iterated.
* `ControlFlowProofs` (`TypeCorrect`, `SortIsFlowOrder`, `CfgHoldsReachable`,
  `SortHoldsFunction`, `FoundCycleIsReal`, `StuckSortFindsCycle`).  `IInv`
  follows the phases: the nodes and the addresses still to visit are closed
  under successors; an expanded block has recorded an edge to each of its
  successors; every popped element has its predecessors before it.  `WalkInv`
  adds the other direction, without induction over paths: reachability is the
  least closed set, and what the walks have reached is in every closed set.
  `WalkInv` also says that what create_cfg has still to visit is the successor
  of a node, so that a missing block is the successor of a reachable one.
  `FindInv` is about find_cycle: the path has no block twice and follows edges,
  which the sort has recorded as long as the path has not entered a callee
  (`PathIsExpanded`), and a block that was left without a cycle is in every
  *progressive* set (one that has each block all of whose successors it has).  Were the search to fail,
  the entry would be in the least progressive set, and with it every block of
  the function.  But a stuck sort leaves a finite set of blocks in which each
  has a predecessor; the smallest such subset is a loop, and a progressive set
  without its loop is progressive still: a contradiction.  So the `expect` of
  topo_sort ("Should have found a cycle.") holds.
* `FuncModelsProofs` (`NoFunctionLost`, `PrintedModelIsClosed`,
  `ModifiesCovered`).  The invariant relates the recursion to the maps: a
  function that is generated and has no model is the function of exactly one
  frame; a frame has the models of its blocks, and its callees are those still
  to visit and generated ones; a function with a model is a stub or has a body
  whose callees are generated and whose modifies set contains what is inferred
  for all blocks of its graph.  When the stack is empty, generated means
  modelled.  It holds for mutual recursion, repeated requests and `Clear`.
* `SymbolicBlockProofs` (`TypeCorrect`, `ControlIsAhead`, `BodyRunsToReturn`,
  and `BodyImplementsMachine`, that is `Spec => M!Spec` without the fairness).
  The invariant adds to `NeverLosesControl` the link register while a callee
  runs: the statement it returns to is still ahead.
* `SystemModelProofs` (`PcIsInGraph`, `ReturnedAtEnds`, `ValuesFit`, and the
  action properties `ModSetIsComplete`, `ResultsCorrect` and `LoadsReadStores`),
  for every width of registers and every content of them.  Until a block has
  jumped, its pc is the address of the next line and the flag is clear; each
  form of instruction moves the pc by one line, to its target, or sets the flag,
  and it assigns what its class lists.  `ValuesInv` adds that every register and
  every memory location holds a vector of its width: the destination of a line
  is then one of the registers that `regs` has, and the operators of
  `BitVectors` mean what the manual says, operator by operator, so that each
  form of instruction can be compared with `RiscvIsa` in the integers.  A load
  behind a store of the same width undoes what the store did: the slice that
  the store writes and the extension of the load compose to the number modulo
  the width, or to its signed number.
* `BitVectorProofs` (`NumberBits`, `LtIsSigned`, `SignExtIs`, `LeftShiftIs`,
  `RightShiftIs`, `ARightShiftIs`) has the operators: a vector is a set of bits
  and a number is the sum of the powers of two at its bits.  That sum is a fold
  over a set; the lemmas show that the recursive function of the fold exists,
  that any element may be taken first, and that the bits of x below w are
  x modulo 2^w.  Powers of two themselves have no theory in the provers: 2^n is
  the number of subsets of a set of n elements, and doubling, sums of exponents
  and monotonicity follow from that.
* `BlockPassesProofs` (`PropagatedIsCurrent`, `PassesPreserve`).  An expression
  is a sequence of nodes, and its values and its folded nodes are functions
  over their places; the lemmas show that both functions exist and that what
  holds of a node when it holds of its operands holds of all: the first node at
  which it failed would have operands before it.  Every expression that the
  translator builds has a width at each node (`TypedBy`), which replacing
  variables by constants keeps and folding keeps where a literal results.
  `BlockInv` says that the statements to do are those of the last line, that
  registers and memory keep their domains and that the map holds u64 values of
  registers, current ones; a folded literal is a u64 because every operator of
  the folder wraps or masks.  `AgreeInv` adds for `PassesPreserveBlock` that a
  written location is an accessed one, in whichever way: a location accessed
  for the first time still has its initial content on both sides, and a store
  at one address disturbs no other access, since no two share an address.  For
  the operators of `ExactOps` the folder's u64 arithmetic is that of the vectors
  (`FoldedAgrees`); an operator that is not folded has operands that agree
  (`KeptAgrees`).
* `DwarfProofs` (`TreeIsNesting`, `WalkNeverPanics`, `TypesAreNotReentered`,
  `ReaderWalksTrees`, `VerifiedReturn`).  For the walk the invariant describes the nodes taken out
  of the tree: they are the path from the dummy to the parent of the last entry,
  the node at place j has depth j - 2 and every entry after it is deeper, so
  what is put back below it is enclosed by it; every other entry read already is
  below the one that encloses it.  The walk is `TreeSpec`; `ReaderWalksTrees` is
  the step simulation that carries its theorems over to `ReadSpec`, the
  whole reader.  For the types: the entries on the stack of the
  recursion are all keys of the memo, and only entries that are no keys are
  entered.  For this the memo is a map with insertion, as in the code.  For
  `VerifiesWhatReturns`, for any set of models, the invariant counts along the owners: the map of
  signatures has one for each function read so far that has a name and a return
  type.  The owners are built by sorting (`InOrder`) and by the recursive
  function of `FlattenSeq`; the lemmas show that both only arrange what they are
  given, so that no function of any unit is missed.
* `DwarfProofs`, the types (`PartsDeclared`, `ArgumentsKeepRegisters`,
  `MacrosDefined`).  `Unreadable` and `Declared` iterate a step as often as the
  unit has entries: the lemmas show that the iterations exist and have stopped
  by then, since both grow within the entries.  `ReadInv` describes the reading
  of one owner.  Each frame reads the type that the frame below asks for
  (`Links`).  What a frame holds of a declared type is that type, and what the
  memo holds of one is that type or the stub of a frame in progress (`Faithful`,
  `MemoFaithful`); that stub is never recalled in place of a declared type,
  because the frames above a declared type read types of lower ranks, and what
  they ask for has a lower rank still.  So an error means unreadable.  The converse
  is what the memo makes hard, because an unreadable type that fails leaves a
  stub that later passes for it.  `Spine` says that this does not reach the
  owner: from the first type it asks for, if that one is unreadable, the stack
  goes along first parts which are unreadable too and of which the memo holds
  nothing but the frames themselves, down to the one that fails; from there on
  no frame as far as the owner drops the error.  For
  `ArgumentsAtTheirRegisters` the parts that the owner keeps are the parameters
  with a name and a readable type, in their order, and the place of the k-th is
  k exactly if those before it are all kept.  For `MacrosAreDefined`,
  `SizedInv` says that all types read so far are in a set that contains the
  parts of its members and in which pointers and indices of arrays have the
  width of an address: a specification that indexes an array of pointers uses
  the macro which the index type of that array defines.

Only model-checked:

* termination (`Terminates`) and the liveness half of `ImplementsMachine`, which
  need fairness and ENABLED;
* `ReadsAsWritten`, `FoldsInRange` and `CoreIsAccepted`: specifications are
  trees, which recursive operators walk.  The prover does not accept such
  operators, and the induction theorems of its library take an operator as a
  parameter, which no backend can instantiate.  What the proofs above need of
  recursive functions over numbers and finite sets (`Number`, `FlattenSeq`,
  `Values`, `Folded`, `Unreadable`, `Declared`, `Inside`) is argued with a
  minimal counterexample instead.

## 5. What is left

Proofs: the passes over specifications, once a specification is represented by
its nodes, as the expressions of `BlockPasses` are.

Not modelled:

* the lexer and the parser of specifications: `sl_lexer.rs` cuts a text
  character by character and keeps nothing but its place in it, and the parser
  is generated from a grammar; the passes are modelled on the trees they
  produce;
* the decoding of sections and attributes, which is the gimli library's;
* argument parsing and file output, and the text of the template and vectre
  outputs, which keep no state of their own;
* infer_vars, and the pre- and postconditions that gen_func_model carries over
  from a specification unread.
