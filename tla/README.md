# HLSV: a TLA+ verification project

HLSV compiles a small shading language to GLSL (Vulkan flavour) and to a
*reflection* description of the shader's interface. The library (`src/hlsv`,
public headers in `src/include/hlsv`) is driven by `hlsv::Compiler::compile`;
`src/hlsvc` is the command line tool around it. Everything is sequential C++:
what makes it hard to test is not interleaving of threads but **long sequences of
individually legal statements and calls**, state that one statement leaves for
another, integer widths, a global sort at the end that renumbers what earlier
statements recorded, and steps of which one fails after others took effect.

The statements of a shader file and the calls of a client are the inputs of the
models; TLC tries them in every order, and the theorems are about
all of them.

## Inventory

| Component | State it keeps | Operations | Hard behaviour | What makes it correct |
|---|---|---|---|---|
| Top-level visitor (`visitor/visitor.core.cpp`) | `current_stage_`, the members it owns below | one `visit…Statement` per top-level statement, `visitFile` | order of statements, an error in the middle of a block, final placement of locals | exclusive slots, sound layouts, tables that agree |
| Type system (`hlsv_reflect.hpp`, `type/typehelper.*`, `type/functions.cpp`) | none | queries, sizes, promotion, constructor check | results returned in 8 and 16 bits | sizes equal to what the type occupies |
| Reflection info (`reflect/hlsv_reflect.cpp`) | the tables of attributes, outputs, uniforms, blocks, push and specialization constants, stages | look-ups, `get_highest_attr_slot`, `sort` | `sort()` renumbers blocks and members | sorted and still consistent |
| Variable manager (`visitor/var_manager.*`) | `globals_`, the stack `blocks_` of scopes | `find_*`, `add_*`, `push/pop_*_block` | shadowing, temporaries, stage functions | names unique in scope, budget of locals |
| GLSL generator (`gen/glsl_generator.*`) | five text streams, indentation | `emit_*` | two stages fed by one pass | text binds what reflection reports; declared before used |
| Stage functions (`visitor/visitor.statement.cpp`) | uses the variable manager and generator | one visit per statement | scopes, read and write permission per stage | balanced braces and scopes |
| Expressions (`visitor/visitor.expr.cpp`, `visitor/expr.*`) | `infer_type_` | atoms, operators, calls, lists | inference context in nested visits | typed as GLSL types them |
| Function registry (`type/functions*.cpp`) | static table of overloads | `CheckFunction`, `CheckConstructor` | which overload is taken | generic results |
| Literal parsing (`Visitor::parse_*_literal`) | none | digits to value | the ends of the 32-bit ranges | value or error |
| Compiler driver (`compiler.cpp`) | `reflect_`, `last_error_`, `paths_`, the files on disk | `compile`, `preparePaths`, `writeGLSL`, `cleanGLSL` | early returns, files left by a failed call, state of the call before | reflection and error describe the last call |
| Reflection writer (`reflect/writer.cpp`) | a file | text and binary form | binary field widths | reads back as written |
| Command line tool (`hlsvc/*`) | `Args` | argument loop, loop over files | one compiler for many files | one failure does not hide another |
| Error listener, console | last message, output | – | – | wording only |
| Grammar, ANTLR runtime, `fs/path.h`, premake | – | – | generated or third-party | – |

How they interact: `compile` parses the file (ANTLR), clears `reflect_` and
lets one `Visitor` walk the tree. Each statement of the tree is checked against
the reflection info and the variable manager, and then updates three things
separately: the reflection table of its kind, the global variables, and the text
stream of one or both stages. Errors are C++ exceptions (`VisitError`) that end
the visit wherever it is. At the end of the file the visitor places the
`local` variables above the attributes, checks that both stages exist and sorts
the reflection info. `compile` then writes the reflection file and the two GLSL
files as its options ask, and removes the GLSL files it was not asked to keep;
nothing in the repository produces bytecode yet.

## Modules

* **HLSVTypes** – type codes, the queries derived from their order, slot and
  layout sizes with the width of the C++ return type, promotion, and
  `CheckConstructor`. Pure operators.
* **Declarations** – a declaration `type<arg> name[size]` as the parser hands it
  over, and `Visitor::parse_variable`: when it fails (`ParseVariableOK`) and what
  it returns (`ParsedType`). A literal is its value, or `Unparsable` where
  `parse_integer_literal` raises an error.
* **TopLevel** – the visitor over a file. `status` is where the visit is; the
  reflection tables, `globals`, `current_stage` are the members of the same
  names; `vert_vars` and `frag_vars` are the generator's variable streams as
  sequences of lines, each with its binding and the names its initialiser uses;
  `open` holds the local variables of the block loop. One action per statement:

  | Action | Code |
  |---|---|
  | `ShaderVersionStatement` | `visitShaderVersionStatement` |
  | `VertexAttributeStatement`, `FragmentOutputStatement`, `LocalStatement` | the visits of the same names |
  | `HandleUniformStatement` | `visitUniformStatement`, a handle |
  | `OpenUniformBlock`, `UniformBlockMember`, `CloseUniformBlock` | `visitUniformStatement`, a block: header, loop body, end |
  | `OpenPushBlock`, `PushBlockMember`, `ClosePushBlock` | `visitPushConstantsStatement` |
  | `GlobalConstantStatement`, `SpecConstantStatement` | `visitConstantStatement` |
  | `EnterStage`, `LeaveStage` | `visitVertFunction`, `visitFragFunction` around their body |
  | `Finish`, `FinishWithoutStage` | the end of `visitFile` with `ReflectionInfo::sort` |
  | `…Rejected`, `Second…` | a check failed: `VisitError`, nothing changed |

  A block is three actions because an error can strike between its members, and
  what the earlier members changed stays. The checks of every other statement
  precede its changes, so such a statement is one step. `sort()` uses `std::sort`,
  which is not stable: the model lets it return every order its comparison
  allows.
* **BindingSpace** – the abstract specification of a table of binding slots: an
  owner takes all its slots in one step, only free ones, and a slot keeps its
  owner. `TopLevel` is checked to implement it three times: attribute slots,
  fragment outputs, and (set, binding) pairs. The refinement mapping computes the
  owner of a slot from the table, as the look-ups do.
* **ReflWriter** – `ReflWriter::WriteBinary` over the tables of `TopLevel`: the
  bytes of the reflection file from the stage byte on, a name standing for one
  byte. The repository has no reader, so the module has one of its own
  (`ReadBinary`), which finds the tables from nothing but the bytes.
* **MCTopLevel** – declaration, literal and initialiser sets for TLC.
* **Operators** – `TypeHelper::CheckBinaryOperator`: the type of a binary
  operator, or `Error`. Pure operators.
* **FunctionRegistry** – the built-in functions as the table `Populate` fills
  (`Functions`: a sequence of overloads for each name), and `CheckFunction`: the
  first overload whose parameters match (`Chosen`) and what the call returns.
* **IntegerLiterals** – `parse_integer_literal`: which literals are accepted, as
  which type, with which bits. The width of a word is a constant.
* **Expressions** – the visit of one expression, of any depth. `frames` is the C++
  stack of the nested visits, each with the operands it has so far; `infer_type_`
  is the member they share; `value` is the `Expr` returned in the end. The tree is
  the input, chosen node by node:

  | Action | Code |
  |---|---|
  | `VariableAtom`, `BooleanLiteral`, `IntegerLiteral`, `FloatLiteral` | `visitVariableAtom`, `visitScalarLiteral` |
  | `Step` | `visitPostfixExpr`, `visitPrefixExpr`, on a variable |
  | `Enter` | the start of the visit of a node: what is refused before any operand (`EnterOK`), and `infer_type_` set for the operands (`InferIn`) |
  | `Leave` | the rest of the visit: the checks on the operands (`LeaveOK`), the type and constness of the result (`ExprOf`), `infer_type_` put back (`Restored`) |

  What a node checks as soon as one operand is back is `OperandOK`. An `Expr` has,
  besides the members of the class, what the properties need: the scopes of the
  variables read below it and the number a literal was written as. C++ may visit the
  operands of a binary operator in either order; the model has the left one first, and
  `InferTypeMatchesPosition` says why the order makes no difference.
* **MCExpressions** – contexts, variables, literals and nodes for TLC.
* **StageFunction** – the visit of the functions `@vert` and `@frag`. `blocks` is
  the stack of scopes of the variable manager, each scope with the construct that
  pushed it; `indent` is the length of the generator's indentation; `text` has
  the lines of each function, with their indentation, the variable they declare
  and the variables they use, each use with the line whose declaration
  `find_variable` returned. The parse tree is the input, one statement at a time:

  | Action | Code |
  |---|---|
  | `StageFunction`, `EndStageFunction` | `visitVertFunction`, `visitFragFunction` around their statements |
  | `DeclareGlobal` | any top-level statement that adds a global, between the functions |
  | `VariableDeclaration`, `VariableDefinition`, `Assignment`, `ControlStatement` | the visits of the same names |
  | `IfStatement`, `Elif`, `Else`, `WhileLoop`, `DoLoop` | the visit up to the body: condition checked, scope pushed, line emitted, indented |
  | `ForLoop`, `ForHeader` | `visitForLoop`: the counter is added to a new scope, *then* the initial value, the condition and the updates are visited |
  | `CloseBody` | the visit after the body: outdented, line emitted, scope popped |
  | `…Rejected`, `SecondFunction` | a check failed: the visit is over |

  An expression is an atom, one binary operator on atoms, `++`/`--`, or a list of
  atoms; lvalues have any path of swizzles and indexers. A body of one statement
  without braces is a block of one, as it is for the visitor.
* **MCStageFunction** – declarations, expressions, conditions and updates for TLC.
* **Compiler** – `Compiler::compile` by processes that each own one `Compiler` and
  share the files. `files` maps a file to its content (a text, or what a call
  wrote), `reflect_` and `last_error_` are the members, `pc` is the place in
  `compile()` a process has reached. Each step of the function that a failure or
  another process can follow is an action: `Begin`, `PreparePaths`, `OpenInput`,
  `Parse`, `Visit`, `WriteReflection`, one `WriteGLSL` for each of the two files,
  `Finish`, and one action for each way it fails (`InputMissing`, `PathsThrow`,
  `OpenFails`, `SyntaxError`, `VisitFails`, `WriteReflectionFails`,
  `WriteGLSLFails`, which `Undo` ends). `cleanGLSL` removes one file in `CleanVert`
  and the other in `Undo` or `Finish`. Whether a text parses and can be visited
  is a constant of the text: what happens inside the visit is the subject of
  `TopLevel` and `StageFunction`.
* **Args** – `Args::Parse`, one step for each word of the command line, a word
  being a flag, a limit, a name or a number, and what a command line means word by
  word (`ParsesAsMeant`).
* **HlsvC** – `main()` of the command line tool, composing `Args` and `Compiler`:
  processes that parse their command line, step through their input files,
  compile each and report the result.
* **MCCompiler**, **MCHlsvC** – files, options and command lines for TLC.
* **TopLevelProofs**, **BindingProofs**, **EmissionProofs** – theorems about `TopLevel`,
  each module on top of the one before: types, slots, uniforms, blocks and push
  constants; what the tables have to do with the symbols, with `sort()` and with
  `BindingSpace`; the emitted text.
* **WriterProofs** – on top of these, the theorem about `ReflWriter`.
* **StageFunctionProofs**, **ExpressionsProofs**, **CompilerProofs** – theorems about
  `StageFunction`, about `Expressions` with the tables of `FunctionRegistry`, and about
  `Compiler` and `HlsvC`.
* **StateSequences** – the lemmas these share: sequences that grow and shrink at the
  end, the least element of a set of numbers, and functions that take one step at
  each number.

## Runs

Passing runs. The runs of `TopLevel` use three or four interchangeable names
(symmetry), which bounds a program to as many declarations: enough for two
variables that compete and one between them that `sort()` moves.

| Run | Inputs and bounds | Shows |
|---|---|---|
| `interface` | three names; scalar, `int[2]`, `mat3` (1, 2 and 3 slots); indices 0, 2, 3, 5 of 6 attribute slots, so that ranges meet, overlap from both sides and pass the end | `AttributesDisjoint`, `OutputsDistinct`, `LocalsPlaced`, `ReflectionSorted` (of attributes and outputs), and that attributes and outputs implement `BindingSpace` |
| `uniforms` | four names; value members of 4 and 12 bytes in blocks of at most 24 bytes, subpass inputs with index 0 and 256; a 2 by 2 grid of locations, and literals one beyond it | `UniformLocationExclusive`, `SubpassIndexesUnique`, `BlockLayoutSound`, `BlockIndexesConsistent`, `ReflectionSorted` (of uniforms and blocks), `BinaryReadsBack`, and that uniform locations implement `BindingSpace` |
| `mixed` | three names and one that is refused; declarations for each kind of statement, an unparsable literal, a version that is too new; constants initialised from literals, names, lists and casts | `SymbolsReflected`, `EmissionMatchesReflection`, `ReflectionSorted` (of push constants), `PushLayoutSound`, `DeclaredBeforeUse`, `BinaryReadsBack` |
| `functions` | both functions with at most eight lines together, headers and closing braces counted: in one function two nested constructs around a statement, or four lines spread over two functions; two function variables, updated by `++` and `+=`, an inter-stage local that is read, assigned and added to, and a constant declared at any time with the name of a function variable | `ScopesAgree`, `NoShadowing`, `PermittedByStage`, `JumpsInLoops`, `TextWellNested` |
| `expressions` | four nodes and leaves of every kind, in the contexts of no type, a scalar, a vector and an array; variables of each kind of scope, integer literals on both sides of each boundary of an 11-bit word | `InferTypeMatchesPosition`, `ConstantsReadConstants`, `LiteralsDenote`, `IndexWithinBounds`, `NoNeedlessConversion`, and that every `Expr` has a type of the language (`TypeOK`) |
| `tool` | two processes, one with any of ten command lines of up to five words, on good, faulty and missing files, some sharing outputs; every write and open may fail; output files must exist for their paths to resolve | `ErrorMatchesResult`, `ReflectionFollowsVisit`, `OutputsAsRequested`, `ReportsAreTrue`, `ArgumentsTakenAsMeant`, `EveryFileReported` |

`Terminated` is the only step of a visit that is over, so deadlock is checked in
all runs: no status of the visitor, and no place in `compile()`, is a dead end.

`EveryFileReported` is the only liveness property. Its fairness is weak fairness
of each process of the tool: the operating system goes on scheduling a running
process, and every call in `main()` and `compile()` returns. There is no liveness
property of the visitor: a visit takes one step per statement of a finite tree,
so that it ends is no fact about this code but about the length of its input.

Each bound cuts something that repeats. A second loop around a loop, or a third
scope in a second, meets the same code as the one before: the stack of `functions`
is three deep, a jump in an `if` in a loop. A third process would share files with two others as those two do
with each other. Limits are small so that programs reach them.

Runs that find what the code does against what the repository says:

| Run | Violated | What happens |
|---|---|---|
| `locals_budget` | `LocalsWithinBudget` | slots × count is returned in 8 bits: `local mat4 x[64]` costs nothing (`hlsv.hpp:158` promises a number of slots) |
| `spec_default` | `SpecDefaultReflected` | the default of a specialization constant initialised from a constant is reflected as 0 |
| `push_initialiser` | `InitialisersAreCompileTime` | a push constant is accepted as a compile-time constant |
| `stale_reflection` | `ReflectionOnlyOnSuccess` | a call that fails early leaves the reflection info of the call before |
| `throws_on_posix` | `ReturnsBoolean` | where the path library uses `realpath`, `compile()` throws unless its output files exist |
| `image_load` | `LoadsGiveTexels` | `load(image, coord)` has type `void`: only the type code of the image is passed on, and its texel format is lost |

`PermittedByStage` says of a target that it may be written, and nothing more. A compound
assignment, `++` and `--` take the old value from their target too, and `visitLvalue` does
not ask whether the stage may read it: the vertex function may say `g += 1` of a local `g`,
although `g = g + 1` is refused. In the GLSL the target is an `out` variable, which a stage
may read, so this is harmless; the model marks such uses (`"update"`).

`OutputsAsRequested` and `ReportsAreTrue` are about calls whose outputs, and inputs, no
other process writes. What two processes that share outputs leave behind is anyone's
guess, and no line of the repository promises more; that each still reports the result and
the reflection info of the text it read is `ErrorMatchesResult` and
`ReflectionFollowsVisit`, which have no such condition.

## Proofs

All theorems are checked by TLAPS for every value of the constants that satisfies the
assumptions named in the modules. A theorem that needs more says so as a hypothesis.

### The visitor over a file

Every set of names, declarations, literals, initialisers and versions, files of any
length, and all limits. Three hypotheses recur. `NarrowLimits` says that the limits on
locations are at most 256, so that the cast to `uint8_t` of an index that was accepted
loses nothing: under a limit above 256 the statements `attr(0)` and `attr(256)` are both
accepted and stored as location 0. `BlockSizeFits` and `PushSizeFits` say the same of
sizes and `uint16_t` (at most 65535), and `FewUniforms` that a file has at most 256
uniforms and 256 uniform blocks, which is what the indices of `sort()` can number.

* `TypeCorrect` (`TopLevelProofs`): `TypeOK` is inductive as it stands; the work is in
  the helpers. Every conversion that the code writes as a cast has a lemma with its
  width; `Sort` needs that a reordering of a sequence stays in its type, and `Reindexed`
  that a finite set of block positions has a last element (`GreatestElement`, from
  well-founded induction). A part of it is that, until the file is refused,
  `current_stage_` is set exactly inside a function. This theorem is what makes the field ranges of the tables
  facts instead of hopes: no statement writes a location, offset or index outside its
  C++ type.
* `AttributesNeverOverlap`, `OutputsNeverCollide`: with `NarrowLimits`,
  `AttributesDisjoint` and `OutputsDistinct`. They are inductive together with `TypeOK`:
  `NoOverlapDisjoint` shows that the three-way test of `visitVertexAttributeStatement`
  is exact, and `SortKeepsDisjoint` that a permutation cannot create an overlap.
* `UniformLocationsAreExclusive`: with `NarrowLimits`,
  `UniformLocationExclusive`. The invariant `LocationsInv` adds what the property says
  nothing of (`BlocksApart`): a block being visited is at a location that no uniform
  outside it and no closed block has, although its own members are entered in the same
  table one by one.
* `SubpassIndexesAreUnique`: `SubpassIndexesUnique`, whatever the limits. The index was
  cut to 8 bits when the declaration was parsed, before it is compared.
* `BlocksAreNumbered`: with `NarrowLimits`, `BlockIndexesConsistent` in every state in
  which `FewUniforms` holds. The invariant `NumbersInv` is exact without the hypothesis:
  it says, modulo 256, that a member has the number of its block and a block the numbers
  of its members. That `sort()` renumbers them consistently is the largest part: a
  permutation of blocks and of uniforms, each with its inverse, composed.
* `BlocksLaidOut`, `PushConstantsLaidOut`: `BlockLayoutSound` with `NarrowLimits` and
  `BlockSizeFits`, `PushLayoutSound` with `PushSizeFits`. `LayoutInv` and `PushInv` say
  that the open block's offset is past all of its members, and that none of the 16-bit
  sums wraps.
* `GlobalsAreReflected` (`BindingProofs`): `SymbolsReflected`. Every interface global is
  in its table and every entry of a table is a global, which takes that names are unique
  across all kinds (`UniqueNames`).
* `ReflectionIsSorted`: with `NarrowLimits`, `BlockSizeFits` and `PushSizeFits`,
  `ReflectionSorted`: attributes, outputs, uniforms, blocks and push constants, each in
  the strict order of their keys (`PushConstantsOrdered` for the last). Nothing is said
  of specialization constants, which `sort()` leaves in the order of their declarations.
  That the order by a key is strict needs that no two attributes start at the same
  slot (`AttributesTakeSlots`: a value type takes at least one slot, and fewer than
  would wrap), and, for blocks, `StackedInv`: the members of one block have growing
  offsets.
* `OutputsAreABindingSpace`, `AttributesAreABindingSpace`, `UniformsAreABindingSpace`:
  with `NarrowLimits`, and for uniforms `BlockSizeFits`, `TopLevel` implements
  `BindingSpace` under each of the three refinement mappings. Every step maps to one
  claim of free slots or to a stutter; that `sort()` is a stutter is the interesting
  case: it moves the entries, not the owners.
* `DeclarationsComeFirst` (`EmissionProofs`): `DeclaredBeforeUse`, from `InitialisersInv`:
  an initialiser names constants only, and a constant has its line in both streams.
* `TextMatchesReflection`: with `NarrowLimits`, `EmissionMatchesReflection`.
  `EmissionInv` ties the lines of each kind in each stream to the entries of the table
  while the file is visited (`AttributesTold` and its like), and so what is in a stream
  to what may be there; `HeadersInv` says of the text itself that every member line has
  only members between it and the header of its block, and, while a block is open, that
  the stream ends in its header and members. That both survive `sort()` and the locals
  that are placed in the end is `Finish`'s lemma.
* `LocalsArePlaced`: with `NarrowLimits`, `LocalsPlaced` in every state in which
  `LocalsFit` holds: no local takes more than the 255 slots that the `uint8_t` of
  `get_type_slot_size` can count (what one that does leads to is the run
  `locals_budget`). `PlacedInv` says that nothing placed is declared before the last
  step, so all of it is about `Finish`. The slots below a local are a running sum,
  `LocalSlots`; that it grows with each local (`SumsGrow`), and that the sum over the
  first locals is a part of the sum over all (`LocalSlotsOfPrefix`), is shown from the
  least place where it would fail. `RanksReached` gives each line its local, and
  `AttributesBelowLocals` puts them above the attributes, sorted or not.

Three more theorems of `EmissionProofs` bound what a run finds wrong: under a hypothesis
that leaves out the cause the run shows, the property holds of every file, so there is no
second cause. None assumes anything of the limits.

* `OnlyPushConstantsVary`: `InitialisersAreCompileTime` in every state without a push
  constant. Every name an emitted initialiser uses is one of `CompileNames`, constants
  and push constants (`UsesFixed`); such a name stays one as globals are added, and
  `SymbolsReflected`, which makes names unique, says what `Find` returns for it.
* `DefaultsAreLostNotChanged`: `SpecDefaultReflected` in every state in which no reflected
  default is 0. The invariant `SourceOrZero` says of each default that it is the value of
  its initialiser or 0: a list, a cast and a name lose the value and never change it.
* `SmallLocalsKeepTheBudget`: `LocalsWithinBudget` in every state in which `LocalsFit`
  holds. `CountedWithinBudget` says what `visitLocalStatement` checks, of the slots as it
  counts them, and needs no hypothesis; with `LocalsFit` the two sums are the same, shown
  from the first local at which they would differ (`TakenAsCounted`).

### The binary reflection file

`WriterProofs`: `BinaryIsReadable` states `BinaryReadsBack`, that a reader which knows only
the bytes gets every table back as the visitor left it. Two hypotheses. `LiteralsFit`: a
literal that initialises a specialization constant is one 32-bit word, which is all that
`default_value` holds. `TablesFit`, of the state: no table has more than 255 rows. The
count of a table is cut to a byte and nothing in the code keeps a file from having more
(the hazard at `visitor.core.cpp:373`), so the theorem is false without it.

* Bytes: `LE16` and `LE32` are undone by `From16` and `From32` at any position
  (`FitsWord`, `OfWidth`), and the size byte tells an array of one element from a
  variable that is no array (`TypeRead`).
* Rows: what is written from a row is as wide as the reader takes it to be, and gives the
  row back, for each of the five kinds of fixed width, and for a block, whose width is
  that of its members. Members are a set: that they come back takes `Ascending`, a list of
  each once, to be as long as the set is large, which is at most 255 (`FewMembers`).
* Tables: the start of row `k` in a flattened table is a running sum of the widths before
  it. That the writer's rows are found there is shown from the least row that is not.
* The state: `WrittenInv` (`WrittenInductive`) says that what the visitor puts in a table
  is in the range the file has room for, narrower than the C++ types in places
  (a type code is one byte), and `MembersNumbered` that a block lists numbers `sort()`
  gave. `DefaultsInductive` carries `LiteralsFit` through names, casts and the
  constants that refer to other constants.

### Stage functions

`StageFunctionProofs`: every set of declarations, expressions, lvalues and operators,
and functions of any length and nesting. Assumed: the globals a file may declare are the
kinds a visit of a declaration adds (`GlobalPoolAssumption`).

* `TextIsWellNested`, `JumpsStayInLoops`: `TextWellNested` and `JumpsInLoops`. Both
  follow from one inductive invariant, `IInv`, that ties the stack of scopes to the
  text: the stack is as high as the text is deep (`Depth`), the outermost scope is the
  function's (`Stack`), and for every scope there is the line that opened it with
  nothing as far out after it (`Openers`). That is why the search for a loop on the
  stack finds one in the text. In the middle of a `for` the stack is one scope ahead of
  the text (`Opened`). The proof has one lemma per kind of step: a plain line
  (`PlainKeeps`), a line that opens a body (`OpenerKeeps`), and one that closes it
  (`CloseBodyKeeps`).
* `NamesMeanTheSame`: `ScopesAgree`, that GLSL finds, reading the text alone, the
  declaration that `find_variable` returned. `ScopesInv` says for the open scopes what
  the property says for the lines of the past: a variable of a scope is declared by a
  line of the text that still stands (`Declared`), and every declaration that still
  stands is in a scope (`Standing`). The counter of a `for` is the hard case: it is in
  its scope before any text declares it.
* `NothingIsShadowed`: `NoShadowing`, that a declaration takes neither the name of a
  variable of the function in scope, by `Distinct` within the stack, nor that of a global
  declared before the function, by `GlobalsKept`: no global that was there when a
  function was entered has the name of a line of its text, whatever comes later.
* `StagesKeepToTheirVariables`: `PermittedByStage`: what the expressions of a function
  read, and what its assignments and updates write. `Origin` has for each variable the
  place it came from, which decides what may be done with it.
* `StageFunctionTypes`: `TypeOK`.

### Expressions

`ExpressionsProofs`: every word of at least nine bits, every set of variables, literals
and nodes, and trees of any depth and width. Assumed: a context is a type of the
language (`ContextsAssumption`; this leaves out the type code that a swizzle of more
than four components makes up, a hazard of the statement visitor), and a variable has
one (`VariablesAssumption`).

* `InferTypeIsPositional`: `InferTypeMatchesPosition`, inductive together with the shape
  of the stack. The lemmas are about sequences that grow and shrink at the end: what a
  node finds depends on the nodes below it alone, none of which a step above it changes
  (`PositionsKept`, `PositionsEntered`).
* `ConstantsAreClosed`, `LiteralsDenoteWritten`: every `Expr` on the stack is `Sound`,
  that is, constant only if what it reads is, and of the value written if it is a
  literal. Each kind of node makes a sound `Expr` of sound operands.
* `LiteralIndexesFit`: `IndexWithinBounds`. An index is compared as unsigned; that this
  also refuses the negative ones needs `LiteralsDenote`, that no array has more elements
  than an `int` counts (`ExtentSmall`), and that the type of the index was checked
  before the array was visited (`IndexChecked`).
* `ExpressionsHaveTypes`: `TypeOK`, from `TypedInv`. The operators compute on type codes
  (`MakeVectorType`, a column of a matrix, a component of a vector); the proof goes
  through all of them, and through what each of the built-in functions returns. The
  type of a load from an image is `void` there, as in the code.
* `FirstMatchIsBest`: `NoNeedlessConversion`. `CheckFunction` takes the first overload
  that matches. Why that is the best one: in each table an entry is either disjoint from
  a later one in some parameter (`Exclusive`) or nowhere worse (`Before`); `GoodTable`
  is that property of a table, and is proved for each shape `Populate` builds.


### The compiler and the tool

`CompilerProofs`: any number of processes, files, texts and options.

* `TypeCorrect`: `TypeOK`.
* `ErrorTellsResult`, `ReflectionIsCurrent`: `ErrorMatchesResult` and
  `ReflectionFollowsVisit`, from one inductive invariant `IInv`. Neither property is
  inductive alone: that a finished call describes the text it read needs to know, at
  every place of `compile()` in between, which text was read and whether it can be
  visited (`VisitedText`).
* `OutputsSurviveOthers`: `OutputsAsRequested`, for processes whose calls share no file.
  The invariant `OInv` says how far the outputs of a call have been written or removed at
  each place (`Progressing`); the lemma `OthersLeaveOutputs` that a step of another process
  touches none of them does the rest.
* `ToolIsCompilers`: `ToolSpec => Spec`. Each step of the tool is a step of its compiler
  or changes nothing the compiler sees. It needs `ToolInv`, that the file the tool asks
  for next is one the compiler may be asked for, which is `Args` and `ToolAssumption`.
  With it the theorems above hold of the tool.
* `ReportsTellTheTruth`: `ReportsAreTrue`. `JudgedInv` says that a file that nobody may
  write keeps its first content (`FilesKept`) and that a call at any place past the
  visit has judged that content (`Judged`); `Reporting` that every report made so far is
  the result of such a call.
* `WordsMeanWhatTheySay`: `ArgumentsTakenAsMeant`, for command lines of any length.
  `Meant(words, n, a)` is what the property says of the first `n` words, and, beyond the
  property, when the next word has been taken for the value of a limit (`Skips`); each
  case of the argument loop keeps it (`MeantOneMore`), and the first word at which it
  failed would be one at which a case does not (`ParseIsMeant`). Nothing but
  `IsCommandLine`, that the line is made of words, is assumed.

### How the proofs do without induction

The provers behind TLAPS (Z3, Zenon, LS4) cannot instantiate the library's induction theorems, whose
parameter is an operator. What has to be shown for every element of a sequence is shown
from the least element for which it fails (`LeastElement` of `StateSequences`, from
well-founded induction over the natural numbers). For the same reason what the code
computes in a loop, and a theorem is about, is a recursive function in the model
(`LocalSlots`, `ParseArgs`, `ReadBlocks`, and `FlattenSeq` of the library): `StepsExist`,
`ParsesExist`, `FoundBlocksExist` and `FlatteningsExist` show that a function with such an
equation exists, and so that the model's is one.

### Only model-checked

Every invariant and every refinement of the passing runs is stated by a theorem.
What is left to TLC:

* `EveryFileReported`: liveness under fairness, which is out of this prover's reach.
* The properties of the runs that expect a violation: all six are false. Three of them,
  `InitialisersAreCompileTime`, `SpecDefaultReflected` and `LocalsWithinBudget`, are theorems
  once the cause that a run shows is left out.

`BlocksLaidOut` and its like say nothing of limits beyond their hypotheses, and there is
nothing to say: under such limits a cast does lose bits, and the hazards list what
follows.

## Not modelled, and why

* The text of the GLSL files and of error messages: only which names are
  declared, at which binding or indentation, and using which other names.
* Parsing: `HLSV.g4` fixes which statements exist; the parser is generated.
* Function bodies in `TopLevel`: a stage function is entered, and either left or
  ended by an error. Its statements are the subject of `StageFunction`, which in
  turn takes global declarations as given; their composition is planned.
* Nested expressions in `TopLevel` and `StageFunction`, whose expressions are as
  deep as their statements tell apart; `Expressions` has them nested, for one
  expression at a time with the variables in scope as given.
* The text form of the reflection file, which is layout. The binary form leaves
  out the size of the push block as a whole (`push_layout`), and so does
  `BinaryReadsBack`.
* The text of expressions: only what they are, not how they are spelt in GLSL. Reading
  the code one finds that `visitTernaryExpr` (`visitor.expr.cpp:196-198`) writes neither
  the `:` between the alternatives nor the closing parenthesis, and that `%f` and `%u` in
  `Expr::set_literal_value` lose small floats and the `u` of an unsigned literal.
* The error listener and the console, which are wording, and everything that is
  vendored: the headers of the ANTLR runtime in `src/include/antlr` are 14066 of the
  19686 lines of code in the repository, seven tenths. The models cover most of the
  part that is HLSV's own.
* Writes that fail after a file was opened: the code never looks, so a generated
  file of the model stands for a whole or a short one. Symbolic links, and a
  process that is killed in the middle of `compile()`: the next call starts from the
  files it finds, as after a failed one.
* `--rl-uset 0` lets a uniform statement without `set` fail its own error
  report (`visitor.core.cpp:329` dereferences `ctx->Set`); the model raises the
  error.
* Indices above 255 of uniforms and blocks, and blocks longer than 65535 bytes:
  the conversions are in the model, but such programs have hundreds of
  statements.

## Plan

Modelled: `TopLevel` with `HLSVTypes`, `Declarations`, `BindingSpace` and `ReflWriter`;
`Compiler` and `HlsvC` with `Args`; `StageFunction` with `Operators`; `Expressions`
with `FunctionRegistry` and `IntegerLiterals`; the proofs above.

Proved: every invariant of the passing runs, the refinements, and how far three of the
six findings reach. Liveness stays with TLC.

A module that composes `TopLevel`, `StageFunction` and `Expressions` would add little:
they meet in the global variables, which only grow between functions
(`DeclareGlobal`), and in the type and constness of an expression.
