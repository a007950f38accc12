# llast in TLA+

llast builds expression trees in memory, walks them with visitors, and compiles them with one
of the visitors to LLVM instructions that are run in the process. The library is sequential:
no threads, no messages, nothing on disk. What makes it hard is the long chain of small
handlers that have to agree with each other through stacks: a walk that recurses over a tree,
callbacks that push and pop values, scopes and ancestors, and many ways to stop in the middle.

Paths below are relative to the repository; the sources are in `src/src/`.

## 1. Inventory

| Component | State | Operations | Talks to |
|---|---|---|---|
| AST node classes (`AST.hpp`, `AST.cpp`) | immutable nodes, each owning its children; `Scope` maps a name to a `Variable` | `nodeKind`, `dataType`, accessors, `forEach` | read by the walker and the visitors |
| Builders (`AST.hpp`) | vectors and maps under construction | `addExpression`, `addVariable`, `addFunction`, `build` | make the nodes |
| `ExpressionTreeWalker` | the C++ call stack | `walkTree` and a `walkX` per kind of node | calls back its visitor before and after each node |
| `ExpressionTreeVisitor` | none | empty handlers | the contract between walker and visitors |
| `CodeGenVisitor` (`ExprRunner.cpp`) | `allocaScopeStack_`, `valueStack_`, `ancestryStack_`, the function and basic block being filled | one handler per callback, `lookupVariable`, `createOperation`, `getType` | called by the walker, appends instructions with `llvm::IRBuilder` |
| `ExprRunner` (`compile`, `runInt32Expr`, `runFloatExpr`, `init`), `ExecutionContext` | LLVM's target registry, a context and a JIT per run | wrap the expression in a Module, walk it, look the symbol up, call it | everything above |
| `SimpleJIT` and LLVM | layers of compiled modules | `addModule`, `findSymbol` | external |
| `PrettyPrinterVisitor` | `indent_`, an output stream | a handler per callback | called by the walker |
| `Exception.hpp` | | `ARG_NOT_NULL`, `DEBUG_ASSERT`, the exception classes | thrown everywhere |
| `SigHandler.cpp` | | prints a stack trace on a signal | |

What is hard, and what makes each component correct:

* **Walker.** Null children, kinds of node it does not know and exceptions from any callback
  end the walk early. Correct: children left to right, each node announced once and closed
  after all it contains, no callback after a failure (`cleanUp` included), and every walk
  returns.
* **CodeGenVisitor.** A handler pops as many values as its node has operands, but only some
  kinds of node leave exactly one value; scopes shadow each other; types are compared on the
  tree while instructions get their types from the allocas; an exception leaves every stack as
  it is. Correct: every operation takes its own operands, names are bound lexically, the
  instructions are well typed and in static single assignment form, no error is missed or
  invented, and there is no undefined behaviour.
* **Builders.** `build()` moves the members out, a second variable of the same name is dropped
  without notice, and a plain pointer handed to a ModuleBuilder can give a Function two owners.
  Correct: no other node ever has two owners, nothing leaks, and the Modules built are trees.
* **ExprRunner and JIT.** `init()` has to come first, the symbol may be missing, the basic
  block may go on after a `ret` or lack one. Correct: on expressions that end in their one `Return`,
  a run returns what the expression evaluates to, or throws.
* **PrettyPrinter.** `indent_` follows the depth only while nothing throws, and nothing resets it.
  Correct: the tree can be read off the lines all the same.

`PROJECT.json` lists the hazards line by line.

## 2. Modules

| Module | Models |
|---|---|
| `Ast` | the trees: what nodes own, their types (`dataType()`), a numbering of the nodes, lexical binding read off the tree |
| `AstTerms` | constructors of trees for TLC, one per `make` function or builder, and `Wrapped`, the Module that `compile()` and `makeExecutionContext()` put around an expression |
| `DocumentOrder` | abstract: what a visitor may rely on, without call stack or child positions |
| `TreeWalker` | the walker with an arbitrary visitor, one action per way a walk function goes on |
| `CodeGen` | `CodeGenVisitor` composed with the walker |
| `Translation` | abstract: what compilation promises, said of the tree alone |
| `RunValues` | what values compiled code computes with: words that wrap, divisions without result, floating point as terms, memory nothing was stored to |
| `Evaluation` | abstract: what a run promises, said of the tree alone |
| `ExprRunner` | a call of `compile`, `runInt32Expr` or `runFloatExpr`, from `init()` to the value returned, composed with `CodeGen` |
| `Builders` | constructors, builders, destructors, and who owns which node |
| `PrettyPrinter` | `PrettyPrinterVisitor` composed with the walker, one printer for several walks |
| `MCTreeWalker`, `MCCodeGen`, `MCExprRunner`, `MCPrettyPrinter`, `MCBuilders` | the trees the runs use; `MCExprRunner` also an evaluator that is recursive over trees |
| `TreeWalkerProofs` | the theorems about the walker, also that it is bounded |
| `CodeGenProofs` | the theorems about the code generator's types, ancestors and scopes |
| `OperandProofs` | the theorems about the values on `valueStack_`: which ones operations find, and which remain |
| `ErrorProofs` | the theorems about the errors of a compilation |
| `CodeProofs` | the theorems about the instructions: their types, single assignment, that they are the translation of the tree |
| `RunnerProofs` | the theorems about a call: the order of the instructions, defined behaviour, that running them evaluates the tree, to what value, and in bounded time |
| `PrinterProofs` | the theorems about the printer |
| `BuilderProofs` | the theorems about ownership, and that Modules are trees |

`CodeGen` and `PrettyPrinter` extend `TreeWalker`, `ExprRunner` extends `CodeGen`. Each layer
implements an abstract specification: `TreeWalker` implements `DocumentOrder`, `CodeGen`
implements `Translation`, and `ExprRunner` implements `Evaluation`. `Builders` says where the
trees come from that the others walk.

**Trees.** A tree is a sequence of node records and a node's address is its position. Positions
are handed out in document order, so a subtree is an interval `n .. ast[n].last`; "m encloses
n" is then a comparison of numbers, which is what makes the proofs possible without induction
over trees. `IsTree` states this and nothing about which trees are sensible: null children,
names that are not declared, mismatched types and empty Blocks are all trees. A node `lacks` when a
pointer of its own is null: the Variable of a reference or an assignment, the Scope of a Block or a
Variable in it. `repeats` are the names that several Variables of a Scope have: no builder makes
such a Scope, but its constructor takes a map whose keys need not be the names; such Variables are
taken to be of one type. `Undefined` is `dataType()` of a null pointer, of an empty Block, or of a
node whose Variable is null.

**Walker.** `calls` is the call stack: for each activation the node it was given and the next
child. `Enter` is `visitingNode` and `visitingX` at the head of a walk function, `Leave` is
`visitedX` and `visitedNode` at its end, `VisitLeaf` is a walk function without children,
`SkipBranch` a null branch of a Conditional. `NullChild` and `UnhandledKind` are the two
exceptions of `walk()`. `FailEntering` and `FailLeaving` let the visitor throw in any callback on
a node, and `FailOutside` in `initialize` or in `cleanUp`; the walk then ends, and nothing more is
called. `trace` is a history variable.

**Code generator.** Each handler is one action, conjoined with the walker action that calls it, so
`Next` of `CodeGen` refines `WalkNext` (proved as `CompilationIsWalk`). A handler that can end early
has one action for each way it ends: `VisitedBinary`, `VisitedBinaryMismatch`,
`VisitedBinaryThrows`, and so on. `visitingBlock` has four: the Block opens (`VisitingBlock`), a
Variable has no LLVM type (`VisitingBlockThrows`), two have one name (`VisitingBlockRepeats`), each
of these two after some of the other Variables, in whatever order the map has them; or a pointer is
null (`VisitingUndefined`). `VisitedUndefined` is `top()` of an empty `std::stack`, the type of an
empty Block and a member of a null Variable. After undefined behaviour nothing is said.
`VisitedNode(n, values)` is the `visitedNode` callback, applied to the values `visitedX` left; it is
part of every action that closes a node. `entryHeight` is a history variable: how high the value
stack was when each open node was entered. `LlastDebug` says whether `LLAST_DEBUG` is defined; no
build file of the repository defines it.

LLVM is external. A value is the node it came from and its LLVM type; `block` is the list of
instructions appended to `functionBody`. `IRBuilder` folds operations on constants, the model
does not: one instruction per operation, which keeps "which node is this value of" visible.

`Translation` has no walk, no stacks and no scopes: each node that needs an instruction gets one
when its turn comes, a Block when it opens and the others when they close, and node, children and
the Blocks around it say which opcode, operands and variables the instruction has. `CodeGen` is
mapped to it by taking `block` as a set of instructions, with the nodes its values come from in
place of the values (`Abstracted`), and `outcome` as the status. LLVM types are left to
`WellTypedCode`. `Translation` promises nothing for trees outside `Promised` (operands that leave a
value, no Variable or Scope null), and lets a compilation throw for any reason; that the reasons are
right is `NoFalseError`.

**Running an expression.** Everything but LLVM's target registry is local to a call, so a
behaviour is one call, before which `init()` may have run (`initialized`). `Refuse` is the type
test at the head of the two `run` functions, `ReadsNoType` a null expression or one whose
`dataType()` is undefined, `NoTarget` the null pointer `selectTarget()` returns
without `init()`, `Compile` a step of `CodeGen`, `Link` the hand-over to the JIT. From there on
LLVM is modelled by what the code generator's instructions mean: `WellFormed` is the code LLVM
gives a meaning to (the only `ret` at the end of the only basic block, operands of the types the
instruction wants, no alloca of type void); no verifier is run in the code, so anything else is
undefined behaviour. `Call` chooses the values of the literals, since nothing before depends on
them, and each instruction is an action. `Evaluation` evaluates nodes of the tree instead, and
`done`, `value` and `store` are mapped to the instructions executed, their results and the
allocas' contents.

**Builders.** A node is an address, which may be used again when the node has been destroyed; a node
made by `new` is put in `heap`, and what a `unique_ptr` points to is either in `client`, in a
builder's `pending`, or in the `kids` of another node. `move` is the removal from one and the
addition to another, and the same pointer moved twice is null the second time. `build()` leaves the
builder's vector empty and any of its Variables in the map (`MovedFrom`; the standard does not say
what a moved-from `unordered_map` holds), so that a builder can be used again.
`addFunction(Function*)` is `AddFunction` if the client gives up its own pointer, and
`AddFunctionPointer` if the Function stays owned by the client, by a Module or by the same builder:
`shared` is a history variable of these Functions. They can be owned any number of times, until a
destruction frees one (`FreesShared`): `intact` is false from then on and the model stops, since the
other owners' pointers dangle and anything may follow. `given` is a history variable: what
`addVariable` was given, also what `emplace` dropped. `MakeConditionalThrows` is the constructor of
a Conditional whose condition is null, where the branches die with the members that have already
taken them over.

**Printer.** `indent` is `indent_`, and a line is its number of tabs. A leaf is one action, in
which the walker calls `visitingNode`, `visitX` and `visitedNode`. `WalkAgain` gives the same
printer to another walk, without anything being reset.

Some definitions are followed in `PROJECT.json` by a variant marked "a mutant of ...": a
plausible mistake in that handler. They are not part of the specification. Substituting one
for the definition must make its property fail, which shows that the property is sensitive to
the code.

## 3. Runs

| Run | Module, config | Question |
|---|---|---|
| `walker` | `MCTreeWalker`, `walker.cfg` | Does the walker keep its contract with any visitor, and return? |
| `codegen` | `MCCodeGen`, `codegen.cfg` | What does the code generator guarantee, as built by the repository? |
| `codegen_debug` | `MCCodeGen`, `codegen_debug.cfg` | What do the assertions add when they are compiled in? |
| `exprrunner` | `MCExprRunner`, `exprrunner.cfg` | Does a run return what the expression evaluates to? |
| `builders` | `MCBuilders`, `builders.cfg` | Has every node one owner, whatever the client does, and is a Module a tree? |
| `printer` | `MCPrettyPrinter`, `printer.cfg` | Can the tree be read off the lines, also after an exception? |
| `values_remain`, `extraneous_values`, `return_of_return`, `block_value` | `MCCodeGen` | Statements of the repository that the code does not keep (section 5) |
| `one_branch` | `MCExprRunner` | the same |
| `duplicates` | `MCBuilders` | the same |

`walker` checks

* `InDocument`: the call stack is a path of the tree, and the nodes visited are exactly the
  part of the document up to where the innermost activation is; the inductive invariant;
* `LeftBehind`: a node that is no longer open was walked whole;
* `WalkedComplete`: a walk that returns has met no node with a child missing and none the walker
  does not know, and `InvalidArgumentException` by the walker is thrown for a missing child only;
* `DocumentOrderSpec`: `TreeWalker` implements `DocumentOrder` under the mapping of `open` to
  the nodes on the call stack;
* `WalkShrinks`: every step leaves less to do, counted in nodes not announced, depth and children
  ahead, so that no step can be repeated for ever;
* `WalkTerminates`.

`codegen` checks

* `StacksFollowWalk`: the visitor's own stacks agree with the walk (`AncestryIsWalk`,
  `ScopesAreOpenBlocks`);
* `LexicalScoping`: every load and store addresses the alloca of the Block that binds the name;
* `OperandsInPlace`: if operands are nodes that leave a value, the values above the height at
  which an open operation was entered are those of the operands walked so far;
* `NoUndefinedBehaviour`: if operands are nodes that leave a value and no Variable or Scope is null,
  no stack underflows and no type is read from an empty Block;
* `TranslationSpec`: on these trees `CodeGen` implements `Translation`: every operation gets the
  values of its own operands, in order, no instruction is missing, made twice or out of its turn;
* `RemainsIfUnbalanced`: whether values remain on `valueStack_` can be told from the tree: they do
  just if, from some node on, more values close that no operation takes than Blocks, each of which
  drops one (`Balanced`);
* `WellTypedCode`: if names are used at their declared types, each instruction's operands have
  the types LLVM requires, although the code compares types on the tree only;
* `NoErrorMissed`, `NoFalseError`: `compile()` succeeds only on trees without a defect (a name that is
  not declared or declared twice, mismatched or unsupported types, something missing), and each
  exception is thrown only for its own defect;
* `SsaCode`: no node is compiled twice, a value is computed before its only use, nothing is
  left out;
* `Terminates`.

Some of them have a premise on the tree (`OperandsIn`, `ValueOperands`, `NothingLacks`,
`TypedTree`). The premise is needed: the violation runs of section 5 use trees outside it. The
programs of `codegen` contain both kinds.

`codegen_debug` checks that with the assertions compiled in, a `Return` may have any operand without
undefined behaviour, and that the assertion for an empty stack at the end throws on no tree that is
`Balanced`. That a compilation which passes it has left nothing is the assertion itself, and no
property.

`exprrunner` checks

* `CalledAsDeclared`: the function pointer that is called has the type of the function compiled,
  and `init()` has run, although type test, `FunctionBuilder` and `visitingFunction` each
  determine a type of their own;
* `DefinedRun`: on trees that are straight-line, typed, lack nothing and end in their one `Return`,
  behaviour is undefined only at a division that has no result;
* `EvaluationSpec`: on these trees `ExprRunner` implements `Evaluation`, node for node;
* `ComputesMeaning`: at any time, what a register holds is the result of its own operands, what a
  reference has loaded was put there by the last assignment before it, in closing order, to the
  variable its name stands for, and what is returned is the operand of the Return;
* `ResultIsMeaning`: what is returned is a value the expression has by a recursive evaluator
  with environments, which knows neither numbering nor walk;
* `CallShrinks`: every step of a call leaves less to do;
* `CallEnds`: every call ends.

The premise `Runnable` is needed here as well: the run has trees with code after a `Return`,
without one, with values of the wrong type, with a void variable, with a Conditional, with
null expressions and Variables, and without a type.

`builders` checks

* `OneOwner`: nothing but the Functions handed over by a plain pointer while they were owned
  (`shared`) is owned twice, by whichever of client, builders and nodes, and whatever is owned lives;
* `NothingLeaks`: all that lives is reached from the client or from a builder;
* `DestroysDescendants`: a destruction takes whole trees (`README.md:80` of the repository) and
  nothing else;
* `ModulesAreTrees`: laid out as `Ast` numbers it, every Module the client gets that owns no shared
  Function satisfies `IsTree`, which the other modules assume of what they walk, whatever other
  Modules share.

`printer` checks

* `OutlineReadsBack`: the parent of a node is on the last line above it that has fewer tabs, and
  it has one less, also on what was written before an exception and by a printer whose earlier
  walks failed;
* `IndentRestored`: a walk that ends returns the indentation it found, one that throws leaves some of
  it behind, and a walk starts at the margin just if none of the printer's walks before it threw;
* `PrintsOrThrows`: printing succeeds only on a tree all of which is there and can be printed, each
  exception has its own cause, and behaviour is undefined only if a Scope or Variable is null;
* `WalksEnd`.

**Bounds.** A run starts from every tree of a finite set, so the set is the bound. The walker's
trees have every kind of node at two levels of nesting below the function's Block, with leaves,
null pointers and nodes of a client's own kind in every position, and Modules of zero, one and
two functions. Deeper trees add activations of the same functions, and the proofs cover all of
them. The code generator's trees have one name with two types: shadowing, mismatches and
undeclared uses need no second name, and the types are what tells variables apart. They nest
Blocks three deep, operations two deep, and put `Block`, `Conditional` and `Return` in every
operand position. A single representative operation is used in most places since the
operations differ only in their opcode.

`exprrunner` has words of three bits (`Half = 4`): enough for every operation to wrap, for the least
integer divided by -1, and for results that tell operands and their order apart; `one_branch` needs
no arithmetic and has two bits. Its trees have up to two divisions, set, unset and shadowed
variables, and Blocks nested two deep. `builders` has three addresses (`Address`), enough for a
Module with a Function and its Block, for a Block of two expressions, for an address used again; and
builders hold at most `MaxHeld = 2` things at a time, so that all orders of adding and building of
two builders occur. Addresses are only compared, so the run is symmetric in them. `printer` gives a
printer to `MaxWalks = 3` walks: one that fails, another that fails from there, and one that
succeeds.

`CHECK_DEADLOCK` is off: a walk or a call that has ended stops, and `builders` stops when a shared
Function has been freed.

**Fairness.** `WF_vars(Next)` for a walk and a compilation: `walkTree` runs on its caller's thread,
takes no lock and waits for nothing, so it takes its next step as long as it has one. For a
call and for the printer, the fair actions are those of a call or walk that has begun
(`CallGoesOn`, `GoesOn`); whether the client makes it is for the client. `Builders` has no
fairness: every action is the client's.

## 4. Proofs

TLAPS checks, for every set of trees, names, types of a client's own and addresses, and in either
build,

| Module | Theorem | States |
|---|---|---|
| `TreeWalkerProofs` | `WalkTypeCorrect`, `WalkStaysInDocument`, `WalkLeavesBehind`, `WalkMissesNothing` | `WalkSafety => []...` for `WalkTypeOK`, `InDocument`, `LeftBehind`, `WalkedComplete` |
| | `WalkInDocumentOrder` | `WalkSafety => DocumentOrderSpec` |
| | `WalkIsBounded` | `WalkSafety => WalkShrinks` |
| `CodeGenProofs` | `CompilationIsWalk` | `Safety => WalkSafety`, and so all of the above during a compilation |
| | `TypeCorrect`, `StacksCorrect`, `ScopingIsLexical` | `TypeOK`, `StacksFollowWalk`, `LexicalScoping` |
| `OperandProofs` | `OperandsAreInPlace`, `BehaviourIsDefined`, `OperandsAreOwn` | `OperandsInPlace`, `NoUndefinedBehaviour`, `OwnOperands` |
| | `RemainingValuesCounted` | `RemainsIfUnbalanced` |
| `ErrorProofs` | `ErrorsAreFound`, `ErrorsAreReal` | `NoErrorMissed`, `NoFalseError` |
| `CodeProofs` | `CodeIsWellTyped`, `CodeIsSsa` | `WellTypedCode`, `SsaCode` |
| | `CompilationTranslates` | `Safety => TranslationSpec` |
| `RunnerProofs` | `CallCompiles` | `RunnerSafety => Safety`, and so all of the above during a call |
| | `CodeIsOrdered` | instructions are in the order in which nodes close, a final `Return` is last |
| | `RunnerTypeCorrect`, `FunctionCalledAsDeclared`, `RunIsDefined` | `RunnerTypeOK`, `CalledAsDeclared`, `DefinedRun` |
| | `RunEvaluates` | `RunnerSafety => EvaluationSpec` |
| | `CallComputesMeaning` | `ComputesMeaning` |
| | `CallIsBounded` | `RunnerSafety => CallShrinks` |
| `PrinterProofs` | `PrinterTypeCorrect`, `OutlineCorrect`, `IndentationCorrect`, `PrintingErrorsCorrect` | `TypeOK`, `OutlineReadsBack`, `IndentRestored`, `PrintsOrThrows` |
| `BuilderProofs` | `BuilderTypeCorrect`, `OwnershipCorrect`, `NothingIsLeaked`, `DestructionCorrect` | `TypeOK`, `OneOwner`, `NothingLeaks`, `DestroysDescendants` |
| | `ModulesAreTreesCorrect` | `ModulesAreTrees` |

The assumptions are `ProgramsAssumption` (what is walked is a tree: every node has one owner, which
`unique_ptr` gives and `ModulesAreTrees` shows of Modules without shared Functions, and the
numbering, which is a convention of the model), `LlastDebugAssumption`, `OneFunctionAssumption`
(what is compiled has at most one Function, as `compile()` and `makeExecutionContext()` build it;
used by `CodeIsSsa` and for calls), `WrappedAssumption` (the Module around an expression is the one
these two build, and its Function has the expression's type), `HalfAssumption` (an int has at least
two values), `MaxWalksAssumption` and `BuildersAssumption` (addresses, builders and null differ).
TLC evaluates each on the runs of its module.

**The walk.** The heart is `InDocument`. That the nodes come in document order is not
inductive: it has to be known that what has been visited ends exactly where the innermost
activation has got to (`Reached`), that each activation is walking the child that the next one
was given (`OnPath`), and that subtrees on the stack are nested (`Nested`). Then the next
node announced has number `Len(trace) + 1` (`NextNode`), by the numbering of `Ast`, and the step
is a step of `DocumentOrder`. `LeftBehind` follows from the same facts. For `WalkedComplete` the
invariant is said of the children an activation has got past: none of them is missing, except
the branches of a Conditional.

`WalkShrinks` needs the same invariants, for the counts to be natural numbers: nodes are announced
once each and no activation goes past its children. It is the part of termination that can be
proved here: a walk cannot go on for ever. That it does not stop in the middle, where no action
would be enabled, is what `WalkTerminates` adds. `CallShrinks` puts the stages of a call before these
counts and the instructions after them, which are finitely many and have no jumps.

**Scopes.** `StepWalks` shows that each step is a walker step, so these invariants are
inherited. `AncestryIsWalk` and `ScopesAreOpenBlocks` tie the code generator's stacks to the call
stack. A lookup in the scope stack then finds an open Block, the largest one that declares the name;
since the open nodes are exactly the visited nodes that enclose the present one (`LeftBehind`,
`AroundNext`, `AroundTop`), that Block is the one that binds the name in the tree
(`FoundIsBound`), which is `LexicalScoping`.

**Values.** `OperandsInPlace` is the invariant, and `entryHeight` is what makes it
inductive: the height of `valueStack_` at an operation is its entry height plus one for each
operand walked, and between an operation and the top of the call stack there are operations
only, whose entry heights do not decrease. The second part is needed because a node that is
left puts its value on top of everything: it has to be an operand of the innermost open
operation (`ProducedPlaced`), or else no operation may be open at all (`NothingPlaced`).
At `visitedX` all operands have been walked, so their values are on top, in order, and their
types are defined (`OperandsOnTop`). `NoUndefinedBehaviour` and `OwnOperands` follow. The
argument is made for the two sets of operations at once, with `Return` and without, because
with `LLAST_DEBUG` the operand of a `Return` may be anything.

*What remains.* A value that no operation takes stays until a Block drops it, and a Block drops
whatever is on top, or nothing if the stack is empty. The invariant (`WaitingIsSurplus`) is about
the height of the stack below the outermost open operation, or of the whole stack if none is open.
Call the surplus from a node on the number of untaken values less the number of Blocks, of those
nodes closed so far that close no earlier than it: then that height is the largest surplus, or 0.
A value that nothing takes adds one to all of them, a Block takes one from all of them and starts
one that is negative (`SurplusGrows`), and inside an open operation nothing closes that counts,
because its operands are operations and leaves. When everything has closed the height is that of the
stack, and it is 0 just if the tree is `Balanced`. A comment in the code expects the stack to be
empty always; the theorem says for which trees it is.

**Errors.** The invariant is `VisitedSound`: a node that was visited passed what `visitingX` looks
at, a node that was left also what `visitedX` looks at. A name that was found is bound, and one that
was not found is unbound in the tree, again because the scopes are those of the Blocks around the
node. When the compilation is done every node is behind it, so the tree has no defect; missing
children come from `WalkedComplete`.

**Instructions.** For types, the invariant adds that the value on the stack has the type of the node
it came from and each alloca the declared type. At an operation `OperandsOnTop` says whose values
are taken, and lexical scoping whose alloca: the premise `TypedTree` is about these same nodes
and variables. For single assignment, `CodeInv` says that the nodes behind the walk have been
compiled, that the open ones have not, except Blocks, and that the values on the stack are of nodes
behind the walk, each there once and not yet used. A node is compiled when it is entered or left,
which is when it is open for the first or last time. The Function empties the basic block when it is
entered, hence the assumption that there is no second one.

**Translation.** A step that appends an instruction has to be a step of `Translation` for the same
node, every other step a stutter or the end. That it is the node's turn is said of the nodes compiled
so far: Blocks are compiled when they are visited, so those compiled are the ones with smaller
numbers (`BlockIsNext`), the others when they are left, so those compiled are behind the walk
(`ClosingIsNext`); both from `CodeInv` and `LeftBehind`. What the instruction says is read off
the invariants of the state after the step: its operands are its node's children by `OwnOperands`,
and its variable is the one the name stands for by `LexicalScoping`. The opcode is the handler's, but
that the operands have one type in the tree has to be recovered from the types the handler
compared. Compilation ends with every node compiled by `SsaCode`, and what stops it otherwise is
an exception, not undefined behaviour, by `NoUndefinedBehaviour`. `OwnOperands` is a step of this
proof and an invariant of no run, since `TranslationSpec` implies it.

**Calls.** The actions of `ExprRunner` leave the code generator alone or take one of its steps, so
everything above holds in a call. What is missing is the order of the instructions: `CodeInv` says
that an operand is computed before it is used, and that does not order a store and a load of the same
variable. `OrderInv` says that instructions, allocas apart, are in the order in which their nodes
close. It is kept because an instruction is appended when its node closes (`BehindCloses`), and
the nodes compiled before are behind the walk. Its second part, that a `Return` at the end of the
tree is compiled last, needs two things to be known of the moment it closes: the whole tree has
been visited, so that nothing will be entered, and no operation is open around it
(`NoOperationAround`, from `OperandsInPlace`), so that nothing that is left later is compiled.
Then the code of a tree that is promised a meaning is well formed (`CodeHasMeaning`): one `ret`,
at the end, of the type `visitingFunction` gave the Function (`FunctionInv`); operands from
`WellTypedCode`; allocas that have a type, because `NoErrorMissed` rules out the others.

For the refinement, the node of the next instruction is the node whose turn it is in the tree
(`NextToEvaluate`): what closes before it has been compiled (`AllCompiled`), at a smaller index
(`OrderInv`), hence executed, and nothing else has (`CompiledOnce`). An instruction's operands
are the values of its node's children by `OwnOperands`, its alloca is the variable its name
stands for by `LexicalScoping`, and what a load finds where nothing was stored has the type of
the reference by `WellTypedCode`. So every property proved of the code generator is used to show
that a caller need not know of it.

`EvaluationSpec` promises an evaluation step by step, and `ComputesMeaning` what it comes to, said
without steps. Each instruction is executed once and its operands are not written again, so what it
has computed stays its result; what has to be known of memory is that an alloca holds what the
latest executed assignment to its variable put there (`MemoryHolds`). Nodes are executed in closing
order, so the latest one executed before a reference is the last one that closes before it. A
reference to a variable that nothing was assigned to may have any value of its type, as memory
nothing was stored to has.

**Printer.** The invariant is `Margin`: `indent_` is what it was when the walk began plus the number
of open nodes. The node written next is inside all of them, which gives the parent of its line; and
the lines of what lies between a node and its next sibling have more tabs than the node's own
(`Deeper`).

**Ownership.** The descendants of a node are defined as the least set closed under `kids`
(`Subtrees`), since they cannot be computed by recursion here. `OneOwner` says that each owner
points to a living node, and that no other owner has it unless it is `shared`; a step moves a
pointer, or makes a node whose children were owned by the client, so the owner of each node stays
unique, and `AddFunctionPointer` gives another owner to a node that is shared from then on
(`PointerStep`). For `NothingLeaks` a set that contains all owned roots after the step and is closed
is shown to contain the nodes that were reached before (`GrowNoLeak`). Destruction needs both: what
is not destroyed must not point into what is, and that follows from the uniqueness of owners and
from nothing shared being freed (`DeletesUnshared`).

That a Module is a tree does not follow from unique owners alone, since a ring of nodes that own
each other would have them too. The invariant (`TreesInv`) says that what the client owns, and what
a builder holds, is a forest unless it owns something shared, that is, has a numbering in document
order with subtrees as intervals; and that kinds of nodes own what their classes let them own, so
that only Modules and their builder own anything shared (`MostAreAlone`). A new node takes the first
number and its children's numberings follow one after the other, moved up; a node that is moved
keeps its own; and destruction takes whole trees (`DestructionCorrect`'s argument), so that the
numberings of the others are not touched. The numbering is then the witness for `IsLaidOut`.

*Only model-checked.* Every invariant and action property of the runs has a theorem, but for
`ResultIsMeaning`, whose evaluator is recursive over trees; `ComputesMeaning` says the same without
recursion, and is proved. The liveness properties (`WalkTerminates`, `Terminates`, `CallEnds`,
`WalksEnd`) are out of the provers' reach, since they need to know when an action is enabled;
`WalkShrinks` and `CallShrinks` are the part of them that is proved.

## 5. Where the code and its documentation disagree

| Run | The repository says | The code does |
|---|---|---|
| `values_remain` | "When compilation complete, no values should remain." (`ExprRunner.cpp:56`) | A Conditional with two literals and a null branch, alone in the Function's Block, pushes two values, and the Block's end drops one; the assertion is compiled out. |
| `extraneous_values` | "If the parent node of expr is a BlockExpr, the value left behind on valueStack_ is extraneous and should be removed." (`ExprRunner.cpp:89`) | It asks whether `expr` is itself a Block; values of a Block's expressions pile up until it ends. |
| `return_of_return` | "This should either be an error or succeed." (`README.md:76`) | `top()` of an empty stack. |
| `block_value` | The type of a Block is that of its last expression (`AST.hpp:291`); "everything is an expression" (`ExprRunner.cpp:90`) | The last value is dropped when the Block ends, and an operation on the Block takes an earlier value or none. |
| `one_branch` | "Can be the basis of an if-then-else or ternary operator." (`AST.hpp:329`, of Conditional) | The code of both branches goes into the one basic block, and a call executes both. |
| `duplicates` | "More than one variable named '...' was defined in the current scope." (`ExprRunner.cpp:115`) | `addVariable` uses `emplace` (`AST.hpp:269`): the second variable is dropped by the builder, so the check cannot see it. Only a `Scope` made with its own constructor (`AST.hpp:240`) can get there. |

## 6. Not modelled, and what is left

Not modelled:

* the words of messages and of printed lines, and names beyond being equal or different;
* the values of `LiteralFloat` (a value is the term that computes it) and int words of more than a few
  bits; constant folding by `IRBuilder`;
* `SigHandler`: it prints a stack trace and keeps no state of the library;
* the tests, the build scripts, and `catch.hpp`, which is vendored and is 11420 of the 12918 lines of
  C++ in the repository; of the 1500 lines of the library itself the model stands for most;
* `shared_ptr<Variable>`: a Variable is immutable, so who else holds it does not matter;
* `SimpleJIT::removeModule` and its resolver of external symbols, which nothing calls; that LLVM finds
  the symbol just compiled under its own name is assumed, so `getSymbolAddress` returns no 0;
* a second call in the same process: a call leaves nothing behind but LLVM's target registry;
* Variables of one name but different types in one `Scope`, which only its own constructor lets
  through;
* what follows when a Function with two owners has been freed by one of them, and whatever else
  follows undefined behaviour.

What is left to do: if the library comes to compile a Conditional to branches, there will be several
basic blocks, and `Evaluation` has to say which nodes are not evaluated. Until then the trees
outside `Runnable` whose code LLVM happens to accept are promised nothing.
