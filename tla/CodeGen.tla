------------------------------ MODULE CodeGen ------------------------------
(***************************************************************************)
(* CodeGenVisitor (src/src/ExprRunner.cpp), driven by TreeWalker: the      *)
(* three stacks it keeps while the walk goes down and up the tree, and the *)
(* LLVM instructions it has IRBuilder append to the function's only basic  *)
(* block.  Every handler is one action, conjoined with the walker step     *)
(* that calls it; the handlers that can end the walk early have one action *)
(* for each way they do.                                                   *)
(*                                                                         *)
(* The Modules are those ExprRunner builds, with one Function.  A value    *)
(* stands for the llvm::Value its node produced, so a node's position also *)
(* names the instruction it was compiled to.  Unlike IRBuilder, which      *)
(* folds an operation on constants into a constant, the model appends one  *)
(* instruction for every operation.                                        *)
(***************************************************************************)
EXTENDS TreeWalker, FiniteSets

CONSTANT LlastDebug                      \* is LLAST_DEBUG defined?

ASSUME LlastDebugAssumption == LlastDebug \in BOOLEAN

ASSUME OneFunctionAssumption ==
    \A p \in Programs : \A m, n \in DOMAIN p :
       p[m].kind = "Function" /\ p[n].kind = "Function" => m = n

VARIABLES
    allocaScopeStack,   \* the scopes of the open Blocks, outermost first
    valueStack,         \* values not consumed yet, top at the end
    ancestryStack,      \* the open nodes, root first
    entryHeight,        \* history: the height of valueStack when each node
                        \* of ancestryStack was entered
    returnType,         \* the return type of function_
    block               \* the instructions of block_

visitorVars ==
    <<allocaScopeStack, valueStack, ancestryStack, entryHeight, returnType, block>>

vars == <<walkerVars, visitorVars>>

-----------------------------------------------------------------------------
(* LLVM's side                                                             *)

LlvmType == {"void", "i8", "i32", "float", "double"}

Value == [from : Nat, type : LlvmType]

Slot == [block : Nat, name : Name]       \* the alloca of a Block's variable

AllocaScope ==                           \* the names of one open Block
    [block : Nat, vars : UNION {[S -> LlvmType] : S \in SUBSET Name}]

Opcode == {"alloca", "store", "load", "ret"}
          \cup {"add", "sub", "mul", "sdiv", "fadd", "fsub", "fmul", "fdiv"}

Instruction == [op : Opcode, from : Nat, type : LlvmType, args : Seq(Value),
                slots : SUBSET Slot]

(***************************************************************************)
(* getType; it throws UnhandledSwitchCase for Pointer.                     *)
(***************************************************************************)
HasLlvmType(dt) == dt # "Pointer"

TypeForSome(dt) ==                       \* a mutant of TypeFor
    CASE dt = "Int32"  -> "i32"
      [] dt = "Float"  -> "float"
      [] dt = "Double" -> "double"
      [] dt = "Void"   -> "void"
      [] OTHER         -> dt

TypeFor(dt) ==
    CASE dt = "Bool"   -> "i8"
      [] dt = "Int32"  -> "i32"
      [] dt = "Float"  -> "float"
      [] dt = "Double" -> "double"
      [] OTHER         -> "void"

(***************************************************************************)
(* createOperation; it throws UnhandledSwitchCase for the other types.     *)
(***************************************************************************)
Arithmetic == {"Int32", "Float"}

OpcodeFor(dt, operation) ==
    LET int   == [Add |-> "add",  Sub |-> "sub",  Mul |-> "mul",  Div |-> "sdiv"]
        float == [Add |-> "fadd", Sub |-> "fsub", Mul |-> "fmul", Div |-> "fdiv"]
    IN  IF dt = "Int32" THEN int[operation] ELSE float[operation]

Emit(op, n, type, args, slots) ==
    block' = Append(block, [op |-> op, from |-> n, type |-> type,
                            args |-> args, slots |-> slots])

-----------------------------------------------------------------------------
(* The stacks                                                              *)

Dropped(s, k) == SubSeq(s, 1, Len(s) - k)

TopValue(depth) == valueStack[Len(valueStack) - depth]

(***************************************************************************)
(* lookupVariable searches from the innermost scope outwards, and throws   *)
(* InvalidStateException when no scope has the name.                       *)
(***************************************************************************)
FindsOutermost(x, i) ==                  \* a mutant of Finds
    /\ i \in DOMAIN allocaScopeStack
    /\ x \in DOMAIN allocaScopeStack[i].vars
    /\ \A j \in DOMAIN allocaScopeStack :
          j < i => x \notin DOMAIN allocaScopeStack[j].vars

Finds(x, i) ==
    /\ i \in DOMAIN allocaScopeStack
    /\ x \in DOMAIN allocaScopeStack[i].vars
    /\ \A j \in DOMAIN allocaScopeStack :
          j > i => x \notin DOMAIN allocaScopeStack[j].vars

NotInnermost(x) ==                       \* a mutant of Undeclared
    \A i \in DOMAIN allocaScopeStack :
       i = Len(allocaScopeStack) => x \notin DOMAIN allocaScopeStack[i].vars

Undeclared(x) ==
    \A i \in DOMAIN allocaScopeStack : x \notin DOMAIN allocaScopeStack[i].vars

SlotOf(x, i) == [block |-> allocaScopeStack[i].block, name |-> x]

(***************************************************************************)
(* visitingNode.                                                           *)
(***************************************************************************)
VisitingNode(n) ==
    /\ ancestryStack' = Append(ancestryStack, n)
    /\ entryHeight' = Append(entryHeight, Len(valueStack))

(***************************************************************************)
(* visitedNode, when visitedX has left values on the stack: a Block that   *)
(* has a parent takes one value off, if there is one.                      *)
(***************************************************************************)
KeepsAncestor(n, values) ==              \* a mutant of VisitedNode
    /\ UNCHANGED <<ancestryStack, entryHeight>>
    /\ valueStack' = values

DropsForAnyKind(n, values) ==            \* a mutant of VisitedNode
    /\ ancestryStack' = Dropped(ancestryStack, 1)
    /\ entryHeight' = Dropped(entryHeight, 1)
    /\ valueStack' = IF Len(ancestryStack) > 1 /\ values # <<>>
                     THEN Dropped(values, 1) ELSE values

VisitedNode(n, values) ==
    /\ ancestryStack' = Dropped(ancestryStack, 1)
    /\ entryHeight' = Dropped(entryHeight, 1)
    /\ valueStack' =
          IF Len(ancestryStack) > 1 /\ ast[n].kind = "Block" /\ values # <<>>
          THEN Dropped(values, 1)
          ELSE values

-----------------------------------------------------------------------------
(* On the way down                                                         *)

VisitingModule(n) ==
    /\ ast[n].kind = "Module"
    /\ Enter(n)
    /\ VisitingNode(n)
    /\ UNCHANGED <<allocaScopeStack, valueStack, returnType, block>>

VisitingFunction(n) ==
    /\ ast[n].kind = "Function"
    /\ HasLlvmType(ast[n].dataType)
    /\ Enter(n)
    /\ VisitingNode(n)
    /\ returnType' = TypeFor(ast[n].dataType)
    /\ block' = <<>>
    /\ UNCHANGED <<allocaScopeStack, valueStack>>

VisitingFunctionThrows(n) ==
    /\ ast[n].kind = "Function"
    /\ ~HasLlvmType(ast[n].dataType)
    /\ FailEntering(n, "UnhandledSwitchCase")
    /\ VisitingNode(n)
    /\ UNCHANGED <<allocaScopeStack, valueStack, returnType, block>>

(***************************************************************************)
(* The allocas of the names in S: one entry stands for all of them, since  *)
(* the map they are taken from has no particular order.                    *)
(***************************************************************************)
Allocate(n, S) ==
    /\ allocaScopeStack' =
          Append(allocaScopeStack,
                 [block |-> n, vars |-> [x \in S |-> TypeFor(ast[n].scope[x])]])
    /\ Emit("alloca", n, "void", <<>>, {[block |-> n, name |-> x] : x \in S})

VisitingBlock(n) ==
    /\ ast[n].kind = "Block"
    /\ ~ast[n].lacks /\ ast[n].repeats = {}
    /\ \A x \in DOMAIN ast[n].scope : HasLlvmType(ast[n].scope[x])
    /\ Enter(n)
    /\ VisitingNode(n)
    /\ Allocate(n, DOMAIN ast[n].scope)
    /\ UNCHANGED <<valueStack, returnType>>

(***************************************************************************)
(* Some of the other variables may come before the one without a type, the *)
(* second one of a name, or the null one.                                  *)
(***************************************************************************)
Allocatable(n) == {x \in DOMAIN ast[n].scope : HasLlvmType(ast[n].scope[x])}

VisitingBlockThrows(n) ==
    /\ ast[n].kind = "Block"
    /\ \E x \in DOMAIN ast[n].scope : ~HasLlvmType(ast[n].scope[x])
    /\ FailEntering(n, "UnhandledSwitchCase")
    /\ VisitingNode(n)
    /\ \E S \in SUBSET Allocatable(n) : Allocate(n, S)
    /\ UNCHANGED <<valueStack, returnType>>

VisitingBlockRepeats(n) ==
    /\ ast[n].kind = "Block"
    /\ FailEntering(n, "InvalidStateException")
    /\ VisitingNode(n)
    /\ \E S \in SUBSET Allocatable(n) : S \cap ast[n].repeats # {} /\ Allocate(n, S)
    /\ UNCHANGED <<valueStack, returnType>>

(***************************************************************************)
(* The other nodes with children are only pushed on ancestryStack.         *)
(***************************************************************************)
VisitingOther(n) ==
    /\ ast[n].kind \in {"Conditional", "Binary", "AssignVariable", "Return"}
    /\ Enter(n)
    /\ VisitingNode(n)
    /\ UNCHANGED <<allocaScopeStack, valueStack, returnType, block>>

-----------------------------------------------------------------------------
(* Leaves                                                                  *)

VisitLiteral(n) ==
    /\ ast[n].kind \in {"LiteralInt32", "LiteralFloat"}
    /\ VisitLeaf(n)
    /\ valueStack' = Append(valueStack,
                            [from |-> n, type |-> TypeFor(ast[n].dataType)])
    /\ UNCHANGED <<allocaScopeStack, ancestryStack, entryHeight, returnType, block>>

(***************************************************************************)
(* CreateLoad has the type of the alloca, whatever the reference's is.     *)
(***************************************************************************)
VisitVariableRef(n) ==
    LET x == ast[n].name IN
    /\ ast[n].kind = "VariableRef" /\ ~ast[n].lacks
    /\ VisitLeaf(n)
    /\ \E i \in DOMAIN allocaScopeStack :
          LET type == allocaScopeStack[i].vars[x] IN
          /\ Finds(x, i)
          /\ Emit("load", n, type, <<>>, {SlotOf(x, i)})
          /\ valueStack' = Append(valueStack, [from |-> n, type |-> type])
    /\ UNCHANGED <<allocaScopeStack, ancestryStack, entryHeight, returnType>>

VisitVariableRefThrows(n) ==
    /\ ast[n].kind = "VariableRef" /\ ~ast[n].lacks
    /\ Undeclared(ast[n].name)
    /\ FailEntering(n, "InvalidStateException")
    /\ VisitingNode(n)
    /\ UNCHANGED <<allocaScopeStack, valueStack, returnType, block>>

(***************************************************************************)
(* visitingBlock or visitVariableRef follows a null pointer of the node.   *)
(***************************************************************************)
VisitingUndefined(n) ==
    /\ ast[n].kind \in {"Block", "VariableRef"} /\ ast[n].lacks
    /\ FailEntering(n, Undefined)
    /\ VisitingNode(n)
    /\ UNCHANGED <<allocaScopeStack, valueStack, returnType, block>>

-----------------------------------------------------------------------------
(* On the way up                                                           *)

VisitedModule(n) ==
    /\ ast[n].kind = "Module"
    /\ LlastDebug => valueStack = <<>>
    /\ Leave(n)
    /\ VisitedNode(n, valueStack)
    /\ UNCHANGED <<allocaScopeStack, returnType, block>>

VisitedModuleAsserts(n) ==
    /\ ast[n].kind = "Module"
    /\ LlastDebug /\ valueStack # <<>>
    /\ FailLeaving(n, "DebugAssertionFailedException")
    /\ UNCHANGED visitorVars

KeepsScope(n) ==                         \* a mutant of VisitedBlock
    /\ ast[n].kind = "Block"
    /\ Leave(n)
    /\ VisitedNode(n, valueStack)
    /\ UNCHANGED <<allocaScopeStack, returnType, block>>

VisitedBlock(n) ==
    /\ ast[n].kind = "Block"
    /\ Leave(n)
    /\ allocaScopeStack' = Dropped(allocaScopeStack, 1)
    /\ VisitedNode(n, valueStack)
    /\ UNCHANGED <<returnType, block>>

(***************************************************************************)
(* CodeGenVisitor overrides neither visitedFunction nor visitedConditional.*)
(***************************************************************************)
VisitedOther(n) ==
    /\ ast[n].kind \in {"Function", "Conditional"}
    /\ Leave(n)
    /\ VisitedNode(n, valueStack)
    /\ UNCHANGED <<allocaScopeStack, returnType, block>>

AssignsWithoutValue(n) ==                \* a mutant of VisitedAssignVariable
    LET x == ast[n].name IN
    /\ ast[n].kind = "AssignVariable" /\ ~ast[n].lacks
    /\ Len(valueStack) >= 1
    /\ Leave(n)
    /\ \E i \in DOMAIN allocaScopeStack :
          /\ Finds(x, i)
          /\ Emit("store", n, "void", <<TopValue(0)>>, {SlotOf(x, i)})
    /\ VisitedNode(n, Dropped(valueStack, 1))
    /\ UNCHANGED <<allocaScopeStack, returnType>>

VisitedAssignVariable(n) ==
    LET x == ast[n].name IN
    /\ ast[n].kind = "AssignVariable" /\ ~ast[n].lacks
    /\ Len(valueStack) >= 1
    /\ Leave(n)
    /\ \E i \in DOMAIN allocaScopeStack :
          /\ Finds(x, i)
          /\ Emit("store", n, "void", <<TopValue(0)>>, {SlotOf(x, i)})
    /\ VisitedNode(n, Append(Dropped(valueStack, 1), [from |-> n, type |-> "void"]))
    /\ UNCHANGED <<allocaScopeStack, returnType>>

VisitedAssignVariableThrows(n) ==
    /\ ast[n].kind = "AssignVariable" /\ ~ast[n].lacks
    /\ Undeclared(ast[n].name)
    /\ FailLeaving(n, "InvalidStateException")
    /\ UNCHANGED visitorVars

(***************************************************************************)
(* visitedBinary compares the dataType() of the operands, pops the right   *)
(* value and then the left one, and only then looks at the type it has to  *)
(* operate on.                                                             *)
(***************************************************************************)
AnyTypes(n) == TRUE                      \* a mutant of SameTypes

SameTypes(n) ==
    TypeAt(ast, ast[n].kids[1]) = TypeAt(ast, ast[n].kids[2])

TypesDefined(n) ==
    /\ TypeAt(ast, ast[n].kids[1]) # Undefined
    /\ TypeAt(ast, ast[n].kids[2]) # Undefined

PopsLeftFirst(n) ==                      \* a mutant of VisitedBinary
    LET rValue == TopValue(1)
        lValue == TopValue(0)
    IN
    /\ ast[n].kind = "Binary"
    /\ TypesDefined(n) /\ SameTypes(n)
    /\ Len(valueStack) >= 2
    /\ ast[n].dataType \in Arithmetic
    /\ Leave(n)
    /\ Emit(OpcodeFor(ast[n].dataType, ast[n].operation), n, lValue.type,
            <<lValue, rValue>>, {})
    /\ VisitedNode(n, Append(Dropped(valueStack, 2),
                             [from |-> n, type |-> lValue.type]))
    /\ UNCHANGED <<allocaScopeStack, returnType>>

VisitedBinary(n) ==
    LET rValue == TopValue(0)
        lValue == TopValue(1)
    IN
    /\ ast[n].kind = "Binary"
    /\ TypesDefined(n) /\ SameTypes(n)
    /\ Len(valueStack) >= 2
    /\ ast[n].dataType \in Arithmetic
    /\ Leave(n)
    /\ Emit(OpcodeFor(ast[n].dataType, ast[n].operation), n, lValue.type,
            <<lValue, rValue>>, {})
    /\ VisitedNode(n, Append(Dropped(valueStack, 2),
                             [from |-> n, type |-> lValue.type]))
    /\ UNCHANGED <<allocaScopeStack, returnType>>

VisitedBinaryMismatch(n) ==
    /\ ast[n].kind = "Binary"
    /\ TypesDefined(n) /\ ~SameTypes(n)
    /\ FailLeaving(n, "CompileException")
    /\ UNCHANGED visitorVars

VisitedBinaryThrows(n) ==
    /\ ast[n].kind = "Binary"
    /\ TypesDefined(n) /\ SameTypes(n)
    /\ Len(valueStack) >= 2
    /\ ast[n].dataType \notin Arithmetic
    /\ FailLeaving(n, "UnhandledSwitchCase")
    /\ valueStack' = Dropped(valueStack, 2)
    /\ UNCHANGED <<allocaScopeStack, ancestryStack, entryHeight, returnType, block>>

PeeksValue(n) ==                         \* a mutant of VisitedReturn
    /\ ast[n].kind = "Return"
    /\ Len(valueStack) >= 1
    /\ Leave(n)
    /\ Emit("ret", n, "void", <<TopValue(0)>>, {})
    /\ VisitedNode(n, valueStack)
    /\ UNCHANGED <<allocaScopeStack, returnType>>

VisitedReturn(n) ==
    /\ ast[n].kind = "Return"
    /\ Len(valueStack) >= 1
    /\ Leave(n)
    /\ Emit("ret", n, "void", <<TopValue(0)>>, {})
    /\ VisitedNode(n, Dropped(valueStack, 1))
    /\ UNCHANGED <<allocaScopeStack, returnType>>

VisitedReturnAsserts(n) ==
    /\ ast[n].kind = "Return"
    /\ LlastDebug /\ valueStack = <<>>
    /\ FailLeaving(n, "DebugAssertionFailedException")
    /\ UNCHANGED visitorVars

(***************************************************************************)
(* top() of an empty valueStack_, dataType() of a Block without            *)
(* expressions, or a member of a null Variable: undefined behaviour        *)
(* (src/README.md:76 saw a SIGSEGV).                                       *)
(***************************************************************************)
ReadsNothing(n) ==
    \/ /\ ast[n].kind = "AssignVariable"
       /\ \/ ast[n].lacks
          \/ ~Undeclared(ast[n].name) /\ valueStack = <<>>
    \/ /\ ast[n].kind = "Binary"
       /\ \/ ~TypesDefined(n)
          \/ SameTypes(n) /\ Len(valueStack) < 2
    \/ /\ ast[n].kind = "Return"
       /\ ~LlastDebug /\ valueStack = <<>>

VisitedUndefined(n) ==
    /\ ReadsNothing(n)
    /\ FailLeaving(n, Undefined)
    /\ UNCHANGED visitorVars

-----------------------------------------------------------------------------
Init ==
    /\ WalkInit
    /\ allocaScopeStack = <<>>
    /\ valueStack = <<>>
    /\ ancestryStack = <<>>
    /\ entryHeight = <<>>
    /\ returnType = "void"
    /\ block = <<>>

Visiting(n) ==
    \/ VisitingModule(n) \/ VisitingFunction(n) \/ VisitingFunctionThrows(n)
    \/ VisitingBlock(n) \/ VisitingBlockThrows(n) \/ VisitingBlockRepeats(n)
    \/ VisitingOther(n) \/ VisitingUndefined(n)
    \/ VisitLiteral(n) \/ VisitVariableRef(n) \/ VisitVariableRefThrows(n)

Visited(n) ==
    \/ VisitedModule(n) \/ VisitedModuleAsserts(n)
    \/ VisitedBlock(n) \/ VisitedOther(n)
    \/ VisitedAssignVariable(n) \/ VisitedAssignVariableThrows(n)
    \/ VisitedBinary(n) \/ VisitedBinaryMismatch(n) \/ VisitedBinaryThrows(n)
    \/ VisitedReturn(n) \/ VisitedReturnAsserts(n)
    \/ VisitedUndefined(n)

WalkerAlone ==
    /\ SkipBranch \/ NullChild \/ UnhandledKind \/ CleanUp
    /\ UNCHANGED visitorVars

Next == (\E n \in DOMAIN ast : Visiting(n) \/ Visited(n)) \/ WalkerAlone

Safety == Init /\ [][Next]_vars

(***************************************************************************)
(* Compilation runs on the caller's thread and waits for nothing.          *)
(***************************************************************************)
Spec == Safety /\ WF_vars(Next)

-----------------------------------------------------------------------------
(* Classes of trees the properties are about                               *)

OperatorKind == {"Binary", "AssignVariable", "Return"}

(***************************************************************************)
(* The nodes that leave exactly one value behind for their parent.  Block, *)
(* Conditional and Return are expressions too, but leave none or several.  *)
(***************************************************************************)
ValueKind == LeafKind \cup {"Binary", "AssignVariable"}

OperandsIn(K, kinds) ==
    \A n \in DOMAIN ast : ast[n].kind \in K =>
       \A i \in DOMAIN ast[n].kids :
          ast[n].kids[i] # Null => ast[ast[n].kids[i]].kind \in kinds

ValueOperands == OperandsIn(OperatorKind, ValueKind)

(***************************************************************************)
(* Every node has its Variable or Scope, and the Scope its Variables.      *)
(***************************************************************************)
NothingLacks == \A n \in DOMAIN ast : ~ast[n].lacks

Promised == ValueOperands /\ NothingLacks

(***************************************************************************)
(* Every Variable a node holds is, up to its type, the one its name finds, *)
(* and is assigned values of its own type only; no operand is an           *)
(* assignment, whose llvm::Value is a store and has no value.              *)
(***************************************************************************)
NamesAgree ==
    \A n, b \in DOMAIN ast :
       ast[n].kind \in {"VariableRef", "AssignVariable"} /\ Binds(ast, n, ast[n].name, b)
          => ast[b].scope[ast[n].name] = ast[n].dataType

StoresAgree ==
    \A n \in DOMAIN ast :
       ast[n].kind = "AssignVariable" => TypeAt(ast, ast[n].kids[1]) = ast[n].dataType

TypedTree ==
    /\ OperandsIn(OperatorKind, ValueKind \ {"AssignVariable"})
    /\ NamesAgree
    /\ StoresAgree

-----------------------------------------------------------------------------
(* Properties                                                              *)

(***************************************************************************)
(* The members of CodeGenVisitor have the types they are declared with.    *)
(***************************************************************************)
TypeOK ==
    /\ WalkTypeOK
    /\ allocaScopeStack \in Seq(AllocaScope)
    /\ valueStack \in Seq(Value)
    /\ ancestryStack \in Seq(Nat)
    /\ entryHeight \in Seq(Nat)
    /\ returnType \in LlvmType
    /\ block \in Seq(Instruction)

(***************************************************************************)
(* ancestryStack_ holds exactly the nodes the walker is inside of, so the  *)
(* assertion at the head of visitedNode never fires and its test for a     *)
(* parent means what it says.                                              *)
(***************************************************************************)
AncestryIsWalk ==
    outcome \in {"walking", "done"} =>
       ancestryStack = [i \in DOMAIN calls |-> calls[i].node]

(***************************************************************************)
(* allocaScopeStack_ holds a scope for each Block the walk is inside of,   *)
(* and for no other, outermost first, with that Block's variables.         *)
(***************************************************************************)
ScopesAreOpenBlocks ==
    outcome \in {"walking", "done"} =>
       /\ \A i \in DOMAIN allocaScopeStack :
             LET s == allocaScopeStack[i] IN
             /\ s.block \in Open
             /\ ast[s.block].kind = "Block"
             /\ DOMAIN s.vars = DOMAIN ast[s.block].scope
       /\ \A i, j \in DOMAIN allocaScopeStack :
             i < j => allocaScopeStack[i].block < allocaScopeStack[j].block
       /\ \A b \in Open :
             ast[b].kind = "Block" =>
                \E i \in DOMAIN allocaScopeStack : allocaScopeStack[i].block = b

(***************************************************************************)
(* Each pushed and popped by callbacks of its own, the two stacks agree    *)
(* with the walk and so with each other: the scope on top is that of the   *)
(* innermost Block among the ancestors.                                    *)
(***************************************************************************)
StacksFollowWalk == AncestryIsWalk /\ ScopesAreOpenBlocks

(***************************************************************************)
(* Every load and store addresses the alloca of the innermost Block around *)
(* its node that declares the name, however the scopes of other Blocks     *)
(* came and went in between.                                               *)
(***************************************************************************)
BoundSlot(i) ==
    LET x == ast[i.from].name IN
    \E b \in DOMAIN ast :
       /\ Binds(ast, i.from, x, b)
       /\ i.slots = {[block |-> b, name |-> x]}

LexicalScoping ==
    \A k \in DOMAIN block : block[k].op \in {"load", "store"} => BoundSlot(block[k])

(***************************************************************************)
(* Inside an operation, the values on valueStack_ above the height it was  *)
(* entered at are those of the operands walked so far, in order, each with *)
(* a defined type, and nothing else; and the nodes open inside it are      *)
(* operations as well.  For arithmetic and assignments it does not matter  *)
(* what the operand of a Return is.                                        *)
(***************************************************************************)
CallKind(i) == ast[calls[i].node].kind

Height(i) == IF i = Len(calls) THEN Len(valueStack) ELSE entryHeight[i + 1]

InPlace(i) ==
    LET kids == ast[calls[i].node].kids IN
    /\ Height(i) = entryHeight[i] + calls[i].next - 1
    /\ \A j \in 1 .. (calls[i].next - 1) :
          /\ kids[j] # Null /\ TypeAt(ast, kids[j]) # Undefined
          /\ valueStack[entryHeight[i] + j].from = kids[j]

PlacedIn(K) ==
    /\ \A i, j \in DOMAIN calls :
          i <= j /\ CallKind(i) \in K
             => CallKind(j) \in K /\ entryHeight[i] <= entryHeight[j]
    /\ \A i \in DOMAIN calls : CallKind(i) \in K => InPlace(i)

OperandsInPlace ==
    /\ outcome = "walking" => Len(entryHeight) = Len(calls)
    /\ \A K \in {OperatorKind, OperatorKind \ {"Return"}} :
          OperandsIn(K, ValueKind) => PlacedIn(K)

(***************************************************************************)
(* When operands are nodes that leave a value, every operation takes the   *)
(* values of its own operands, left before right, and never one that       *)
(* another node left behind.                                               *)
(***************************************************************************)
OwnOperands ==
    ValueOperands =>
       \A k \in DOMAIN block :
          LET node == ast[block[k].from] IN
          node.kind \in OperatorKind =>
             [i \in DOMAIN block[k].args |-> block[k].args[i].from] = node.kids

(***************************************************************************)
(* When operands are nodes that leave a value and no Variable or Scope is  *)
(* null, the code generator, with its three stacks, implements a           *)
(* translation that reads every instruction off the tree: none is missing, *)
(* none made twice, none out of its turn, none takes another node's value  *)
(* or addresses another Block's variable, and compilation throws rather    *)
(* than end in undefined behaviour.                                        *)
(***************************************************************************)
Abstracted(i) ==
    [node |-> i.from, op |-> i.op, slots |-> i.slots,
     args |-> [a \in DOMAIN i.args |-> i.args[a].from]]

Scheme == INSTANCE Translation
    WITH promised <- Promised, status <- outcome,
         code <- {Abstracted(block[k]) : k \in DOMAIN block}

TranslationSpec == Scheme!Spec

(***************************************************************************)
(* When operands are nodes that leave a value and no Variable or Scope is  *)
(* null, compilation never reads an empty valueStack_ or the type of an    *)
(* empty Block.  With LLAST_DEBUG the operand of Return may be anything.   *)
(***************************************************************************)
NoUndefinedBehaviour ==
    LET operators == IF LlastDebug THEN OperatorKind \ {"Return"} ELSE OperatorKind IN
    OperandsIn(operators, ValueKind) /\ NothingLacks => outcome # Undefined

(***************************************************************************)
(* Which trees leave values on valueStack_ when compilation ends can be    *)
(* told from the tree: a value no operation takes stays until a Block that *)
(* closes later drops it, and each Block drops one at most.  So nothing    *)
(* remains just if, from each node on, as many Blocks close as values that *)
(* are not taken; and the assertion at the end fires for no other tree.    *)
(***************************************************************************)
Untaken(n) ==
    /\ ast[n].kind \in ValueKind
    /\ \A p \in DOMAIN ast : ast[p].kind \in OperatorKind => ~Encloses(ast, p, n)

ClosingFrom(n) == {m \in DOMAIN ast : m = n \/ ClosesBefore(ast, n, m)}

Balanced ==
    \A n \in DOMAIN ast :
       Cardinality({m \in ClosingFrom(n) : Untaken(m)})
          <= Cardinality({m \in ClosingFrom(n) : ast[m].kind = "Block"})

RemainsIfUnbalanced ==
    ValueOperands =>
       /\ outcome = "done" => (valueStack = <<>> <=> Balanced)
       /\ outcome = "DebugAssertionFailedException" => ~Balanced

(***************************************************************************)
(* Compilation of a tree whose variables are used at their declared types  *)
(* yields instructions whose operand types LLVM accepts: the test in       *)
(* visitedBinary, made on the tree, is enough to protect the code.         *)
(***************************************************************************)
WellTypedInstruction(i) ==
    LET node == ast[i.from] IN
    CASE node.kind = "Binary" ->
            \A a \in {1, 2} : i.args[a].type = TypeFor(node.dataType)
      [] node.kind = "AssignVariable" ->
            \A s \in i.slots : i.args[1].type = TypeFor(ast[s.block].scope[s.name])
      [] node.kind = "VariableRef" -> i.type = TypeFor(node.dataType)
      [] node.kind = "Return" -> i.args[1].type = TypeFor(node.dataType)
      [] OTHER -> TRUE

WellTypedCode ==
    TypedTree => \A k \in DOMAIN block : WellTypedInstruction(block[k])

(***************************************************************************)
(* Errors are neither missed nor invented: compile() succeeds only if      *)
(* every name is declared, and once in its Block, every operand, Scope and *)
(* Variable is there, and operations are on one arithmetic type; and each  *)
(* exception is thrown only for a tree with its defect.                    *)
(***************************************************************************)
Unbound(n) ==
    /\ ast[n].kind \in {"VariableRef", "AssignVariable"}
    /\ \A b \in DOMAIN ast : ~Binds(ast, n, ast[n].name, b)

Repeating(n) == ast[n].kind = "Block" /\ ast[n].repeats # {}

Mismatched(n) ==
    ast[n].kind = "Binary" /\ TypeAt(ast, ast[n].kids[1]) # TypeAt(ast, ast[n].kids[2])

Unsupported(n) ==
    \/ ast[n].kind \in ClientKind
    \/ ast[n].kind = "Binary" /\ ast[n].dataType \notin Arithmetic
    \/ ast[n].kind = "Function" /\ ~HasLlvmType(ast[n].dataType)
    \/ ast[n].kind = "Block" /\ \E x \in DOMAIN ast[n].scope :
                                   ~HasLlvmType(ast[n].scope[x])

NoErrorMissed ==
    outcome = "done" =>
       ~\E n \in DOMAIN ast :
          \/ Unbound(n) \/ Repeating(n) \/ Mismatched(n) \/ Unsupported(n) \/ Incomplete(n)
          \/ ast[n].lacks

NoFalseError ==
    /\ outcome = "InvalidStateException"    => \E n \in DOMAIN ast : Unbound(n) \/ Repeating(n)
    /\ outcome = "CompileException"         => \E n \in DOMAIN ast : Mismatched(n)
    /\ outcome = "UnhandledSwitchCase"      => \E n \in DOMAIN ast : Unsupported(n)
    /\ outcome = "InvalidArgumentException" => \E n \in DOMAIN ast : Incomplete(n)

(***************************************************************************)
(* The code is in static single assignment form and complete: no node is   *)
(* compiled twice, a value is computed before the one instruction that     *)
(* uses it, and a successful compilation has left no node out.             *)
(***************************************************************************)
CompiledKind == OperatorKind \cup {"VariableRef", "Block"}

CompiledOnce == \A j, k \in DOMAIN block : block[j].from = block[k].from => j = k

ComputedBeforeUse ==
    \A k \in DOMAIN block : \A a \in DOMAIN block[k].args :
       ast[block[k].args[a].from].kind \in CompiledKind =>
          \E j \in 1 .. (k - 1) : block[j].from = block[k].args[a].from

UsedOnce ==
    \A k, l \in DOMAIN block :
       \A a \in DOMAIN block[k].args, b \in DOMAIN block[l].args :
          block[k].args[a].from = block[l].args[b].from => k = l /\ a = b

AllCompiled ==
    outcome = "done" =>
       {n \in DOMAIN ast : ast[n].kind \in CompiledKind}
          \subseteq {block[k].from : k \in DOMAIN block}

SsaCode == CompiledOnce /\ ComputedBeforeUse /\ UsedOnce /\ AllCompiled

(***************************************************************************)
(* Every compilation ends, with a function or with an exception.           *)
(***************************************************************************)
Terminates == <>(outcome # "walking")

-----------------------------------------------------------------------------
(* What comments, assertions and the README say, and the code does not do  *)

(***************************************************************************)
(* The assertion in visitedModule: "When compilation complete, no values   *)
(* should remain."  (src/src/ExprRunner.cpp:56)                            *)
(***************************************************************************)
NoValuesRemain == outcome = "done" => valueStack = <<>>

(***************************************************************************)
(* The comment in visitedNode: "If the parent node of expr is a BlockExpr, *)
(* the value left behind on valueStack_ is extraneous and should be        *)
(* removed."  (src/src/ExprRunner.cpp:89)                                  *)
(***************************************************************************)
ExtraneousValuesRemoved ==
    \A i \in DOMAIN calls :
       ast[calls[i].node].kind = "Block" =>
          \A j \in 1 .. (calls[i].next - 1) : \A v \in DOMAIN valueStack :
             valueStack[v].from # ast[calls[i].node].kids[j]

(***************************************************************************)
(* The README on returning a return: "This should either be an error or    *)
(* succeed."  (src/README.md:76)                                           *)
(***************************************************************************)
ReturnOfReturn ==
    (\E n \in DOMAIN ast : ast[n].kind = "Return" /\ ast[n].kids[1] # Null
                             /\ ast[ast[n].kids[1]].kind = "Return")
       => outcome # Undefined

(***************************************************************************)
(* "The data type of a block expression is always the data type of the     *)
(* last expression in the block" (src/src/AST.hpp:291), and "everything is *)
(* an expression" (src/src/ExprRunner.cpp:90): an operation on a Block     *)
(* takes the value of the Block's last expression.                         *)
(***************************************************************************)
BlockHasValue ==
    \A k \in DOMAIN block : \A a \in DOMAIN block[k].args :
       LET operand == ast[ast[block[k].from].kids[a]] IN
       operand.kind = "Block" =>
          block[k].args[a].from = operand.kids[Len(operand.kids)]

=============================================================================
