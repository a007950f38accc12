--------------------------- MODULE CodeGenProofs ---------------------------
(***************************************************************************)
(* Proofs about the code generator, for every set of Modules and with or   *)
(* without LLAST_DEBUG: it walks as TreeWalker does, its members keep      *)
(* their types, ancestryStack_ is the walker's path, and the names of a    *)
(* function are resolved lexically.                                        *)
(***************************************************************************)
EXTENDS CodeGen, TreeWalkerProofs

-----------------------------------------------------------------------------
(* The code generator is a visitor of the walker                           *)

LEMMA FailureNames ==
    /\ "UnhandledSwitchCase" \in Failure /\ "InvalidStateException" \in Failure
    /\ "DebugAssertionFailedException" \in Failure /\ "CompileException" \in Failure
    /\ Undefined \in Failure
  BY DEF Failure, Exception

LEMMA HandlerWalks == Next => WalkNext
  <1> SUFFICES ASSUME Next
               PROVE  WalkNext
    OBVIOUS
  <1>1. ASSUME NEW n \in DOMAIN ast, Visiting(n)
        PROVE  WalkNext
    <2>1. \/ Enter(n) \/ VisitLeaf(n)
          \/ FailEntering(n, "UnhandledSwitchCase") \/ FailEntering(n, "InvalidStateException")
          \/ FailEntering(n, Undefined)
      BY <1>1 DEF Visiting, VisitingModule, VisitingFunction, VisitingFunctionThrows,
                  VisitingBlock, VisitingBlockThrows, VisitingBlockRepeats, VisitingOther,
                  VisitingUndefined, VisitLiteral, VisitVariableRef, VisitVariableRefThrows
    <2> QED
      BY <2>1, FailureNames DEF WalkNext
  <1>2. ASSUME NEW n \in DOMAIN ast, Visited(n)
        PROVE  WalkNext
    <2>1. Leave(n) \/ \E e \in Failure : FailLeaving(n, e)
      BY <1>2, FailureNames
         DEF Visited, VisitedModule, VisitedModuleAsserts, VisitedBlock, VisitedOther,
             VisitedAssignVariable, VisitedAssignVariableThrows, VisitedBinary,
             VisitedBinaryMismatch, VisitedBinaryThrows, VisitedReturn,
             VisitedReturnAsserts, VisitedUndefined
    <2> QED
      BY <2>1 DEF WalkNext
  <1>3. CASE WalkerAlone
    BY <1>3 DEF WalkerAlone, WalkNext
  <1> QED
    BY <1>1, <1>2, <1>3 DEF Next

LEMMA StepWalks == [Next]_vars => [WalkNext]_walkerVars
  BY HandlerWalks DEF vars, walkerVars

(***************************************************************************)
(* Every compilation is a walk of ExpressionTreeWalker: all that is proved *)
(* of the walk holds of it.                                                *)
(***************************************************************************)
THEOREM CompilationIsWalk == Safety => WalkSafety
  <1>1. Init => WalkInit
    BY DEF Init
  <1> QED
    BY <1>1, StepWalks, PTL DEF Safety, WalkSafety

THEOREM CompilationStaysInDocument ==
    Safety => [](WalkTypeOK /\ InDocument /\ LeftBehind)
  BY CompilationIsWalk, WalkTypeCorrect, WalkStaysInDocument, WalkLeavesBehind, PTL

-----------------------------------------------------------------------------
(* Types                                                                   *)

LEMMA DroppedType ==
    ASSUME NEW S, NEW s \in Seq(S), NEW k \in Nat
    PROVE  Dropped(s, k) \in Seq(S)
  <1>1. Len(s) \in Nat
    OBVIOUS
  <1>2. CASE k <= Len(s)
    <2>1. Len(s) - k \in Nat /\ Len(s) - k <= Len(s)
      BY <1>1, <1>2
    <2> QED
      BY <2>1, Prefix DEF Dropped
  <1>3. CASE k > Len(s)
    <2>1. 1 \in Int /\ Len(s) - k \in Int /\ Len(s) - k < 1
      BY <1>1, <1>3
    <2>2. SubSeq(s, 1, Len(s) - k) = <<>>
      BY <2>1, SubSeqEmpty
    <2> QED
      BY <2>2, EmptySeq DEF Dropped
  <1> QED
    BY <1>1, <1>2, <1>3

LEMMA TypeForType == \A dt : TypeFor(dt) \in LlvmType
  BY DEF TypeFor, LlvmType

LEMMA OpcodeType ==
    ASSUME NEW dt, NEW operation \in OperationKind
    PROVE  OpcodeFor(dt, operation) \in Opcode
  BY DEF OpcodeFor, Opcode, OperationKind

(***************************************************************************)
(* A list of instructions grows by one that has the right types.           *)
(***************************************************************************)
LEMMA EmitType ==
    ASSUME block \in Seq(Instruction), NEW op \in Opcode, NEW n \in Nat,
           NEW type \in LlvmType, NEW args \in Seq(Value), NEW slots \in SUBSET Slot,
           Emit(op, n, type, args, slots)
    PROVE  block' \in Seq(Instruction)
  <1> DEFINE i == [op |-> op, from |-> n, type |-> type, args |-> args, slots |-> slots]
  <1>1. i \in Instruction
    BY DEF Instruction
  <1>2. block' = Append(block, i)
    BY DEF Emit
  <1> QED
    BY <1>1, <1>2

LEMMA NodeFields ==
    ASSUME WalkTypeOK, NEW n \in DOMAIN ast
    PROVE  /\ n \in Nat /\ ast[n].scope \in Scope /\ ast[n].name \in Name
           /\ ast[n].operation \in OperationKind
           /\ DOMAIN ast[n].scope \subseteq Name
  <1>1. ast \in Seq(Node)
    BY DEF WalkTypeOK, IsTree
  <1>2. ast[n] \in Node /\ n \in Nat
    BY <1>1
  <1>3. ast[n].scope \in Scope /\ ast[n].name \in Name /\ ast[n].operation \in OperationKind
    BY <1>2 DEF Node
  <1>4. DOMAIN ast[n].scope \subseteq Name
    BY <1>3 DEF Scope
  <1> QED
    BY <1>2, <1>3, <1>4

LEMMA AllocateType ==
    ASSUME WalkTypeOK, NEW n \in DOMAIN ast, NEW S \in SUBSET DOMAIN ast[n].scope,
           allocaScopeStack \in Seq(AllocaScope), block \in Seq(Instruction),
           Allocate(n, S)
    PROVE  allocaScopeStack' \in Seq(AllocaScope) /\ block' \in Seq(Instruction)
  <1> DEFINE vs == [x \in S |-> TypeFor(ast[n].scope[x])]
             slots == {[block |-> n, name |-> x] : x \in S}
  <1>1. n \in Nat /\ S \subseteq Name
    BY NodeFields
  <1>2. vs \in [S -> LlvmType]
    BY TypeForType
  <1>3. vs \in UNION {[T -> LlvmType] : T \in SUBSET Name}
    <2> HIDE DEF vs
    <2> QED
      BY <1>1, <1>2
  <1>4. slots \in SUBSET Slot
    BY <1>1 DEF Slot
  <1>5. /\ allocaScopeStack' = Append(allocaScopeStack, [block |-> n, vars |-> vs])
        /\ Emit("alloca", n, "void", <<>>, slots)
    BY DEF Allocate
  <1> HIDE DEF vs, slots
  <1>6. [block |-> n, vars |-> vs] \in AllocaScope
    BY <1>1, <1>3 DEF AllocaScope
  <1>7. "alloca" \in Opcode /\ "void" \in LlvmType /\ <<>> \in Seq(Value)
    BY DEF Opcode, LlvmType
  <1>8. allocaScopeStack' \in Seq(AllocaScope)
    BY <1>5, <1>6
  <1>9. block' \in Seq(Instruction)
    BY <1>1, <1>4, <1>5, <1>7, EmitType
  <1> QED
    BY <1>8, <1>9

(***************************************************************************)
(* What is on allocaScopeStack and valueStack.                             *)
(***************************************************************************)
LEMMA FoundType ==
    ASSUME allocaScopeStack \in Seq(AllocaScope), NEW x \in Name,
           NEW i \in DOMAIN allocaScopeStack, Finds(x, i)
    PROVE  /\ allocaScopeStack[i].vars[x] \in LlvmType
           /\ {SlotOf(x, i)} \in SUBSET Slot
  <1> DEFINE s == allocaScopeStack[i]
  <1>1. s \in AllocaScope
    OBVIOUS
  <1>2. x \in DOMAIN s.vars
    BY DEF Finds
  <1> HIDE DEF s
  <1>3. s.block \in Nat /\ s.vars \in UNION {[S -> LlvmType] : S \in SUBSET Name}
    BY <1>1 DEF AllocaScope
  <1>4. s.vars[x] \in LlvmType
    BY <1>2, <1>3
  <1>5. [block |-> s.block, name |-> x] \in Slot
    BY <1>3 DEF Slot
  <1> QED
    BY <1>4, <1>5 DEF s, SlotOf

LEMMA TopValueType ==
    ASSUME valueStack \in Seq(Value), NEW k \in Nat, Len(valueStack) >= k + 1
    PROVE  TopValue(k) \in Value /\ TopValue(k).type \in LlvmType
  <1>1. Len(valueStack) - k \in 1 .. Len(valueStack)
    OBVIOUS
  <1>2. TopValue(k) \in Value
    BY <1>1 DEF TopValue
  <1> QED
    BY <1>2 DEF Value

LEMMA PushedType ==
    ASSUME NEW s \in Seq(Value), NEW n \in Nat, NEW t \in LlvmType
    PROVE  Append(s, [from |-> n, type |-> t]) \in Seq(Value)
  <1>1. [from |-> n, type |-> t] \in Value
    BY DEF Value
  <1> QED
    BY <1>1

(***************************************************************************)
(* visitingNode and visitedNode keep the types of the stacks they touch.   *)
(***************************************************************************)
LEMMA VisitingNodeType ==
    ASSUME TypeOK, NEW n \in DOMAIN ast, VisitingNode(n)
    PROVE  ancestryStack' \in Seq(Nat) /\ entryHeight' \in Seq(Nat)
  <1>1. n \in Nat /\ Len(valueStack) \in Nat
    BY NodeFields DEF TypeOK
  <1> QED
    BY <1>1 DEF VisitingNode, TypeOK

LEMMA VisitedNodeType ==
    ASSUME TypeOK, NEW n \in DOMAIN ast, NEW values \in Seq(Value), VisitedNode(n, values)
    PROVE  /\ ancestryStack' \in Seq(Nat) /\ entryHeight' \in Seq(Nat)
           /\ valueStack' \in Seq(Value)
  <1>1. Dropped(values, 1) \in Seq(Value)
    BY DroppedType
  <1>2. Dropped(ancestryStack, 1) \in Seq(Nat) /\ Dropped(entryHeight, 1) \in Seq(Nat)
    BY DroppedType DEF TypeOK
  <1> QED
    BY <1>1, <1>2 DEF VisitedNode

LEMMA VisitingType ==
    ASSUME TypeOK, WalkTypeOK', NEW n \in DOMAIN ast, Visiting(n)
    PROVE  TypeOK'
  <1>0. /\ allocaScopeStack \in Seq(AllocaScope) /\ valueStack \in Seq(Value)
        /\ ancestryStack \in Seq(Nat) /\ entryHeight \in Seq(Nat)
        /\ returnType \in LlvmType /\ block \in Seq(Instruction) /\ WalkTypeOK
    BY DEF TypeOK
  <1>1. CASE VisitingModule(n) \/ VisitingFunctionThrows(n) \/ VisitingOther(n)
             \/ VisitVariableRefThrows(n) \/ VisitingUndefined(n)
    BY <1>0, <1>1, VisitingNodeType
       DEF TypeOK, VisitingModule, VisitingFunctionThrows, VisitingOther,
           VisitVariableRefThrows,
           VisitingUndefined
  <1>2. CASE VisitingFunction(n)
    <2>1. <<>> \in Seq(Instruction)
      OBVIOUS
    <2> QED
      BY <1>0, <1>2, <2>1, VisitingNodeType, TypeForType DEF TypeOK, VisitingFunction
  <1>3. CASE VisitingBlock(n)
    <2>1. allocaScopeStack' \in Seq(AllocaScope) /\ block' \in Seq(Instruction)
      BY <1>0, <1>3, AllocateType DEF VisitingBlock
    <2> QED
      BY <1>0, <1>3, <2>1, VisitingNodeType DEF TypeOK, VisitingBlock
  <1>4. CASE VisitingBlockThrows(n) \/ VisitingBlockRepeats(n)
    <2>1. PICK S \in SUBSET Allocatable(n) : Allocate(n, S)
      BY <1>4 DEF VisitingBlockThrows, VisitingBlockRepeats
    <2>2. S \in SUBSET DOMAIN ast[n].scope
      BY DEF Allocatable
    <2>3. allocaScopeStack' \in Seq(AllocaScope) /\ block' \in Seq(Instruction)
      BY <1>0, <2>1, <2>2, AllocateType
    <2> QED
      BY <1>0, <1>4, <2>3, VisitingNodeType
         DEF TypeOK, VisitingBlockThrows, VisitingBlockRepeats
  <1>5. CASE VisitLiteral(n)
    <2>1. valueStack' \in Seq(Value)
      BY <1>0, <1>5, PushedType, TypeForType, NodeFields DEF VisitLiteral
    <2> QED
      BY <1>0, <1>5, <2>1 DEF TypeOK, VisitLiteral
  <1>6. CASE VisitVariableRef(n)
    <2> DEFINE x == ast[n].name
               type(i) == allocaScopeStack[i].vars[x]
    <2>1. PICK i \in DOMAIN allocaScopeStack :
             /\ Finds(x, i)
             /\ Emit("load", n, type(i), <<>>, {SlotOf(x, i)})
             /\ valueStack' = Append(valueStack, [from |-> n, type |-> type(i)])
      BY <1>6 DEF VisitVariableRef
    <2>2. n \in Nat /\ x \in Name
      BY <1>0, NodeFields
    <2>3. type(i) \in LlvmType /\ {SlotOf(x, i)} \in SUBSET Slot
      BY <1>0, <2>1, <2>2, FoundType
    <2>4. "load" \in Opcode /\ <<>> \in Seq(Value)
      BY DEF Opcode
    <2> HIDE DEF type, x
    <2>5. block' \in Seq(Instruction)
      BY <1>0, <2>1, <2>2, <2>3, <2>4, EmitType
    <2>6. valueStack' \in Seq(Value)
      BY <1>0, <2>1, <2>2, <2>3, PushedType
    <2> QED
      BY <1>0, <1>6, <2>5, <2>6 DEF TypeOK, VisitVariableRef
  <1> QED
    BY <1>1, <1>2, <1>3, <1>4, <1>5, <1>6 DEF Visiting

LEMMA VisitedType ==
    ASSUME TypeOK, WalkTypeOK', NEW n \in DOMAIN ast, Visited(n)
    PROVE  TypeOK'
  <1>0. /\ allocaScopeStack \in Seq(AllocaScope) /\ valueStack \in Seq(Value)
        /\ ancestryStack \in Seq(Nat) /\ entryHeight \in Seq(Nat)
        /\ returnType \in LlvmType /\ block \in Seq(Instruction) /\ WalkTypeOK
    BY DEF TypeOK
  <1>1. n \in Nat /\ ast[n].name \in Name /\ ast[n].operation \in OperationKind
    BY <1>0, NodeFields
  <1>2. Dropped(valueStack, 1) \in Seq(Value) /\ Dropped(valueStack, 2) \in Seq(Value)
    BY <1>0, DroppedType
  <1>3. /\ "void" \in LlvmType /\ "store" \in Opcode /\ "ret" \in Opcode
        /\ {} \in SUBSET Slot
    BY DEF LlvmType, Opcode
  <1>4. CASE VisitedModule(n) \/ VisitedOther(n)
    BY <1>0, <1>4, VisitedNodeType DEF TypeOK, VisitedModule, VisitedOther
  <1>5. CASE VisitedModuleAsserts(n) \/ VisitedAssignVariableThrows(n)
             \/ VisitedBinaryMismatch(n) \/ VisitedReturnAsserts(n) \/ VisitedUndefined(n)
    BY <1>0, <1>5
       DEF TypeOK, VisitedModuleAsserts, VisitedAssignVariableThrows,
           VisitedBinaryMismatch, VisitedReturnAsserts, VisitedUndefined, visitorVars
  <1>6. CASE VisitedBlock(n)
    <2>1. Dropped(allocaScopeStack, 1) \in Seq(AllocaScope)
      BY <1>0, DroppedType
    <2> QED
      BY <1>0, <1>6, <2>1, VisitedNodeType DEF TypeOK, VisitedBlock
  <1>7. CASE VisitedAssignVariable(n)
    <2> DEFINE x == ast[n].name
    <2>1. PICK i \in DOMAIN allocaScopeStack :
             /\ Finds(x, i)
             /\ Emit("store", n, "void", <<TopValue(0)>>, {SlotOf(x, i)})
      BY <1>7 DEF VisitedAssignVariable
    <2>2. TopValue(0) \in Value
      BY <1>0, <1>7, TopValueType DEF VisitedAssignVariable
    <2>3. <<TopValue(0)>> \in Seq(Value) /\ {SlotOf(x, i)} \in SUBSET Slot
      BY <1>0, <1>1, <2>1, <2>2, FoundType
    <2> HIDE DEF x
    <2>4. block' \in Seq(Instruction)
      BY <1>0, <1>1, <1>3, <2>1, <2>3, EmitType
    <2>5. Append(Dropped(valueStack, 1), [from |-> n, type |-> "void"]) \in Seq(Value)
      BY <1>1, <1>2, <1>3, PushedType
    <2>6. /\ ancestryStack' \in Seq(Nat) /\ entryHeight' \in Seq(Nat)
          /\ valueStack' \in Seq(Value)
      BY <1>7, <2>5, VisitedNodeType DEF VisitedAssignVariable
    <2> QED
      BY <1>0, <1>7, <2>4, <2>6 DEF TypeOK, VisitedAssignVariable
  <1>8. CASE VisitedBinary(n)
    <2> DEFINE r == TopValue(0)
               l == TopValue(1)
               op == OpcodeFor(ast[n].dataType, ast[n].operation)
    <2>1. Emit(op, n, l.type, <<l, r>>, {})
      BY <1>8 DEF VisitedBinary
    <2>2. Len(valueStack) >= 2 /\ Len(valueStack) \in Nat
      BY <1>0, <1>8 DEF VisitedBinary
    <2>3. r \in Value /\ l \in Value /\ l.type \in LlvmType
      BY <1>0, <2>2, TopValueType
    <2>4. op \in Opcode
      BY <1>1, OpcodeType
    <2>5. VisitedNode(n, Append(Dropped(valueStack, 2), [from |-> n, type |-> l.type]))
      BY <1>8 DEF VisitedBinary
    <2> HIDE DEF r, l, op
    <2>6. <<l, r>> \in Seq(Value)
      BY <2>3
    <2>7. block' \in Seq(Instruction)
      BY <1>0, <1>1, <1>3, <2>1, <2>3, <2>4, <2>6, EmitType
    <2>8. Append(Dropped(valueStack, 2), [from |-> n, type |-> l.type]) \in Seq(Value)
      BY <1>1, <1>2, <2>3, PushedType
    <2>9. /\ ancestryStack' \in Seq(Nat) /\ entryHeight' \in Seq(Nat)
          /\ valueStack' \in Seq(Value)
      BY <2>5, <2>8, VisitedNodeType
    <2> QED
      BY <1>0, <1>8, <2>7, <2>9 DEF TypeOK, VisitedBinary
  <1>9. CASE VisitedBinaryThrows(n)
    BY <1>0, <1>2, <1>9 DEF TypeOK, VisitedBinaryThrows
  <1>10. CASE VisitedReturn(n)
    <2>0. 0 \in Nat /\ Len(valueStack) >= 0 + 1
      BY <1>10 DEF VisitedReturn
    <2>1. TopValue(0) \in Value
      BY <1>0, <2>0, TopValueType
    <2>2. <<TopValue(0)>> \in Seq(Value)
      BY <2>1
    <2>3. block' \in Seq(Instruction)
      BY <1>0, <1>1, <1>3, <1>10, <2>2, EmitType DEF VisitedReturn
    <2>4. /\ ancestryStack' \in Seq(Nat) /\ entryHeight' \in Seq(Nat)
          /\ valueStack' \in Seq(Value)
      BY <1>2, <1>10, VisitedNodeType DEF VisitedReturn
    <2> QED
      BY <1>0, <1>10, <2>3, <2>4 DEF TypeOK, VisitedReturn
  <1> QED
    BY <1>4, <1>5, <1>6, <1>7, <1>8, <1>9, <1>10 DEF Visited

LEMMA TypeStep == TypeOK /\ [Next]_vars => TypeOK'
  <1> SUFFICES ASSUME TypeOK, [Next]_vars
               PROVE  TypeOK'
    OBVIOUS
  <1>1. WalkTypeOK'
    BY StepWalks, WalkTypeStep DEF TypeOK
  <1>2. CASE WalkerAlone
    BY <1>1, <1>2 DEF TypeOK, WalkerAlone, visitorVars
  <1>3. CASE UNCHANGED vars
    BY <1>1, <1>3 DEF TypeOK, vars, visitorVars
  <1> QED
    BY <1>1, <1>2, <1>3, VisitingType, VisitedType DEF Next

(***************************************************************************)
(* The stacks, the return type and the instructions keep their types: no   *)
(* handler ever pushes something else, whatever the tree.                  *)
(***************************************************************************)
THEOREM TypeCorrect == Safety => []TypeOK
  <1>1. Init => TypeOK
    <2>1. ASSUME Init
          PROVE  TypeOK
      <3>1. WalkTypeOK
        BY <2>1, ProgramsAssumption DEF Init, WalkInit, WalkTypeOK
      <3>2. "void" \in LlvmType
        BY DEF LlvmType
      <3>3. /\ <<>> \in Seq(AllocaScope) /\ <<>> \in Seq(Value)
            /\ <<>> \in Seq(Nat) /\ <<>> \in Seq(Instruction)
        BY EmptySeq
      <3> QED
        BY <2>1, <3>1, <3>2, <3>3 DEF Init, TypeOK
    <2> QED
      BY <2>1
  <1> QED
    BY <1>1, TypeStep, PTL DEF Safety

-----------------------------------------------------------------------------
(* ancestryStack_ is the path of the walk                                  *)

LEMMA Extended ==
    ASSUME NEW S, NEW s \in Seq(S), NEW e \in S
    PROVE  /\ DOMAIN Append(s, e) = 1 .. (Len(s) + 1)
           /\ \A i \in 1 .. Len(s) : Append(s, e)[i] = s[i]
           /\ Append(s, e)[Len(s) + 1] = e
           /\ Append(s, e) = [i \in DOMAIN Append(s, e) |-> Append(s, e)[i]]
  <1> DEFINE t == Append(s, e)
  <1>1. t \in Seq(S) /\ Len(t) = Len(s) + 1
    OBVIOUS
  <1>2. (\A i \in 1 .. Len(s) : t[i] = s[i]) /\ t[Len(s) + 1] = e
    OBVIOUS
  <1> HIDE DEF t
  <1>3. t = [i \in DOMAIN t |-> t[i]] /\ DOMAIN t = 1 .. Len(t)
    BY <1>1, LenProperties
  <1> QED
    BY <1>1, <1>2, <1>3 DEF t

(***************************************************************************)
(* What a step does to ancestryStack: with the walker's step, or else the  *)
(* compilation fails.                                                      *)
(***************************************************************************)
LEMMA VisitingAncestry ==
    ASSUME NEW n \in DOMAIN ast, Visiting(n)
    PROVE  \/ Enter(n) /\ ancestryStack' = Append(ancestryStack, n)
           \/ VisitLeaf(n) /\ ancestryStack' = ancestryStack
           \/ outcome' \in Failure
  BY FailureNames
     DEF Visiting, VisitingModule, VisitingFunction, VisitingFunctionThrows,
         VisitingBlock, VisitingBlockThrows, VisitingBlockRepeats, VisitingOther,
           VisitingUndefined, VisitLiteral,
         VisitVariableRef, VisitVariableRefThrows, VisitingNode, FailEntering, Fail

LEMMA VisitedAncestry ==
    ASSUME NEW n \in DOMAIN ast, Visited(n)
    PROVE  \/ Leave(n) /\ ancestryStack' = Dropped(ancestryStack, 1)
           \/ outcome' \in Failure
  BY FailureNames
     DEF Visited, VisitedModule, VisitedModuleAsserts, VisitedBlock, VisitedOther,
         VisitedAssignVariable, VisitedAssignVariableThrows, VisitedBinary,
         VisitedBinaryMismatch, VisitedBinaryThrows, VisitedReturn,
         VisitedReturnAsserts, VisitedUndefined, VisitedNode, FailLeaving, Fail

LEMMA AloneOutcome ==
    ASSUME WalkerAlone, outcome' \in {"walking", "done"}
    PROVE  SkipBranch \/ CleanUp
  BY DEF WalkerAlone, NullChild, UnhandledKind, Fail

LEMMA AncestryStep ==
    TypeOK /\ InDocument /\ AncestryIsWalk /\ [Next]_vars => AncestryIsWalk'
  <1> SUFFICES ASSUME TypeOK, InDocument, AncestryIsWalk, [Next]_vars,
                      outcome' \in {"walking", "done"}
               PROVE  ancestryStack' = [i \in DOMAIN calls' |-> calls'[i].node]
    BY DEF AncestryIsWalk
  <1>0. /\ WalkTypeOK /\ calls \in Seq(Frame) /\ ancestryStack \in Seq(Nat)
        /\ outcome' \notin Failure
    BY DEF TypeOK, WalkTypeOK, Failure, Exception, Undefined
  <1>1. outcome \in {"walking", "done"} =>
           ancestryStack = [i \in DOMAIN calls |-> calls[i].node]
    BY DEF AncestryIsWalk
  <1>2. ASSUME NEW n \in DOMAIN ast, Visiting(n)
        PROVE  ancestryStack' = [i \in DOMAIN calls' |-> calls'[i].node]
    <2>1. n \in Nat /\ n # 0
      BY <1>0, NodeType DEF WalkTypeOK
    <2>2. CASE Enter(n) /\ ancestryStack' = Append(ancestryStack, n)
      <3> DEFINE f == [node |-> n, next |-> 1]
      <3>1. ancestryStack = [i \in DOMAIN calls |-> calls[i].node]
        BY <1>1, <2>2 DEF Enter, Calling
      <3>2. calls' = Append(calls, f) /\ f \in Frame /\ f.node = n
        BY <2>1, <2>2 DEF Enter, Frame, Null
      <3> HIDE DEF f
      <3>3. /\ Len(calls) \in Nat
            /\ DOMAIN calls = 1 .. Len(calls)
            /\ DOMAIN calls' = 1 .. (Len(calls) + 1)
            /\ \A i \in 1 .. Len(calls) : calls'[i] = calls[i]
            /\ calls'[Len(calls) + 1] = f
        BY <1>0, <3>2
      <3>4. Len(ancestryStack) = Len(calls)
        BY <1>0, <3>1, <3>3
      <3>5. /\ DOMAIN ancestryStack' = 1 .. (Len(calls) + 1)
            /\ \A i \in 1 .. Len(calls) : ancestryStack'[i] = ancestryStack[i]
            /\ ancestryStack'[Len(calls) + 1] = n
            /\ ancestryStack' = [i \in DOMAIN ancestryStack' |-> ancestryStack'[i]]
        <4>1. ancestryStack \in Seq(Nat) /\ n \in Nat
          BY <1>0, <2>1
        <4>2. ancestryStack' = Append(ancestryStack, n)
          BY <2>2
        <4> QED
          BY <3>4, <4>1, <4>2, Extended
      <3>6. \A i \in 1 .. (Len(calls) + 1) : ancestryStack'[i] = calls'[i].node
        <4>1. \A i \in 1 .. Len(calls) : ancestryStack'[i] = calls'[i].node
          <5> SUFFICES ASSUME NEW i \in 1 .. Len(calls)
                       PROVE  ancestryStack'[i] = calls'[i].node
            OBVIOUS
          <5>1. ancestryStack[i] = calls[i].node
            BY <3>1, <3>3
          <5> QED
            BY <3>3, <3>5, <5>1
        <4>2. \A i \in 1 .. (Len(calls) + 1) : i \in 1 .. Len(calls) \/ i = Len(calls) + 1
          BY <3>3
        <4> QED
          BY <3>2, <3>3, <3>5, <4>1, <4>2
      <3> QED
        BY <3>3, <3>5, <3>6
    <2>3. CASE VisitLeaf(n) /\ ancestryStack' = ancestryStack
      <3>1. ancestryStack = [i \in DOMAIN calls |-> calls[i].node]
        BY <1>1, <2>3 DEF VisitLeaf, Calling
      <3>2. DOMAIN calls' = DOMAIN calls /\ \A i \in DOMAIN calls : calls'[i].node = calls[i].node
        <4>1. calls' = Returned(calls)
          BY <2>3 DEF VisitLeaf
        <4> QED
          BY <1>0, <4>1, ReturnedNodes
      <3> QED
        BY <2>3, <3>1, <3>2
    <2> QED
      BY <1>0, <1>2, <2>2, <2>3, VisitingAncestry
  <1>3. ASSUME NEW n \in DOMAIN ast, Visited(n)
        PROVE  ancestryStack' = [i \in DOMAIN calls' |-> calls'[i].node]
    <2>1. Leave(n) /\ ancestryStack' = Dropped(ancestryStack, 1)
      BY <1>0, <1>3, VisitedAncestry
    <2> DEFINE cs == SubSeq(calls, 1, Len(calls) - 1)
    <2>2. calls # <<>> /\ ancestryStack = [i \in DOMAIN calls |-> calls[i].node]
      BY <1>1, <2>1 DEF Leave, Leaving
    <2>3. /\ cs \in Seq(Frame) /\ Len(cs) = Len(calls) - 1
          /\ \A i \in 1 .. Len(calls) - 1 : cs[i] = calls[i]
      BY <1>0, <2>2, PoppedFrames
    <2>4. calls' = Returned(cs)
      BY <2>1 DEF Leave
    <2> HIDE DEF cs
    <2>5. /\ DOMAIN calls' = 1 .. Len(calls) - 1
          /\ \A i \in 1 .. Len(calls) - 1 : calls'[i].node = calls[i].node
      BY <2>3, <2>4, ReturnedFrames
    <2>6. /\ Len(ancestryStack) = Len(calls) /\ Len(calls) - 1 \in Nat
          /\ Len(calls) - 1 <= Len(ancestryStack)
      BY <1>0, <2>2, EmptySeq
    <2>7. /\ ancestryStack' \in Seq(Nat) /\ Len(ancestryStack') = Len(calls) - 1
          /\ \A i \in 1 .. Len(calls) - 1 : ancestryStack'[i] = ancestryStack[i]
      BY <1>0, <2>1, <2>6, Prefix DEF Dropped
    <2>8. /\ DOMAIN ancestryStack' = 1 .. Len(calls) - 1
          /\ ancestryStack' = [i \in DOMAIN ancestryStack' |-> ancestryStack'[i]]
      BY <2>7
    <2>9. \A i \in 1 .. Len(calls) - 1 : i \in DOMAIN calls
      BY <1>0
    <2> QED
      BY <2>2, <2>5, <2>7, <2>8, <2>9
  <1>4. CASE WalkerAlone
    <2>1. ancestryStack' = ancestryStack
      BY <1>4 DEF WalkerAlone, visitorVars
    <2>2. CASE SkipBranch
      <3>1. ancestryStack = [i \in DOMAIN calls |-> calls[i].node]
        BY <1>1, <2>2 DEF SkipBranch, Calling
      <3>2. DOMAIN calls' = DOMAIN calls /\ \A i \in DOMAIN calls : calls'[i].node = calls[i].node
        <4>1. calls' = Returned(calls)
          BY <2>2 DEF SkipBranch
        <4> QED
          BY <1>0, <4>1, ReturnedNodes
      <3> QED
        BY <2>1, <3>1, <3>2
    <2>3. CASE CleanUp
      BY <1>1, <2>1, <2>3 DEF CleanUp
    <2> QED
      BY <1>4, <2>2, <2>3, AloneOutcome
  <1>5. CASE UNCHANGED vars
    BY <1>1, <1>5 DEF vars, walkerVars, visitorVars
  <1> QED
    BY <1>2, <1>3, <1>4, <1>5 DEF Next

(***************************************************************************)
(* The assertion at the head of visitedNode never fails, and its test for  *)
(* a parent looks at the parent, for every tree.                           *)
(***************************************************************************)
THEOREM AncestryCorrect == Safety => []AncestryIsWalk
  <1>1. Init => AncestryIsWalk
    BY DEF Init, WalkInit, AncestryIsWalk
  <1> QED
    BY <1>1, AncestryStep, TypeCorrect, CompilationStaysInDocument, PTL DEF Safety

-----------------------------------------------------------------------------
(* Scopes                                                                  *)

LEMMA VisitingScopes ==
    ASSUME NEW n \in DOMAIN ast, Visiting(n)
    PROVE  \/ Enter(n) /\ ast[n].kind = "Block" /\ Allocate(n, DOMAIN ast[n].scope)
           \/ /\ (Enter(n) /\ ast[n].kind # "Block") \/ VisitLeaf(n)
              /\ allocaScopeStack' = allocaScopeStack
           \/ outcome' \in Failure
  BY FailureNames
     DEF Visiting, VisitingModule, VisitingFunction, VisitingFunctionThrows,
         VisitingBlock, VisitingBlockThrows, VisitingBlockRepeats, VisitingOther,
           VisitingUndefined, VisitLiteral,
         VisitVariableRef, VisitVariableRefThrows, FailEntering, Fail

LEMMA VisitedScopes ==
    ASSUME NEW n \in DOMAIN ast, Visited(n)
    PROVE  \/ /\ Leave(n) /\ ast[n].kind = "Block"
              /\ allocaScopeStack' = Dropped(allocaScopeStack, 1)
           \/ Leave(n) /\ ast[n].kind # "Block" /\ allocaScopeStack' = allocaScopeStack
           \/ outcome' \in Failure
  BY FailureNames
     DEF Visited, VisitedModule, VisitedModuleAsserts, VisitedBlock, VisitedOther,
         VisitedAssignVariable, VisitedAssignVariableThrows, VisitedBinary,
         VisitedBinaryMismatch, VisitedBinaryThrows, VisitedReturn,
         VisitedReturnAsserts, VisitedUndefined, FailLeaving, Fail

(***************************************************************************)
(* A Block that is entered gets a scope on top of those of the Blocks      *)
(* around it.                                                              *)
(***************************************************************************)
LEMMA ScopePushed ==
    ASSUME TypeOK, InDocument, ScopesAreOpenBlocks,
           NEW n \in DOMAIN ast, Enter(n), ast[n].kind = "Block",
           Allocate(n, DOMAIN ast[n].scope)
    PROVE  ScopesAreOpenBlocks'
  <1> DEFINE vs == [x \in DOMAIN ast[n].scope |-> TypeFor(ast[n].scope[x])]
             s  == [block |-> n, vars |-> vs]
             L  == Len(allocaScopeStack)
  <1>0. WalkTypeOK /\ allocaScopeStack \in Seq(AllocaScope)
    BY DEF TypeOK
  <1>1. /\ outcome = "walking" /\ ast' = ast /\ Calling /\ n = Argument /\ n # Null
        /\ allocaScopeStack' = Append(allocaScopeStack, s)
    BY DEF Enter, Calling, Allocate
  <1>2. Open' = Open \cup {n} /\ \A m \in Open : m < n
    <2>1. \A i \in DOMAIN calls : calls[i].node < n
      BY <1>0, <1>1, NextNode
    <2> QED
      BY <1>0, <2>1, EnterOpen, OpenNodes
  <1>3. DOMAIN s.vars = DOMAIN ast[n].scope /\ s.block = n
    OBVIOUS
  <1>4. s \in AllocaScope
    <2>1. n \in Nat /\ DOMAIN ast[n].scope \subseteq Name
      BY <1>0, NodeFields
    <2>2. vs \in [DOMAIN ast[n].scope -> LlvmType]
      BY TypeForType
    <2> HIDE DEF vs
    <2>3. vs \in UNION {[T -> LlvmType] : T \in SUBSET Name}
      BY <2>1, <2>2
    <2> QED
      BY <2>1, <2>3 DEF AllocaScope
  <1> HIDE DEF s, vs
  <1>5. /\ DOMAIN allocaScopeStack = 1 .. L /\ L \in Nat
        /\ DOMAIN allocaScopeStack' = 1 .. (L + 1)
        /\ \A i \in 1 .. L : allocaScopeStack'[i] = allocaScopeStack[i]
        /\ allocaScopeStack'[L + 1] = s
    BY <1>0, <1>1, <1>4, Extended
  <1> HIDE DEF L
  <1>6. ASSUME NEW i \in 1 .. L
        PROVE  LET t == allocaScopeStack'[i] IN
               /\ t.block \in Open /\ ast[t.block].kind = "Block" /\ t.block < n
               /\ DOMAIN t.vars = DOMAIN ast[t.block].scope
    BY <1>1, <1>2, <1>5 DEF ScopesAreOpenBlocks
  <1>7. ASSUME NEW i \in 1 .. (L + 1)
        PROVE  LET t == allocaScopeStack'[i] IN
               /\ t.block \in Open'
               /\ ast'[t.block].kind = "Block"
               /\ DOMAIN t.vars = DOMAIN ast'[t.block].scope
    <2>1. CASE i \in 1 .. L
      BY <1>1, <1>2, <1>6, <2>1
    <2>2. CASE i = L + 1
      BY <1>1, <1>2, <1>3, <1>5, <2>2
    <2> QED
      BY <1>5, <2>1, <2>2
  <1>8. ASSUME NEW i \in 1 .. (L + 1), NEW j \in 1 .. (L + 1), i < j
        PROVE  allocaScopeStack'[i].block < allocaScopeStack'[j].block
    <2>1. i \in 1 .. L /\ (j \in 1 .. L \/ j = L + 1)
      BY <1>5, <1>8
    <2>2. CASE j \in 1 .. L
      BY <1>1, <1>5, <1>8, <2>1, <2>2 DEF ScopesAreOpenBlocks
    <2>3. CASE j = L + 1
      BY <1>3, <1>5, <1>6, <2>1, <2>3
    <2> QED
      BY <2>1, <2>2, <2>3
  <1>9. ASSUME NEW b \in Open', ast'[b].kind = "Block"
        PROVE  \E i \in 1 .. (L + 1) : allocaScopeStack'[i].block = b
    <2>1. CASE b = n
      <3>1. L + 1 \in 1 .. (L + 1)
        BY <1>5
      <3> QED
        BY <1>3, <1>5, <2>1, <3>1
    <2>2. CASE b \in Open
      <3>1. PICK i \in 1 .. L : allocaScopeStack[i].block = b
        BY <1>1, <1>5, <1>9, <2>2 DEF ScopesAreOpenBlocks
      <3>2. i \in 1 .. (L + 1)
        BY <1>5
      <3> QED
        BY <1>5, <3>1, <3>2
    <2> QED
      BY <1>2, <2>1, <2>2
  <1> QED
    BY <1>5, <1>7, <1>8, <1>9 DEF ScopesAreOpenBlocks

(***************************************************************************)
(* The Block that is left is the one whose scope is on top.                *)
(***************************************************************************)
LEMMA ScopePopped ==
    ASSUME TypeOK, InDocument, ScopesAreOpenBlocks,
           NEW n \in DOMAIN ast, Leave(n), ast[n].kind = "Block",
           allocaScopeStack' = Dropped(allocaScopeStack, 1)
    PROVE  ScopesAreOpenBlocks'
  <1> DEFINE L == Len(allocaScopeStack)
  <1>0. WalkTypeOK /\ allocaScopeStack \in Seq(AllocaScope)
    BY DEF TypeOK
  <1>1. outcome = "walking" /\ ast' = ast
    BY DEF Leave, Leaving
  <1>2. /\ n \in Open /\ Open' = Open \ {n} /\ n \in Nat
        /\ \A m \in Open : m <= n /\ m \in Nat
    BY <1>0, LeaveOpen, OpenVisited
  <1>3. DOMAIN allocaScopeStack = 1 .. L /\ L \in Nat
    BY <1>0
  <1>4. /\ \A i \in 1 .. L : LET t == allocaScopeStack[i] IN
              /\ t.block \in Open /\ ast[t.block].kind = "Block"
              /\ DOMAIN t.vars = DOMAIN ast[t.block].scope
        /\ \A i, j \in 1 .. L :
              i < j => allocaScopeStack[i].block < allocaScopeStack[j].block
        /\ \A b \in Open : ast[b].kind = "Block" =>
              \E i \in 1 .. L : allocaScopeStack[i].block = b
    BY <1>1, <1>3 DEF ScopesAreOpenBlocks
  <1> HIDE DEF L
  <1>5. PICK k \in 1 .. L : allocaScopeStack[k].block = n
    BY <1>2, <1>4
  <1>6. k = L
    <2>1. ASSUME k # L
          PROVE  FALSE
      <3>1. k < L /\ L \in 1 .. L
        BY <1>3, <2>1
      <3>2. n < allocaScopeStack[L].block /\ allocaScopeStack[L].block \in Open
        BY <1>4, <1>5, <3>1
      <3> QED
        BY <1>2, <3>2
    <2> QED
      BY <2>1
  <1>7. /\ L - 1 \in Nat /\ L - 1 < L
        /\ \A i \in 1 .. (L - 1) : i \in 1 .. L /\ i < L
    BY <1>3, <1>5
  <1>8. /\ DOMAIN allocaScopeStack' = 1 .. (L - 1)
        /\ \A i \in 1 .. (L - 1) : allocaScopeStack'[i] = allocaScopeStack[i]
    <2>1. L - 1 <= L
      BY <1>3
    <2>2. /\ allocaScopeStack' \in Seq(AllocaScope) /\ Len(allocaScopeStack') = L - 1
          /\ \A i \in 1 .. (L - 1) : allocaScopeStack'[i] = allocaScopeStack[i]
      BY <1>0, <1>7, <2>1, Prefix DEF Dropped, L
    <2> QED
      BY <2>2
  <1>9. ASSUME NEW i \in 1 .. (L - 1)
        PROVE  LET t == allocaScopeStack'[i] IN
               /\ t.block \in Open'
               /\ ast'[t.block].kind = "Block"
               /\ DOMAIN t.vars = DOMAIN ast'[t.block].scope
    <2>1. i \in 1 .. L /\ i < L /\ L \in 1 .. L
      BY <1>5, <1>6, <1>7
    <2>2. allocaScopeStack[i].block < n /\ allocaScopeStack[i].block \in Open
      BY <1>4, <1>5, <1>6, <2>1
    <2>3. allocaScopeStack[i].block # n
      BY <1>2, <2>2
    <2> QED
      BY <1>1, <1>2, <1>4, <1>8, <2>1, <2>2, <2>3
  <1>10. \A i, j \in 1 .. (L - 1) :
            i < j => allocaScopeStack'[i].block < allocaScopeStack'[j].block
    BY <1>4, <1>7, <1>8
  <1>11. ASSUME NEW b \in Open', ast'[b].kind = "Block"
         PROVE  \E i \in 1 .. (L - 1) : allocaScopeStack'[i].block = b
    <2>1. b \in Open /\ b # n
      BY <1>2
    <2>2. PICK i \in 1 .. L : allocaScopeStack[i].block = b
      BY <1>1, <1>4, <1>11, <2>1
    <2>3. i # L
      BY <1>5, <1>6, <2>1, <2>2
    <2>4. i \in 1 .. (L - 1)
      BY <1>3, <2>3
    <2> QED
      BY <1>8, <2>2, <2>4
  <1> QED
    BY <1>8, <1>9, <1>10, <1>11 DEF ScopesAreOpenBlocks

(***************************************************************************)
(* Nothing else opens or closes a Block.                                   *)
(***************************************************************************)
LEMMA ScopesKept ==
    ASSUME ScopesAreOpenBlocks, outcome \in {"walking", "done"},
           allocaScopeStack' = allocaScopeStack, ast' = ast,
           \A b \in Open : ast[b].kind = "Block" => b \in Open',
           \A b \in Open' : ast[b].kind = "Block" => b \in Open
    PROVE  ScopesAreOpenBlocks'
  BY DEF ScopesAreOpenBlocks

LEMMA ScopesStep ==
    TypeOK /\ InDocument /\ ScopesAreOpenBlocks /\ [Next]_vars => ScopesAreOpenBlocks'
  <1> SUFFICES ASSUME TypeOK, InDocument, ScopesAreOpenBlocks, [Next]_vars,
                      outcome' \in {"walking", "done"}
               PROVE  ScopesAreOpenBlocks'
    BY DEF ScopesAreOpenBlocks
  <1>0. WalkTypeOK /\ outcome' \notin Failure
    BY DEF TypeOK, Failure, Exception, Undefined
  <1>1. ASSUME NEW n \in DOMAIN ast, Visiting(n)
        PROVE  ScopesAreOpenBlocks'
    <2>1. CASE Enter(n) /\ ast[n].kind = "Block" /\ Allocate(n, DOMAIN ast[n].scope)
      BY <2>1, ScopePushed
    <2>2. CASE Enter(n) /\ ast[n].kind # "Block" /\ allocaScopeStack' = allocaScopeStack
      <3>1. outcome \in {"walking", "done"} /\ ast' = ast /\ Open' = Open \cup {n}
        BY <1>0, <2>2, EnterOpen DEF Enter, Calling
      <3> QED
        BY <2>2, <3>1, ScopesKept
    <2>3. CASE VisitLeaf(n) /\ allocaScopeStack' = allocaScopeStack
      <3>1. outcome \in {"walking", "done"} /\ ast' = ast /\ Open' = Open
        BY <1>0, <2>3, ReturnedOpen DEF VisitLeaf, Calling
      <3> QED
        BY <2>3, <3>1, ScopesKept
    <2> QED
      BY <1>0, <1>1, <2>1, <2>2, <2>3, VisitingScopes
  <1>2. ASSUME NEW n \in DOMAIN ast, Visited(n)
        PROVE  ScopesAreOpenBlocks'
    <2>1. CASE Leave(n) /\ ast[n].kind = "Block"
               /\ allocaScopeStack' = Dropped(allocaScopeStack, 1)
      BY <2>1, ScopePopped
    <2>2. CASE Leave(n) /\ ast[n].kind # "Block" /\ allocaScopeStack' = allocaScopeStack
      <3>1. outcome \in {"walking", "done"} /\ ast' = ast /\ Open' = Open \ {n}
        BY <1>0, <2>2, LeaveOpen DEF Leave, Leaving
      <3> QED
        BY <2>2, <3>1, ScopesKept
    <2> QED
      BY <1>0, <1>2, <2>1, <2>2, VisitedScopes
  <1>3. CASE WalkerAlone
    <2>1. allocaScopeStack' = allocaScopeStack
      BY <1>3 DEF WalkerAlone, visitorVars
    <2>2. outcome \in {"walking", "done"} /\ ast' = ast /\ Open' = Open
      <3>1. CASE SkipBranch
        BY <1>0, <3>1, ReturnedOpen DEF SkipBranch, Calling
      <3>2. CASE CleanUp
        BY <3>2 DEF CleanUp, Open
      <3> QED
        BY <1>3, <3>1, <3>2, AloneOutcome
    <2> QED
      BY <2>1, <2>2, ScopesKept
  <1>4. CASE UNCHANGED vars
    BY <1>4 DEF vars, walkerVars, visitorVars, ScopesAreOpenBlocks, Open
  <1> QED
    BY <1>1, <1>2, <1>3, <1>4 DEF Next

(***************************************************************************)
(* For every tree, allocaScopeStack_ holds the scopes of the open Blocks.  *)
(***************************************************************************)
THEOREM ScopesCorrect == Safety => []ScopesAreOpenBlocks
  <1>1. Init => ScopesAreOpenBlocks
    BY DEF Init, WalkInit, ScopesAreOpenBlocks, Open
  <1> QED
    BY <1>1, ScopesStep, TypeCorrect, CompilationStaysInDocument, PTL DEF Safety

(***************************************************************************)
(* For every tree, the visitor's two stacks agree with the walk.           *)
(***************************************************************************)
THEOREM StacksCorrect == Safety => []StacksFollowWalk
  <1>1. AncestryIsWalk /\ ScopesAreOpenBlocks => StacksFollowWalk
    BY DEF StacksFollowWalk
  <1> QED
    BY <1>1, AncestryCorrect, ScopesCorrect, PTL

-----------------------------------------------------------------------------
(* Lexical scoping                                                         *)

(***************************************************************************)
(* What lookupVariable finds is what the tree binds, when the open Blocks  *)
(* are those around n.                                                     *)
(***************************************************************************)
LEMMA FoundIsBound ==
    ASSUME TypeOK, InDocument, ScopesAreOpenBlocks, outcome = "walking",
           NEW n \in DOMAIN ast,
           \A b \in DOMAIN ast : ast[b].kind = "Block" => (Encloses(ast, b, n) <=> b \in Open),
           NEW x, NEW i \in DOMAIN allocaScopeStack, Finds(x, i)
    PROVE  allocaScopeStack[i].block \in DOMAIN ast
           /\ Binds(ast, n, x, allocaScopeStack[i].block)
  <1> DEFINE b == allocaScopeStack[i].block
  <1>0. Open \subseteq DOMAIN ast /\ Open \subseteq Nat
    BY OpenVisited DEF TypeOK
  <1>1. b \in Open /\ ast[b].kind = "Block" /\ x \in DOMAIN ast[b].scope
    BY DEF ScopesAreOpenBlocks, Finds
  <1>2. ASSUME NEW c \in DOMAIN ast, Encloses(ast, c, n), Declares(ast, c, x)
        PROVE  c <= b
    <2>1. c \in Open /\ ast[c].kind = "Block" /\ x \in DOMAIN ast[c].scope
      BY <1>2 DEF Declares
    <2>2. PICK j \in DOMAIN allocaScopeStack : allocaScopeStack[j].block = c
      BY <2>1 DEF ScopesAreOpenBlocks
    <2>3. DOMAIN allocaScopeStack[j].vars = DOMAIN ast[c].scope
      BY <2>2 DEF ScopesAreOpenBlocks
    <2>4. ~(j > i)
      BY <2>1, <2>3 DEF Finds
    <2>5. i \in Nat /\ j \in Nat
      BY DEF TypeOK
    <2>6. CASE j = i
      BY <1>0, <2>1, <2>2, <2>6
    <2>7. CASE j < i
      <3>1. c < b
        BY <2>2, <2>7 DEF ScopesAreOpenBlocks
      <3> QED
        BY <1>0, <1>1, <2>1, <3>1
    <2> QED
      BY <2>4, <2>5, <2>6, <2>7
  <1>3. b \in DOMAIN ast /\ Encloses(ast, b, n)
    BY <1>0, <1>1
  <1> QED
    BY <1>1, <1>2, <1>3 DEF Binds, Declares

(***************************************************************************)
(* What a step does to the instructions: nothing, a new function, or one   *)
(* instruction, which if it names a variable names the bound one.          *)
(***************************************************************************)
LEMMA LoadIsBound ==
    ASSUME TypeOK, InDocument, LeftBehind, ScopesAreOpenBlocks,
           NEW n \in DOMAIN ast, VisitVariableRef(n)
    PROVE  \E i : block' = Append(block, i) /\ BoundSlot(i) /\ i \in Instruction
  <1> DEFINE x == ast[n].name
             type(k) == allocaScopeStack[k].vars[x]
             load(k) == [op |-> "load", from |-> n, type |-> type(k), args |-> <<>>,
                         slots |-> {SlotOf(x, k)}]
  <1>1. PICK k \in DOMAIN allocaScopeStack :
           Finds(x, k) /\ Emit("load", n, type(k), <<>>, {SlotOf(x, k)})
    BY DEF VisitVariableRef
  <1>2. /\ Calling /\ n = Argument /\ Argument # Null /\ outcome = "walking"
        /\ WalkTypeOK /\ allocaScopeStack \in Seq(AllocaScope)
    BY DEF VisitVariableRef, VisitLeaf, Calling, TypeOK
  <1>3. \A b \in DOMAIN ast : ast[b].kind = "Block" => (Encloses(ast, b, n) <=> b \in Open)
    BY <1>2, AroundNext
  <1>4. /\ allocaScopeStack[k].block \in DOMAIN ast
        /\ Binds(ast, n, x, allocaScopeStack[k].block)
    BY <1>1, <1>2, <1>3, FoundIsBound
  <1>5. n \in Nat /\ x \in Name
    BY <1>2, NodeFields
  <1>6. type(k) \in LlvmType /\ {SlotOf(x, k)} \in SUBSET Slot
    BY <1>1, <1>2, <1>5, FoundType
  <1>7. load(k) \in Instruction
    BY <1>5, <1>6 DEF Instruction, Opcode
  <1>8. BoundSlot(load(k))
    BY <1>4 DEF BoundSlot, SlotOf
  <1>9. block' = Append(block, load(k))
    BY <1>1 DEF Emit
  <1> QED
    BY <1>7, <1>8, <1>9

LEMMA StoreIsBound ==
    ASSUME TypeOK, WalkTypeOK', InDocument, LeftBehind, ScopesAreOpenBlocks,
           NEW n \in DOMAIN ast, VisitedAssignVariable(n)
    PROVE  \E i : block' = Append(block, i) /\ BoundSlot(i) /\ i \in Instruction
  <1> DEFINE x == ast[n].name
             store(k) == [op |-> "store", from |-> n, type |-> "void",
                          args |-> <<TopValue(0)>>, slots |-> {SlotOf(x, k)}]
  <1>1. PICK k \in DOMAIN allocaScopeStack :
           Finds(x, k) /\ Emit("store", n, "void", <<TopValue(0)>>, {SlotOf(x, k)})
    BY DEF VisitedAssignVariable
  <1>2. /\ Leave(n) /\ outcome = "walking" /\ ast[n].kind # "Block"
        /\ WalkTypeOK /\ allocaScopeStack \in Seq(AllocaScope)
        /\ valueStack \in Seq(Value)
    BY DEF VisitedAssignVariable, Leave, Leaving, TypeOK
  <1>3. \A b \in DOMAIN ast : ast[b].kind = "Block" => (Encloses(ast, b, n) <=> b \in Open)
    BY <1>2, AroundTop DEF Leave
  <1>4. /\ allocaScopeStack[k].block \in DOMAIN ast
        /\ Binds(ast, n, x, allocaScopeStack[k].block)
    BY <1>1, <1>2, <1>3, FoundIsBound
  <1>5. n \in Nat /\ x \in Name
    BY <1>2, NodeFields
  <1>6. {SlotOf(x, k)} \in SUBSET Slot
    BY <1>1, <1>2, <1>5, FoundType
  <1>7. <<TopValue(0)>> \in Seq(Value)
    <2>1. 0 \in Nat /\ Len(valueStack) >= 0 + 1
      BY DEF VisitedAssignVariable
    <2>2. TopValue(0) \in Value
      BY <1>2, <2>1, TopValueType
    <2> QED
      BY <2>2
  <1>8. store(k) \in Instruction
    BY <1>5, <1>6, <1>7 DEF Instruction, Opcode, LlvmType
  <1>9. BoundSlot(store(k))
    BY <1>4 DEF BoundSlot, SlotOf
  <1>10. block' = Append(block, store(k))
    BY <1>1 DEF Emit
  <1> QED
    BY <1>8, <1>9, <1>10

LEMMA OpcodeNames ==
    ASSUME NEW dt, NEW operation \in OperationKind
    PROVE  OpcodeFor(dt, operation) \notin {"load", "store"}
  BY DEF OpcodeFor, OperationKind

(***************************************************************************)
(* Every other handler leaves the instructions alone, starts a function,   *)
(* or appends an instruction that names no variable.                       *)
(***************************************************************************)
LEMMA VisitingEmits ==
    ASSUME TypeOK, NEW n \in DOMAIN ast, Visiting(n), ~VisitVariableRef(n)
    PROVE  /\ ast' = ast
           /\ \/ block' = block \/ block' = <<>>
              \/ \E i : block' = Append(block, i) /\ i.op \notin {"load", "store"}
  <1>1. ASSUME NEW S, Allocate(n, S)
        PROVE  \E i : block' = Append(block, i) /\ i.op \notin {"load", "store"}
    <2> DEFINE i == [op |-> "alloca", from |-> n, type |-> "void", args |-> <<>>,
                     slots |-> {[block |-> n, name |-> x] : x \in S}]
    <2>1. block' = Append(block, i)
      BY <1>1 DEF Allocate, Emit
    <2>2. i.op = "alloca"
      OBVIOUS
    <2> QED
      BY <2>1, <2>2
  <1>2. CASE VisitingBlock(n) \/ VisitingBlockThrows(n) \/ VisitingBlockRepeats(n)
    BY <1>1, <1>2 DEF VisitingBlock, VisitingBlockThrows, VisitingBlockRepeats, Enter,
                      FailEntering, Fail
  <1>3. CASE VisitingModule(n) \/ VisitingFunction(n) \/ VisitingFunctionThrows(n)
             \/ VisitingOther(n) \/ VisitLiteral(n) \/ VisitVariableRefThrows(n)
             \/ VisitingUndefined(n)
    BY <1>3 DEF VisitingModule, VisitingFunction, VisitingFunctionThrows, VisitingOther,
                VisitLiteral, VisitVariableRefThrows, VisitingUndefined, Enter, VisitLeaf,
                FailEntering, Fail
  <1> QED
    BY <1>2, <1>3 DEF Visiting

LEMMA VisitedEmits ==
    ASSUME TypeOK, NEW n \in DOMAIN ast, Visited(n), ~VisitedAssignVariable(n)
    PROVE  /\ ast' = ast
           /\ \/ block' = block
              \/ \E i : block' = Append(block, i) /\ i.op \notin {"load", "store"}
  <1>1. CASE VisitedBinary(n)
    <2> DEFINE op == OpcodeFor(ast[n].dataType, ast[n].operation)
               i  == [op |-> op, from |-> n, type |-> TopValue(1).type,
                      args |-> <<TopValue(1), TopValue(0)>>, slots |-> {}]
    <2>1. block' = Append(block, i) /\ i.op = op /\ ast' = ast
      BY <1>1 DEF VisitedBinary, Emit, Leave
    <2>2. op \notin {"load", "store"}
      BY NodeFields, OpcodeNames DEF TypeOK
    <2> HIDE DEF op, i
    <2> QED
      BY <2>1, <2>2
  <1>2. CASE VisitedReturn(n)
    <2> DEFINE i == [op |-> "ret", from |-> n, type |-> "void",
                     args |-> <<TopValue(0)>>, slots |-> {}]
    <2>1. block' = Append(block, i) /\ i.op = "ret" /\ ast' = ast
      BY <1>2 DEF VisitedReturn, Emit, Leave
    <2> HIDE DEF i
    <2> QED
      BY <2>1
  <1>3. CASE VisitedModule(n) \/ VisitedBlock(n) \/ VisitedOther(n)
    BY <1>3 DEF VisitedModule, VisitedBlock, VisitedOther, Leave
  <1>4. CASE VisitedModuleAsserts(n) \/ VisitedAssignVariableThrows(n)
             \/ VisitedBinaryMismatch(n) \/ VisitedBinaryThrows(n)
             \/ VisitedReturnAsserts(n) \/ VisitedUndefined(n)
    BY <1>4 DEF VisitedModuleAsserts, VisitedAssignVariableThrows, VisitedBinaryMismatch,
                VisitedBinaryThrows, VisitedReturnAsserts, VisitedUndefined, visitorVars,
                FailLeaving, Fail
  <1> QED
    BY <1>1, <1>2, <1>3, <1>4 DEF Visited

LEMMA LexicalGrows ==
    ASSUME LexicalScoping, block \in Seq(Instruction), ast' = ast,
           NEW i, block' = Append(block, i), i \in Instruction,
           i.op \in {"load", "store"} => BoundSlot(i)
    PROVE  LexicalScoping'
  <1>1. /\ DOMAIN block' = 1 .. (Len(block) + 1)
        /\ \A k \in 1 .. Len(block) : block'[k] = block[k]
        /\ block'[Len(block) + 1] = i
        /\ DOMAIN block = 1 .. Len(block) /\ Len(block) \in Nat
    BY Extended
  <1>2. ASSUME NEW k \in 1 .. (Len(block) + 1), block'[k].op \in {"load", "store"}
        PROVE  BoundSlot(block'[k])
    <2>1. CASE k \in 1 .. Len(block)
      BY <1>1, <1>2, <2>1 DEF LexicalScoping
    <2>2. CASE k = Len(block) + 1
      BY <1>1, <1>2, <2>2
    <2> QED
      BY <1>1, <2>1, <2>2
  <1>3. \A k \in DOMAIN block' : block'[k].op \in {"load", "store"} => BoundSlot(block[k])'
    BY <1>1, <1>2 DEF BoundSlot
  <1> QED
    BY <1>3 DEF LexicalScoping

LEMMA LexicalStep ==
    TypeOK /\ TypeOK' /\ InDocument /\ LeftBehind /\ ScopesAreOpenBlocks
      /\ LexicalScoping /\ [Next]_vars => LexicalScoping'
  <1> SUFFICES ASSUME TypeOK, TypeOK', InDocument, LeftBehind, ScopesAreOpenBlocks,
                      LexicalScoping, [Next]_vars
               PROVE  LexicalScoping'
    OBVIOUS
  <1>1. block \in Seq(Instruction) /\ block' \in Seq(Instruction) /\ WalkTypeOK'
    BY DEF TypeOK
  <1>2. ASSUME NEW i, block' = Append(block, i)
        PROVE  i \in Instruction
    <2>1. Append(block, i)[Len(block) + 1] = i /\ Len(block) + 1 \in DOMAIN Append(block, i)
      BY <1>1
    <2> QED
      BY <1>1, <1>2, <2>1
  <1>3. ASSUME ast' = ast, block' = block \/ block' = <<>>
        PROVE  LexicalScoping'
    BY <1>3 DEF LexicalScoping, BoundSlot
  <1>4. ASSUME NEW n \in DOMAIN ast, Visiting(n)
        PROVE  LexicalScoping'
    <2>1. CASE VisitVariableRef(n)
      <3>1. ast' = ast
        BY <2>1 DEF VisitVariableRef, VisitLeaf
      <3> QED
        BY <1>1, <2>1, <3>1, LoadIsBound, LexicalGrows
    <2>2. CASE ~VisitVariableRef(n)
      BY <1>1, <1>2, <1>3, <1>4, <2>2, VisitingEmits, LexicalGrows
    <2> QED
      BY <2>1, <2>2
  <1>5. ASSUME NEW n \in DOMAIN ast, Visited(n)
        PROVE  LexicalScoping'
    <2>1. CASE VisitedAssignVariable(n)
      <3>1. ast' = ast
        BY <2>1 DEF VisitedAssignVariable, Leave
      <3> QED
        BY <1>1, <2>1, <3>1, StoreIsBound, LexicalGrows
    <2>2. CASE ~VisitedAssignVariable(n)
      BY <1>1, <1>2, <1>3, <1>5, <2>2, VisitedEmits, LexicalGrows
    <2> QED
      BY <2>1, <2>2
  <1>6. CASE WalkerAlone
    <2>1. block' = block /\ ast' = ast
      BY <1>6 DEF WalkerAlone, visitorVars, SkipBranch, NullChild, UnhandledKind, CleanUp, Fail
    <2> QED
      BY <1>3, <2>1
  <1>7. CASE UNCHANGED vars
    BY <1>3, <1>7 DEF vars, walkerVars, visitorVars
  <1> QED
    BY <1>4, <1>5, <1>6, <1>7 DEF Next

(***************************************************************************)
(* Variables are resolved lexically, for every tree and every set of names:*)
(* a load or store uses the alloca of the innermost Block around its node  *)
(* that declares the name.                                                 *)
(***************************************************************************)
THEOREM ScopingIsLexical == Safety => []LexicalScoping
  <1>1. Init => LexicalScoping
    BY DEF Init, LexicalScoping
  <1> QED
    BY <1>1, LexicalStep, TypeCorrect, ScopesCorrect, CompilationStaysInDocument, PTL
       DEF Safety

=============================================================================
