----------------------------- MODULE CodeProofs -----------------------------
(***************************************************************************)
(* Proofs about the instructions a compilation emits: they are well typed  *)
(* when the tree is, although the code generator compares types on the     *)
(* tree only, they are in static single assignment form, and they are the  *)
(* translation of the tree, node by node.                                  *)
(***************************************************************************)
EXTENDS OperandProofs

-----------------------------------------------------------------------------
(* Types of allocas and values                                             *)

OperandKind == ValueKind \ {"AssignVariable"}

(***************************************************************************)
(* An alloca has the type its Variable was declared with.                  *)
(***************************************************************************)
ScopesTyped ==
    \A i \in DOMAIN allocaScopeStack :
       LET s == allocaScopeStack[i] IN
       s.block \in DOMAIN ast
          /\ \A x \in DOMAIN s.vars : s.vars[x] = TypeFor(ast[s.block].scope[x])

(***************************************************************************)
(* A value has the type of the node it came from, unless this is an        *)
(* assignment, of which the value is the store.                            *)
(***************************************************************************)
ValueTyped(v) ==
    /\ v.from \in DOMAIN ast
    /\ ast[v.from].kind \in OperandKind => v.type = TypeFor(ast[v.from].dataType)

ValuesTyped(s) == \A p \in DOMAIN s : ValueTyped(s[p])

TypedInv ==
    /\ ScopesTyped
    /\ TypedTree => ValuesTyped(valueStack)

(***************************************************************************)
(* The facts about the walk, the scopes and the operands this rests on.    *)
(***************************************************************************)
Ground == TypeOK /\ InDocument /\ LeftBehind /\ ScopesAreOpenBlocks /\ OperandsInPlace

LEMMA DroppedTyped ==
    ASSUME NEW s \in Seq(Value), ValuesTyped(s), NEW k \in Nat
    PROVE  ValuesTyped(Dropped(s, k))
  <1>1. Len(s) \in Nat
    OBVIOUS
  <1>2. CASE k <= Len(s)
    <2>1. Len(s) - k \in 0 .. Len(s)
      BY <1>1, <1>2
    <2>2. /\ DOMAIN Dropped(s, k) = 1 .. (Len(s) - k)
          /\ \A p \in 1 .. (Len(s) - k) : Dropped(s, k)[p] = s[p] /\ p \in DOMAIN s
      BY <1>1, <2>1 DEF Dropped
    <2> QED
      BY <2>2 DEF ValuesTyped
  <1>3. CASE k > Len(s)
    <2>1. 1 \in Int /\ Len(s) - k \in Int /\ Len(s) - k < 1
      BY <1>1, <1>3
    <2>2. SubSeq(s, 1, Len(s) - k) = <<>>
      BY <2>1, SubSeqEmpty
    <2> QED
      BY <2>2 DEF ValuesTyped, Dropped
  <1> QED
    BY <1>1, <1>2, <1>3

LEMMA PushedTyped ==
    ASSUME NEW s \in Seq(Value), ValuesTyped(s), NEW v, ValueTyped(v),
           Append(s, v) \in Seq(Value)
    PROVE  ValuesTyped(Append(s, v))
  <1>1. v \in Value
    BY PushedValue
  <1>2. /\ DOMAIN Append(s, v) = 1 .. (Len(s) + 1)
        /\ \A p \in 1 .. Len(s) : Append(s, v)[p] = s[p] /\ p \in DOMAIN s
        /\ Append(s, v)[Len(s) + 1] = v
        /\ Len(s) \in Nat
    BY <1>1, Extended
  <1>3. ASSUME NEW p \in 1 .. (Len(s) + 1)
        PROVE  ValueTyped(Append(s, v)[p])
    <2>1. CASE p \in 1 .. Len(s)
      BY <1>2, <2>1 DEF ValuesTyped
    <2>2. CASE p = Len(s) + 1
      BY <1>2, <2>2
    <2> QED
      BY <1>2, <2>1, <2>2
  <1> QED
    BY <1>2, <1>3 DEF ValuesTyped

LEMMA SameTyped ==
    ast' = ast => /\ TypedTree' <=> TypedTree
                  /\ \A s : ValuesTyped(s) <=> \A p \in DOMAIN s : ValueTyped(s[p])'
                  /\ \A i : WellTypedInstruction(i)' <=> WellTypedInstruction(i)
  <1> SUFFICES ASSUME ast' = ast
               PROVE  /\ TypedTree' <=> TypedTree
                      /\ \A s : ValuesTyped(s) <=> \A p \in DOMAIN s : ValueTyped(s[p])'
                      /\ \A i : WellTypedInstruction(i)' <=> WellTypedInstruction(i)
    OBVIOUS
  <1>1. TypedTree' <=> TypedTree
    BY DEF TypedTree, OperandsIn, NamesAgree, StoresAgree, TypeAt, Binds, Encloses, Declares
  <1>2. \A s : ValuesTyped(s) <=> \A p \in DOMAIN s : ValueTyped(s[p])'
    BY DEF ValuesTyped, ValueTyped
  <1>3. \A i : WellTypedInstruction(i)' <=> WellTypedInstruction(i)
    BY Zenon DEF WellTypedInstruction
  <1> QED
    BY <1>1, <1>2, <1>3

LEMMA WellTypedCases ==
    ASSUME NEW i,
           ast[i.from].kind = "Binary" =>
              \A a \in {1, 2} : i.args[a].type = TypeFor(ast[i.from].dataType),
           ast[i.from].kind = "AssignVariable" =>
              \A s \in i.slots : i.args[1].type = TypeFor(ast[s.block].scope[s.name]),
           ast[i.from].kind = "VariableRef" => i.type = TypeFor(ast[i.from].dataType),
           ast[i.from].kind = "Return" => i.args[1].type = TypeFor(ast[i.from].dataType)
    PROVE  WellTypedInstruction(i)
  BY DEF WellTypedInstruction

-----------------------------------------------------------------------------
(* Allocas                                                                 *)

LEMMA ScopesGrow ==
    ASSUME TypeOK, TypeOK', ScopesTyped, ast' = ast, NEW n \in DOMAIN ast, NEW S,
           Allocate(n, S)
    PROVE  ScopesTyped'
  <1> DEFINE s == [block |-> n, vars |-> [x \in S |-> TypeFor(ast[n].scope[x])]]
             L == Len(allocaScopeStack)
  <1>1. allocaScopeStack' = Append(allocaScopeStack, s)
    BY DEF Allocate
  <1>2. s.block = n /\ \A x \in DOMAIN s.vars : s.vars[x] = TypeFor(ast[n].scope[x])
    OBVIOUS
  <1> HIDE DEF s
  <1>3. allocaScopeStack \in Seq(AllocaScope) /\ allocaScopeStack' \in Seq(AllocaScope)
    BY DEF TypeOK
  <1>4. s \in AllocaScope
    <2>1. /\ Append(allocaScopeStack, s)[L + 1] = s
          /\ L + 1 \in DOMAIN Append(allocaScopeStack, s)
      BY <1>3
    <2> QED
      BY <1>1, <1>3, <2>1
  <1>5. /\ DOMAIN allocaScopeStack' = 1 .. (L + 1)
        /\ \A i \in 1 .. L : allocaScopeStack'[i] = allocaScopeStack[i]
                             /\ i \in DOMAIN allocaScopeStack
        /\ allocaScopeStack'[L + 1] = s
        /\ L \in Nat
    BY <1>1, <1>3, <1>4, Extended
  <1>6. ASSUME NEW i \in 1 .. (L + 1)
        PROVE  LET t == allocaScopeStack'[i] IN
               t.block \in DOMAIN ast
                  /\ \A x \in DOMAIN t.vars : t.vars[x] = TypeFor(ast[t.block].scope[x])
    <2>1. CASE i \in 1 .. L
      BY <1>5, <2>1 DEF ScopesTyped
    <2>2. CASE i = L + 1
      BY <1>2, <1>5, <2>2
    <2> QED
      BY <1>5, <2>1, <2>2
  <1> QED
    BY <1>5, <1>6 DEF ScopesTyped

LEMMA ScopesShrink ==
    ASSUME TypeOK, ScopesTyped, ast' = ast,
           allocaScopeStack' = Dropped(allocaScopeStack, 1)
    PROVE  ScopesTyped'
  <1> DEFINE L == Len(allocaScopeStack)
  <1>1. allocaScopeStack \in Seq(AllocaScope) /\ L \in Nat
    BY DEF TypeOK
  <1>2. CASE L = 0
    <2>1. 1 \in Int /\ L - 1 \in Int /\ L - 1 < 1
      BY <1>2
    <2>2. allocaScopeStack' = <<>>
      BY <2>1, SubSeqEmpty DEF Dropped
    <2> QED
      BY <2>2 DEF ScopesTyped
  <1>3. CASE L # 0
    <2>1. L - 1 \in 0 .. L
      BY <1>1, <1>3
    <2>2. /\ DOMAIN allocaScopeStack' = 1 .. (L - 1)
          /\ \A i \in 1 .. (L - 1) : allocaScopeStack'[i] = allocaScopeStack[i]
                                     /\ i \in DOMAIN allocaScopeStack
      BY <1>1, <2>1 DEF Dropped
    <2> QED
      BY <2>2 DEF ScopesTyped
  <1> QED
    BY <1>2, <1>3

LEMMA ScopesTypedStep ==
    ASSUME TypeOK, TypeOK', ScopesTyped, [Next]_vars
    PROVE  ScopesTyped'
  <1>1. ASSUME NEW n \in DOMAIN ast, Visiting(n)
        PROVE  ScopesTyped'
    <2>1. CASE VisitingBlock(n) \/ VisitingBlockThrows(n) \/ VisitingBlockRepeats(n)
      <3>1. ast' = ast /\ \E S : Allocate(n, S)
        BY <2>1 DEF VisitingBlock, VisitingBlockThrows, VisitingBlockRepeats, Enter,
                    FailEntering,
                    Fail
      <3> QED
        BY <3>1, ScopesGrow
    <2>2. CASE VisitingModule(n) \/ VisitingFunction(n) \/ VisitingFunctionThrows(n)
               \/ VisitingOther(n) \/ VisitLiteral(n) \/ VisitVariableRef(n)
               \/ VisitVariableRefThrows(n) \/ VisitingUndefined(n)
      <3>1. ast' = ast /\ allocaScopeStack' = allocaScopeStack
        BY <2>2 DEF VisitingModule, VisitingFunction, VisitingFunctionThrows, VisitingOther,
                    VisitLiteral, VisitVariableRef, VisitVariableRefThrows, VisitingUndefined,
                    Enter, VisitLeaf, FailEntering, Fail
      <3> QED
        BY <3>1 DEF ScopesTyped
    <2> QED
      BY <1>1, <2>1, <2>2 DEF Visiting
  <1>2. ASSUME NEW n \in DOMAIN ast, Visited(n)
        PROVE  ScopesTyped'
    <2>1. CASE VisitedBlock(n)
      BY <2>1, ScopesShrink DEF VisitedBlock, Leave
    <2>2. CASE ~VisitedBlock(n)
      <3>1. ast' = ast /\ allocaScopeStack' = allocaScopeStack
        BY <1>2, <2>2
           DEF Visited, VisitedModule, VisitedModuleAsserts, VisitedOther,
               VisitedAssignVariable, VisitedAssignVariableThrows, VisitedBinary,
               VisitedBinaryMismatch, VisitedBinaryThrows, VisitedReturn,
               VisitedReturnAsserts, VisitedUndefined, FailLeaving, Fail, Leave, visitorVars
      <3> QED
        BY <3>1 DEF ScopesTyped
    <2> QED
      BY <2>1, <2>2
  <1>3. CASE WalkerAlone \/ UNCHANGED vars
    <2>1. ast' = ast /\ allocaScopeStack' = allocaScopeStack
      BY <1>3 DEF WalkerAlone, visitorVars, SkipBranch, NullChild, UnhandledKind, CleanUp,
                  Fail, vars, walkerVars
    <2> QED
      BY <2>1 DEF ScopesTyped
  <1> QED
    BY <1>1, <1>2, <1>3 DEF Next

-----------------------------------------------------------------------------
(* What each handler pushes and emits                                      *)

(***************************************************************************)
(* A handler appends i to the instructions.                                *)
(***************************************************************************)
LEMMA TypedGrows ==
    ASSUME TypeOK, TypeOK', ast' = ast, \A k \in DOMAIN block : WellTypedInstruction(block[k]),
           NEW i, block' = Append(block, i), WellTypedInstruction(i)
    PROVE  \A k \in DOMAIN block' : WellTypedInstruction(block'[k])
  <1>1. block \in Seq(Instruction) /\ block' \in Seq(Instruction)
    BY DEF TypeOK
  <1>2. i \in Instruction
    <2>1. Append(block, i)[Len(block) + 1] = i /\ Len(block) + 1 \in DOMAIN Append(block, i)
      BY <1>1
    <2> QED
      BY <1>1, <2>1
  <1>3. /\ DOMAIN block' = 1 .. (Len(block) + 1)
        /\ \A k \in 1 .. Len(block) : block'[k] = block[k] /\ k \in DOMAIN block
        /\ block'[Len(block) + 1] = i
        /\ Len(block) \in Nat
    BY <1>1, <1>2, Extended
  <1>4. ASSUME NEW k \in 1 .. (Len(block) + 1)
        PROVE  WellTypedInstruction(block'[k])
    <2>1. CASE k \in 1 .. Len(block)
      BY <1>3, <2>1
    <2>2. CASE k = Len(block) + 1
      BY <1>3, <2>2
    <2> QED
      BY <1>3, <2>1, <2>2
  <1> QED
    BY <1>3, <1>4

(***************************************************************************)
(* A reference is loaded from the alloca its name is bound to, which has   *)
(* the type of the reference.                                              *)
(***************************************************************************)
LEMMA LoadTyped ==
    ASSUME Ground, ScopesTyped, TypedTree, NEW n \in DOMAIN ast, VisitVariableRef(n)
    PROVE  \E slots :
              /\ Emit("load", n, TypeFor(ast[n].dataType), <<>>, slots)
              /\ valueStack' = Append(valueStack, [from |-> n, type |-> TypeFor(ast[n].dataType)])
  <1> DEFINE x == ast[n].name
  <1>1. PICK i \in DOMAIN allocaScopeStack :
           LET type == allocaScopeStack[i].vars[x] IN
           /\ Finds(x, i)
           /\ Emit("load", n, type, <<>>, {SlotOf(x, i)})
           /\ valueStack' = Append(valueStack, [from |-> n, type |-> type])
    BY DEF VisitVariableRef
  <1>2. /\ Calling /\ n = Argument /\ Argument # Null /\ outcome = "walking"
        /\ ast[n].kind = "VariableRef" /\ WalkTypeOK
    BY DEF VisitVariableRef, VisitLeaf, Calling, Ground, TypeOK
  <1>3. \A b \in DOMAIN ast : ast[b].kind = "Block" => (Encloses(ast, b, n) <=> b \in Open)
    BY <1>2, AroundNext DEF Ground
  <1>4. /\ allocaScopeStack[i].block \in DOMAIN ast
        /\ Binds(ast, n, x, allocaScopeStack[i].block)
    BY <1>1, <1>2, <1>3, FoundIsBound DEF Ground
  <1>5. ast[allocaScopeStack[i].block].scope[x] = ast[n].dataType
    BY <1>2, <1>4 DEF TypedTree, NamesAgree
  <1>6. allocaScopeStack[i].vars[x] = TypeFor(ast[allocaScopeStack[i].block].scope[x])
    BY <1>1 DEF ScopesTyped, Finds
  <1> QED
    BY <1>1, <1>5, <1>6

(***************************************************************************)
(* The operand values of an operation have the types of the operands.      *)
(***************************************************************************)
LEMMA OperandsTyped ==
    ASSUME Ground, TypedTree, ValuesTyped(valueStack), NEW n \in DOMAIN ast, Leaving(n),
           ast[n].kind \in OperatorKind, NEW j \in 1 .. Len(ast[n].kids)
    PROVE  TopValue(Len(ast[n].kids) - j).type = TypeFor(TypeAt(ast, ast[n].kids[j]))
  <1> DEFINE m == Len(ast[n].kids)
             k == ast[n].kids[j]
             v == TopValue(m - j)
  <1>1. OperandsIn(OperatorKind, ValueKind)
    BY DEF TypedTree, OperandsIn
  <1>2. m \in Nat /\ m <= Len(valueStack) /\ k # Null /\ v.from = k
    BY <1>1, OperandsOnTop DEF Ground, OperatorSets
  <1>3. ast[k].kind \in OperandKind
    <2>1. j \in DOMAIN ast[n].kids
      BY NodeType DEF Ground, TypeOK, WalkTypeOK
    <2> QED
      BY <1>2, <2>1 DEF TypedTree, OperandsIn, OperandKind
  <1>4. Len(valueStack) - (m - j) \in DOMAIN valueStack
    <2>1. DOMAIN valueStack = 1 .. Len(valueStack) /\ Len(valueStack) \in Nat
      BY DEF Ground, TypeOK
    <2>2. m \in Nat /\ m <= Len(valueStack) /\ j \in 1 .. m
      BY <1>2
    <2> HIDE DEF m
    <2> QED
      BY <2>1, <2>2
  <1>5. ValueTyped(v)
    BY <1>4 DEF TopValue, ValuesTyped
  <1> QED
    BY <1>2, <1>3, <1>5 DEF ValueTyped, TypeAt

LEMMA BinaryTyped ==
    ASSUME Ground, TypedTree, ValuesTyped(valueStack), NEW n \in DOMAIN ast, VisitedBinary(n)
    PROVE  /\ TopValue(0).type = TypeFor(ast[n].dataType)
           /\ TopValue(1).type = TypeFor(ast[n].dataType)
  <1>1. Leaving(n) /\ ast[n].kind = "Binary" /\ SameTypes(n)
    BY DEF VisitedBinary, Leave
  <1>2. Members(ast, n) /\ DataTypeRule(ast, n)
    BY DEF Ground, TypeOK, WalkTypeOK, IsTree
  <1>3. Len(ast[n].kids) = 2 /\ ast[n].dataType = TypeAt(ast, ast[n].kids[2])
    BY <1>1, <1>2 DEF Members, DataTypeRule
  <1>4. /\ 1 \in 1 .. Len(ast[n].kids) /\ 2 \in 1 .. Len(ast[n].kids)
        /\ Len(ast[n].kids) - 1 = 1 /\ Len(ast[n].kids) - 2 = 0
        /\ ast[n].kind \in OperatorKind
    BY <1>1, <1>3 DEF OperatorKind
  <1>5. TopValue(1).type = TypeFor(TypeAt(ast, ast[n].kids[1]))
    BY <1>1, <1>4, OperandsTyped
  <1>6. TopValue(0).type = TypeFor(TypeAt(ast, ast[n].kids[2]))
    BY <1>1, <1>4, OperandsTyped
  <1> QED
    BY <1>1, <1>3, <1>5, <1>6 DEF SameTypes

LEMMA ReturnTyped ==
    ASSUME Ground, TypedTree, ValuesTyped(valueStack), NEW n \in DOMAIN ast, VisitedReturn(n)
    PROVE  TopValue(0).type = TypeFor(ast[n].dataType)
  <1>1. Leaving(n) /\ ast[n].kind = "Return"
    BY DEF VisitedReturn, Leave
  <1>2. Members(ast, n) /\ DataTypeRule(ast, n)
    BY DEF Ground, TypeOK, WalkTypeOK, IsTree
  <1>3. Len(ast[n].kids) = 1 /\ ast[n].dataType = TypeAt(ast, ast[n].kids[1])
    BY <1>1, <1>2 DEF Members, DataTypeRule
  <1>4. /\ 1 \in 1 .. Len(ast[n].kids) /\ Len(ast[n].kids) - 1 = 0
        /\ ast[n].kind \in OperatorKind
    BY <1>1, <1>3 DEF OperatorKind
  <1> QED
    BY <1>1, <1>3, <1>4, OperandsTyped

LEMMA StoreTyped ==
    ASSUME Ground, WalkTypeOK', TypedTree, ValuesTyped(valueStack),
           NEW n \in DOMAIN ast, VisitedAssignVariable(n)
    PROVE  \E i : /\ block' = Append(block, i) /\ i.from = n
                  /\ \A s \in i.slots :
                        i.args[1].type = TypeFor(ast[s.block].scope[s.name])
  <1> DEFINE x == ast[n].name
             store(k) == [op |-> "store", from |-> n, type |-> "void",
                          args |-> <<TopValue(0)>>, slots |-> {SlotOf(x, k)}]
  <1>1. PICK k \in DOMAIN allocaScopeStack :
           Finds(x, k) /\ Emit("store", n, "void", <<TopValue(0)>>, {SlotOf(x, k)})
    BY DEF VisitedAssignVariable
  <1>2. /\ Leave(n) /\ Leaving(n) /\ outcome = "walking" /\ ast[n].kind = "AssignVariable"
        /\ WalkTypeOK
    BY DEF VisitedAssignVariable, Leave, Leaving, Ground, TypeOK
  <1>3. \A b \in DOMAIN ast : ast[b].kind = "Block" => (Encloses(ast, b, n) <=> b \in Open)
    BY <1>2, AroundTop DEF Ground
  <1>4. /\ allocaScopeStack[k].block \in DOMAIN ast
        /\ Binds(ast, n, x, allocaScopeStack[k].block)
    BY <1>1, <1>2, <1>3, FoundIsBound DEF Ground
  <1>5. ast[allocaScopeStack[k].block].scope[x] = ast[n].dataType
    BY <1>2, <1>4 DEF TypedTree, NamesAgree
  <1>6. TopValue(0).type = TypeFor(TypeAt(ast, ast[n].kids[1]))
    <2>1. Len(ast[n].kids) = 1
      BY <1>2 DEF WalkTypeOK, IsTree, Members
    <2>2. 1 \in 1 .. Len(ast[n].kids) /\ Len(ast[n].kids) - 1 = 0
          /\ ast[n].kind \in OperatorKind
      BY <1>2, <2>1 DEF OperatorKind
    <2> QED
      BY <1>2, <2>2, OperandsTyped
  <1>7. TypeAt(ast, ast[n].kids[1]) = ast[n].dataType
    BY <1>2 DEF TypedTree, StoresAgree
  <1>8. block' = Append(block, store(k))
    BY <1>1 DEF Emit
  <1>9. /\ store(k).from = n /\ store(k).args[1] = TopValue(0)
        /\ \A s \in store(k).slots : s.block = allocaScopeStack[k].block /\ s.name = x
    BY DEF SlotOf
  <1> HIDE DEF store
  <1> QED
    BY <1>5, <1>6, <1>7, <1>8, <1>9

(***************************************************************************)
(* Steps on the way down push the value of a leaf, and emit loads and      *)
(* allocas.                                                                *)
(***************************************************************************)
LEMMA VisitingTyped ==
    ASSUME Ground, TypeOK', ScopesTyped, TypedTree, ValuesTyped(valueStack), WellTypedCode,
           NEW n \in DOMAIN ast, Visiting(n)
    PROVE  /\ ast' = ast
           /\ ValuesTyped(valueStack')
           /\ \A k \in DOMAIN block' : WellTypedInstruction(block'[k])
  <1>0. /\ valueStack \in Seq(Value) /\ valueStack' \in Seq(Value) /\ TypeOK
        /\ \A k \in DOMAIN block : WellTypedInstruction(block[k])
    BY DEF TypeOK, Ground, WellTypedCode
  <1>1. CASE VisitVariableRef(n)
    <2> DEFINE t == TypeFor(ast[n].dataType)
    <2>1. PICK slots : /\ Emit("load", n, t, <<>>, slots)
                       /\ valueStack' = Append(valueStack, [from |-> n, type |-> t])
      BY <1>1, LoadTyped
    <2> DEFINE i == [op |-> "load", from |-> n, type |-> t, args |-> <<>>, slots |-> slots]
               v == [from |-> n, type |-> t]
    <2>2. ast' = ast /\ ast[n].kind = "VariableRef" /\ block' = Append(block, i)
      BY <1>1, <2>1 DEF VisitVariableRef, VisitLeaf, Emit
    <2>3. i.from = n /\ i.type = t /\ v.from = n /\ v.type = t
      OBVIOUS
    <2>4. valueStack' = Append(valueStack, v)
      BY <2>1
    <2> HIDE DEF i, v
    <2>5. WellTypedInstruction(i)
      BY <2>2, <2>3, WellTypedCases
    <2>6. ValueTyped(v)
      BY <2>3 DEF ValueTyped
    <2> QED
      BY <1>0, <2>2, <2>4, <2>5, <2>6, TypedGrows, PushedTyped
  <1>2. CASE VisitLiteral(n)
    <2> DEFINE v == [from |-> n, type |-> TypeFor(ast[n].dataType)]
    <2>1. ast' = ast /\ block' = block /\ valueStack' = Append(valueStack, v)
      BY <1>2 DEF VisitLiteral, VisitLeaf
    <2>2. ValueTyped(v)
      BY DEF ValueTyped
    <2> HIDE DEF v
    <2> QED
      BY <1>0, <2>1, <2>2, PushedTyped
  <1>3. CASE VisitingBlock(n) \/ VisitingBlockThrows(n) \/ VisitingBlockRepeats(n)
    <2>1. PICK S : Allocate(n, S)
      BY <1>3 DEF VisitingBlock, VisitingBlockThrows, VisitingBlockRepeats
    <2> DEFINE i == [op |-> "alloca", from |-> n, type |-> "void", args |-> <<>>,
                     slots |-> {[block |-> n, name |-> x] : x \in S}]
    <2>2. block' = Append(block, i) /\ i.from = n
      BY <2>1 DEF Allocate, Emit
    <2> HIDE DEF i
    <2>3. ast' = ast /\ valueStack' = valueStack /\ ast[n].kind = "Block"
      BY <1>3 DEF VisitingBlock, VisitingBlockThrows, VisitingBlockRepeats, Enter, FailEntering,
                  Fail
    <2>4. WellTypedInstruction(i)
      BY <2>2, <2>3, WellTypedCases
    <2> QED
      BY <1>0, <2>2, <2>3, <2>4, TypedGrows
  <1>4. CASE VisitingModule(n) \/ VisitingFunction(n) \/ VisitingFunctionThrows(n)
             \/ VisitingOther(n) \/ VisitVariableRefThrows(n) \/ VisitingUndefined(n)
    <2>1. /\ ast' = ast /\ valueStack' = valueStack
          /\ block' = block \/ block' = <<>>
      BY <1>4 DEF VisitingModule, VisitingFunction, VisitingFunctionThrows, VisitingOther,
                  VisitVariableRefThrows, VisitingUndefined, Enter, FailEntering, Fail
    <2> QED
      BY <1>0, <2>1
  <1> QED
    BY <1>1, <1>2, <1>3, <1>4 DEF Visiting

(***************************************************************************)
(* On the way up, visitedNode may take another value off.                  *)
(***************************************************************************)
LEMMA LeftTyped ==
    ASSUME NEW n, NEW values \in Seq(Value), ValuesTyped(values), VisitedNode(n, values)
    PROVE  ValuesTyped(valueStack')
  <1>1. valueStack' = values \/ valueStack' = Dropped(values, 1)
    BY DEF VisitedNode
  <1>2. ValuesTyped(Dropped(values, 1))
    BY DroppedTyped
  <1> QED
    BY <1>1, <1>2

LEMMA VisitedTyped ==
    ASSUME Ground, TypeOK', ScopesTyped, TypedTree, ValuesTyped(valueStack), WellTypedCode,
           NEW n \in DOMAIN ast, Visited(n)
    PROVE  /\ ast' = ast
           /\ ValuesTyped(valueStack')
           /\ \A k \in DOMAIN block' : WellTypedInstruction(block'[k])
  <1>0. /\ valueStack \in Seq(Value) /\ valueStack' \in Seq(Value) /\ TypeOK
        /\ WalkTypeOK' /\ n \in Nat
        /\ \A k \in DOMAIN block : WellTypedInstruction(block[k])
        /\ Dropped(valueStack, 1) \in Seq(Value) /\ ValuesTyped(Dropped(valueStack, 1))
        /\ Dropped(valueStack, 2) \in Seq(Value) /\ ValuesTyped(Dropped(valueStack, 2))
    <2>1. /\ valueStack \in Seq(Value) /\ valueStack' \in Seq(Value) /\ TypeOK
          /\ WalkTypeOK' /\ 1 \in Nat /\ 2 \in Nat
          /\ \A k \in DOMAIN block : WellTypedInstruction(block[k])
      BY DEF TypeOK, Ground, WellTypedCode
    <2>2. n \in Nat
      BY <2>1, NodeFields DEF TypeOK
    <2> QED
      BY <2>1, <2>2, DroppedType, DroppedTyped
  <1>1. CASE VisitedBinary(n)
    <2> DEFINE t == TopValue(1).type
               op == OpcodeFor(ast[n].dataType, ast[n].operation)
               i == [op |-> op, from |-> n, type |-> t,
                     args |-> <<TopValue(1), TopValue(0)>>, slots |-> {}]
               v == [from |-> n, type |-> t]
    <2>1. /\ ast' = ast /\ block' = Append(block, i) /\ ast[n].kind = "Binary"
          /\ VisitedNode(n, Append(Dropped(valueStack, 2), v)) /\ Len(valueStack) >= 2
      BY <1>1 DEF VisitedBinary, Leave, Emit
    <2>2. /\ i.from = n /\ i.args[1] = TopValue(1) /\ i.args[2] = TopValue(0)
          /\ v.from = n /\ v.type = t
      OBVIOUS
    <2>3. TopValue(0).type = TypeFor(ast[n].dataType) /\ t = TypeFor(ast[n].dataType)
      BY <1>1, BinaryTyped
    <2>4. t \in LlvmType
      BY <2>3, TypeForType
    <2>5. Append(Dropped(valueStack, 2), v) \in Seq(Value)
      BY <1>0, <2>4, PushedType
    <2> HIDE DEF i, v, t
    <2>6. \A a \in {1, 2} : i.args[a].type = TypeFor(ast[n].dataType)
      BY <2>2, <2>3 DEF t
    <2>7. WellTypedInstruction(i)
      BY <2>1, <2>2, <2>6, WellTypedCases
    <2>8. ValueTyped(v)
      BY <2>2, <2>3 DEF ValueTyped
    <2>9. ValuesTyped(Append(Dropped(valueStack, 2), v))
      BY <1>0, <2>5, <2>8, PushedTyped
    <2> QED
      BY <1>0, <2>1, <2>5, <2>7, <2>9, TypedGrows, LeftTyped
  <1>2. CASE VisitedAssignVariable(n)
    <2> DEFINE v == [from |-> n, type |-> "void"]
    <2>1. /\ ast' = ast /\ ast[n].kind = "AssignVariable"
          /\ VisitedNode(n, Append(Dropped(valueStack, 1), v))
      BY <1>2 DEF VisitedAssignVariable, Leave
    <2>2. PICK i : /\ block' = Append(block, i) /\ i.from = n
                   /\ \A s \in i.slots :
                         i.args[1].type = TypeFor(ast[s.block].scope[s.name])
      BY <1>0, <1>2, StoreTyped
    <2>3. WellTypedInstruction(i)
      BY <2>1, <2>2, WellTypedCases
    <2>4. v.from = n /\ "void" \in LlvmType
      BY DEF LlvmType
    <2>5. Append(Dropped(valueStack, 1), v) \in Seq(Value)
      BY <1>0, <2>4, PushedType
    <2> HIDE DEF v
    <2>6. ValueTyped(v)
      BY <2>1, <2>4 DEF ValueTyped, OperandKind
    <2>7. ValuesTyped(Append(Dropped(valueStack, 1), v))
      BY <1>0, <2>5, <2>6, PushedTyped
    <2> QED
      BY <1>0, <2>1, <2>2, <2>3, <2>5, <2>7, TypedGrows, LeftTyped
  <1>3. CASE VisitedReturn(n)
    <2> DEFINE i == [op |-> "ret", from |-> n, type |-> "void",
                     args |-> <<TopValue(0)>>, slots |-> {}]
    <2>1. /\ ast' = ast /\ block' = Append(block, i) /\ ast[n].kind = "Return"
          /\ VisitedNode(n, Dropped(valueStack, 1))
      BY <1>3 DEF VisitedReturn, Leave, Emit
    <2>2. i.from = n /\ i.args[1] = TopValue(0)
      OBVIOUS
    <2> HIDE DEF i
    <2>3. TopValue(0).type = TypeFor(ast[n].dataType)
      BY <1>3, ReturnTyped
    <2>4. WellTypedInstruction(i)
      BY <2>1, <2>2, <2>3, WellTypedCases
    <2> QED
      BY <1>0, <2>1, <2>4, TypedGrows, LeftTyped
  <1>4. CASE VisitedModule(n) \/ VisitedBlock(n) \/ VisitedOther(n)
    <2>1. ast' = ast /\ block' = block /\ VisitedNode(n, valueStack)
      BY <1>4 DEF VisitedModule, VisitedBlock, VisitedOther, Leave
    <2> QED
      BY <1>0, <2>1, LeftTyped
  <1>5. CASE VisitedModuleAsserts(n) \/ VisitedAssignVariableThrows(n)
             \/ VisitedBinaryMismatch(n) \/ VisitedBinaryThrows(n)
             \/ VisitedReturnAsserts(n) \/ VisitedUndefined(n)
    <2>1. /\ ast' = ast /\ block' = block
          /\ valueStack' = valueStack \/ valueStack' = Dropped(valueStack, 2)
      BY <1>5 DEF VisitedModuleAsserts, VisitedAssignVariableThrows, VisitedBinaryMismatch,
                  VisitedBinaryThrows, VisitedReturnAsserts, VisitedUndefined, FailLeaving,
                  Fail, visitorVars
    <2> QED
      BY <1>0, <2>1
  <1> QED
    BY <1>1, <1>2, <1>3, <1>4, <1>5 DEF Visited

LEMMA TypedStep ==
    ASSUME Ground, TypeOK', TypedInv, WellTypedCode, [Next]_vars
    PROVE  TypedInv' /\ WellTypedCode'
  <1>1. ScopesTyped' /\ ScopesTyped
    BY ScopesTypedStep DEF Ground, TypedInv
  <1>2. ast' = ast
    <2>1. WalkTypeOK /\ [WalkNext]_walkerVars
      BY StepWalks DEF Ground, TypeOK
    <2> QED
      BY <2>1 DEF WalkNext, walkerVars, Enter, VisitLeaf, Leave, FailEntering, FailLeaving,
                  FailOutside, Fail, SkipBranch, NullChild, UnhandledKind, CleanUp
  <1>3. ASSUME TypedTree
        PROVE  /\ ValuesTyped(valueStack')
               /\ \A k \in DOMAIN block' : WellTypedInstruction(block'[k])
    <2>1. /\ ValuesTyped(valueStack)
          /\ \A k \in DOMAIN block : WellTypedInstruction(block[k])
      BY <1>3 DEF TypedInv, WellTypedCode
    <2>2. ASSUME NEW n \in DOMAIN ast, Visiting(n)
          PROVE  /\ ValuesTyped(valueStack')
                 /\ \A k \in DOMAIN block' : WellTypedInstruction(block'[k])
      BY <1>1, <1>3, <2>1, <2>2, VisitingTyped
    <2>3. ASSUME NEW n \in DOMAIN ast, Visited(n)
          PROVE  /\ ValuesTyped(valueStack')
                 /\ \A k \in DOMAIN block' : WellTypedInstruction(block'[k])
      BY <1>1, <1>3, <2>1, <2>3, VisitedTyped
    <2>4. CASE WalkerAlone \/ UNCHANGED vars
      <3>1. valueStack' = valueStack /\ block' = block
        BY <2>4 DEF WalkerAlone, vars, visitorVars
      <3> QED
        BY <2>1, <3>1
    <2> QED
      BY <2>2, <2>3, <2>4 DEF Next
  <1>4. (TypedTree => ValuesTyped(valueStack))'
    <2>1. TypedTree' => \A p \in DOMAIN valueStack' : ValueTyped(valueStack'[p])
      BY <1>2, <1>3, SameTyped DEF ValuesTyped
    <2> QED
      BY <1>2, <2>1 DEF ValuesTyped, ValueTyped
  <1>5. WellTypedCode'
    <2>1. TypedTree' => \A k \in DOMAIN block' : WellTypedInstruction(block[k])'
      <3>1. \A k : WellTypedInstruction(block[k])' <=> WellTypedInstruction(block'[k])
        BY <1>2, Zenon DEF WellTypedInstruction
      <3> QED
        BY <1>2, <1>3, <3>1, SameTyped
    <2> QED
      BY <2>1 DEF WellTypedCode
  <1> QED
    BY <1>1, <1>4, <1>5 DEF TypedInv

(***************************************************************************)
(* For every tree whose variables are used at their declared types, every  *)
(* instruction has operands of the types LLVM requires, although           *)
(* visitedBinary compares the types of expressions and not of values.      *)
(***************************************************************************)
THEOREM CodeIsWellTyped == Safety => []WellTypedCode
  <1>1. Init => TypedInv /\ WellTypedCode
    BY DEF Init, TypedInv, WellTypedCode, ScopesTyped, ValuesTyped
  <1>2. TypeOK /\ InDocument /\ LeftBehind /\ ScopesAreOpenBlocks /\ OperandsInPlace
          /\ TypeOK' /\ TypedInv /\ WellTypedCode /\ [Next]_vars
          => TypedInv' /\ WellTypedCode'
    BY TypedStep DEF Ground
  <1>3. Safety => [](TypeOK /\ InDocument /\ LeftBehind /\ ScopesAreOpenBlocks
                       /\ OperandsInPlace)
    BY TypeCorrect, ScopesCorrect, CompilationStaysInDocument, OperandsAreInPlace, PTL
  <1> QED
    BY <1>1, <1>2, <1>3, PTL DEF Safety

-----------------------------------------------------------------------------
(* Single assignment                                                       *)

(***************************************************************************)
(* The nodes that have been compiled, those whose values some instruction  *)
(* takes, and those whose values are in a list.                            *)
(***************************************************************************)
Emitted == {block[k].from : k \in DOMAIN block}

Taken(i) == {i.args[a].from : a \in DOMAIN i.args}

Used == UNION {Taken(block[k]) : k \in DOMAIN block}

From(s) == {s[p].from : p \in DOMAIN s}

Once(s) == \A p, q \in DOMAIN s : s[p].from = s[q].from => p = q

(***************************************************************************)
(* A node that needs no instruction or has one.                            *)
(***************************************************************************)
Compiled(n) == ast[n].kind \in CompiledKind => n \in Emitted

(***************************************************************************)
(* The inductive invariant: each node behind the walk has its instruction  *)
(* and an open one, unless it is a Block, has none yet; the values on      *)
(* valueStack are of nodes behind the walk, each there once and not used.  *)
(***************************************************************************)
EmittedSeen ==
    \A n \in Emitted :
       /\ n \in 1 .. Len(trace)
       /\ ast[n].kind \in CompiledKind
       /\ n \in Open => ast[n].kind = "Block"

ValuesSeen ==
    /\ Once(valueStack)
    /\ \A n \in From(valueStack) :
          Behind(n) /\ ast[n].kind \in ValueKind /\ Compiled(n) /\ n \notin Used

UsedSeen == \A n \in Used : Behind(n)

SeenEmitted ==
    \A n \in 1 .. Len(trace) : Behind(n) \/ ast[n].kind = "Block" => Compiled(n)

InFunction ==
    \A n \in 1 .. Len(trace) : n # Root => \E f \in 1 .. n : ast[f].kind = "Function"

CodeInv ==
    /\ CompiledOnce /\ ComputedBeforeUse /\ UsedOnce
    /\ outcome \in {"walking", "done"} =>
          EmittedSeen /\ ValuesSeen /\ UsedSeen /\ SeenEmitted /\ InFunction

-----------------------------------------------------------------------------
(* One more instruction                                                    *)

LEMMA CodeGrows ==
    ASSUME block \in Seq(Instruction), ast' = ast, NEW i \in Instruction,
           block' = Append(block, i)
    PROVE  /\ DOMAIN block' = 1 .. (Len(block) + 1)
           /\ DOMAIN block = 1 .. Len(block) /\ Len(block) \in Nat
           /\ \A k \in 1 .. Len(block) : block'[k] = block[k]
           /\ block'[Len(block) + 1] = i
           /\ Emitted' = Emitted \cup {i.from}
           /\ Used' = Used \cup Taken(i)
  <1>1. /\ DOMAIN block' = 1 .. (Len(block) + 1)
        /\ DOMAIN block = 1 .. Len(block) /\ Len(block) \in Nat
        /\ \A k \in 1 .. Len(block) : block'[k] = block[k]
        /\ block'[Len(block) + 1] = i
    BY Extended
  <1>2. DOMAIN block' = DOMAIN block \cup {Len(block) + 1}
    BY <1>1
  <1>3. \A k \in DOMAIN block : block'[k] = block[k]
    BY <1>1
  <1>4. Emitted' = Emitted \cup {i.from}
    BY <1>1, <1>2, <1>3 DEF Emitted
  <1>5. Used' = Used \cup Taken(i)
    <2>1. Used' = UNION {Taken(block'[k]) : k \in DOMAIN block'}
      BY DEF Used, Taken
    <2>2. {Taken(block'[k]) : k \in DOMAIN block'}
             = {Taken(block[k]) : k \in DOMAIN block} \cup {Taken(i)}
      BY <1>1, <1>2, <1>3
    <2> QED
      BY <2>1, <2>2 DEF Used
  <1> QED
    BY <1>1, <1>4, <1>5

(***************************************************************************)
(* The code stays in single assignment form if the instruction is the      *)
(* first of its node and takes values nobody took, computed before.        *)
(***************************************************************************)
LEMMA OnceGrows ==
    ASSUME TypeOK, ast' = ast, NEW i \in Instruction, block' = Append(block, i),
           CompiledOnce, ComputedBeforeUse, UsedOnce,
           i.from \notin Emitted, Once(i.args),
           \A n \in Taken(i) : n \notin Used /\ Compiled(n)
    PROVE  CompiledOnce' /\ ComputedBeforeUse' /\ UsedOnce'
  <1> DEFINE L == Len(block)
  <1>1. block \in Seq(Instruction)
    BY DEF TypeOK
  <1>2. /\ DOMAIN block' = 1 .. (L + 1) /\ DOMAIN block = 1 .. L /\ L \in Nat
        /\ \A k \in 1 .. L : block'[k] = block[k]
        /\ block'[L + 1] = i
    BY <1>1, CodeGrows
  <1>3. \A k \in 1 .. L : block[k].from # i.from
    BY <1>2 DEF Emitted
  <1>4. \A k \in 1 .. L : \A a \in DOMAIN block[k].args : block[k].args[a].from \in Used
    BY <1>2 DEF Used, Taken
  <1>5. \A a \in DOMAIN i.args :
           i.args[a].from \notin Used /\ Compiled(i.args[a].from)
    BY DEF Taken
  <1> HIDE DEF L
  <1>6. CompiledOnce'
    <2>1. ASSUME NEW j \in 1 .. (L + 1), NEW k \in 1 .. (L + 1),
                 block'[j].from = block'[k].from
          PROVE  j = k
      <3>1. CASE j \in 1 .. L /\ k \in 1 .. L
        BY <1>2, <2>1, <3>1 DEF CompiledOnce
      <3>2. CASE j = L + 1 \/ k = L + 1
        BY <1>2, <1>3, <2>1, <3>2
      <3> QED
        BY <1>2, <3>1, <3>2
    <2> QED
      BY <1>2, <2>1 DEF CompiledOnce
  <1>7. ComputedBeforeUse'
    <2>1. ASSUME NEW k \in 1 .. (L + 1), NEW a \in DOMAIN block'[k].args,
                 ast[block'[k].args[a].from].kind \in CompiledKind
          PROVE  \E j \in 1 .. (k - 1) : block'[j].from = block'[k].args[a].from
      <3>1. CASE k \in 1 .. L
        <4>1. PICK j \in 1 .. (k - 1) : block[j].from = block[k].args[a].from
          BY <1>2, <2>1, <3>1 DEF ComputedBeforeUse
        <4>2. j \in 1 .. L
          BY <1>2, <3>1, <4>1
        <4> QED
          BY <1>2, <3>1, <4>1, <4>2
      <3>2. CASE k = L + 1
        <4>1. block'[k].args[a].from \in Emitted
          BY <1>2, <1>5, <2>1, <3>2 DEF Compiled
        <4>2. PICK j \in 1 .. L : block[j].from = block'[k].args[a].from
          BY <1>2, <4>1 DEF Emitted
        <4>3. j \in 1 .. (k - 1)
          BY <1>2, <3>2, <4>2
        <4> QED
          BY <1>2, <4>2, <4>3
      <3> QED
        BY <1>2, <3>1, <3>2
    <2> QED
      BY <1>2, <2>1 DEF ComputedBeforeUse
  <1>8. UsedOnce'
    <2>1. ASSUME NEW k \in 1 .. (L + 1), NEW l \in 1 .. (L + 1),
                 NEW a \in DOMAIN block'[k].args, NEW b \in DOMAIN block'[l].args,
                 block'[k].args[a].from = block'[l].args[b].from
          PROVE  k = l /\ a = b
      <3>1. CASE k \in 1 .. L /\ l \in 1 .. L
        BY <1>2, <2>1, <3>1 DEF UsedOnce
      <3>2. CASE k = L + 1 /\ l \in 1 .. L
        BY <1>2, <1>4, <1>5, <2>1, <3>2
      <3>3. CASE l = L + 1 /\ k \in 1 .. L
        BY <1>2, <1>4, <1>5, <2>1, <3>3
      <3>4. CASE k = L + 1 /\ l = L + 1
        BY <1>2, <2>1, <3>4 DEF Once
      <3> QED
        BY <1>2, <3>1, <3>2, <3>3, <3>4
    <2> QED
      BY <1>2, <2>1 DEF UsedOnce
  <1> QED
    BY <1>6, <1>7, <1>8

-----------------------------------------------------------------------------
(* The values on the stack                                                 *)

LEMMA PushOnce ==
    ASSUME NEW s \in Seq(Value), NEW v \in Value
    PROVE  /\ From(Append(s, v)) = From(s) \cup {v.from}
           /\ Once(s) /\ v.from \notin From(s) => Once(Append(s, v))
  <1> DEFINE t == Append(s, v)
             L == Len(s)
  <1>1. /\ DOMAIN t = 1 .. (L + 1) /\ DOMAIN s = 1 .. L /\ L \in Nat
        /\ \A p \in 1 .. L : t[p] = s[p]
        /\ t[L + 1] = v
    BY Extended
  <1> HIDE DEF t, L
  <1>2. DOMAIN t = DOMAIN s \cup {L + 1} /\ \A p \in DOMAIN s : t[p] = s[p]
    BY <1>1
  <1>3. From(t) = From(s) \cup {v.from}
    BY <1>1, <1>2 DEF From
  <1>4. ASSUME Once(s), v.from \notin From(s)
        PROVE  Once(t)
    BY <1>1, <1>2, <1>4 DEF Once, From
  <1> QED
    BY <1>3, <1>4 DEF t

(***************************************************************************)
(* Popping the top m values leaves the others, and none of the popped ones *)
(* a second time.                                                          *)
(***************************************************************************)
LEMMA PopOnce ==
    ASSUME NEW s \in Seq(Value), Once(s), NEW m \in Nat, m <= Len(s)
    PROVE  /\ Dropped(s, m) \in Seq(Value)
           /\ Once(Dropped(s, m))
           /\ From(Dropped(s, m)) \subseteq From(s)
           /\ \A p \in DOMAIN s : p > Len(s) - m => s[p].from \notin From(Dropped(s, m))
  <1> DEFINE t == Dropped(s, m)
             L == Len(s) - m
  <1>1. t \in Seq(Value)
    BY DroppedType
  <1>2. /\ L \in Nat /\ DOMAIN t = 1 .. L
        /\ \A p \in 1 .. L : t[p] = s[p] /\ p \in DOMAIN s
    BY DEF Dropped
  <1> HIDE DEF t, L
  <1>3. Once(t)
    BY <1>2 DEF Once
  <1>4. From(t) \subseteq From(s)
    BY <1>2 DEF From
  <1>5. ASSUME NEW p \in DOMAIN s, p > L, s[p].from \in From(t)
        PROVE  FALSE
    <2>1. PICK q \in 1 .. L : s[q].from = s[p].from /\ q \in DOMAIN s
      BY <1>2, <1>5 DEF From
    <2>2. q = p
      BY <2>1 DEF Once
    <2> QED
      BY <1>2, <1>5, <2>1, <2>2
  <1> QED
    BY <1>1, <1>3, <1>4, <1>5 DEF t, L

-----------------------------------------------------------------------------
(* What a handler does to the code and to the values                       *)

LEMMA AppendedInstruction ==
    ASSUME TypeOK, TypeOK', NEW i, block' = Append(block, i)
    PROVE  i \in Instruction
  <1>1. block \in Seq(Instruction) /\ block' \in Seq(Instruction)
    BY DEF TypeOK
  <1>2. Append(block, i)[Len(block) + 1] = i /\ Len(block) + 1 \in DOMAIN Append(block, i)
    BY <1>1
  <1> QED
    BY <1>1, <1>2

LEMMA VisitingCode ==
    ASSUME TypeOK, TypeOK', NEW n \in DOMAIN ast, Visiting(n)
    PROVE  \/ Enter(n) /\ ast[n].kind \notin {"Block", "Function"}
              /\ block' = block /\ valueStack' = valueStack
           \/ Enter(n) /\ ast[n].kind = "Function" /\ block' = <<>> /\ valueStack' = valueStack
           \/ /\ Enter(n) /\ ast[n].kind = "Block" /\ valueStack' = valueStack
              /\ \E i \in Instruction :
                    block' = Append(block, i) /\ i.from = n /\ i.args = <<>>
           \/ /\ VisitLeaf(n) /\ ast[n].kind = "VariableRef"
              /\ \E i \in Instruction :
                    block' = Append(block, i) /\ i.from = n /\ i.args = <<>>
              /\ \E v \in Value : v.from = n /\ valueStack' = Append(valueStack, v)
           \/ /\ VisitLeaf(n) /\ ast[n].kind # "VariableRef" /\ block' = block
              /\ \E v \in Value : v.from = n /\ valueStack' = Append(valueStack, v)
           \/ /\ \E e \in Failure : FailEntering(n, e)
              /\ \/ block' = block
                 \/ \E i \in Instruction :
                       block' = Append(block, i) /\ i.from = n /\ i.args = <<>>
  <1>0. valueStack \in Seq(Value) /\ valueStack' \in Seq(Value)
    BY DEF TypeOK
  <1>1. ASSUME NEW S, Allocate(n, S)
        PROVE  \E i \in Instruction : block' = Append(block, i) /\ i.from = n /\ i.args = <<>>
    <2> DEFINE i == [op |-> "alloca", from |-> n, type |-> "void", args |-> <<>>,
                     slots |-> {[block |-> n, name |-> x] : x \in S}]
    <2>1. block' = Append(block, i)
      BY <1>1 DEF Allocate, Emit
    <2>2. i.from = n /\ i.args = <<>>
      OBVIOUS
    <2> HIDE DEF i
    <2> QED
      BY <2>1, <2>2, AppendedInstruction
  <1>2. CASE VisitingBlock(n)
    BY <1>1, <1>2 DEF VisitingBlock
  <1>3. CASE VisitingBlockThrows(n) \/ VisitingBlockRepeats(n)
    <2>1. \E S : Allocate(n, S)
      BY <1>3 DEF VisitingBlockThrows, VisitingBlockRepeats
    <2>2. FailEntering(n, "UnhandledSwitchCase") \/ FailEntering(n, "InvalidStateException")
      BY <1>3 DEF VisitingBlockThrows, VisitingBlockRepeats
    <2> QED
      BY <1>1, <2>1, <2>2, FailureNames
  <1>4. CASE VisitVariableRef(n)
    <2>1. PICK t, slots : /\ Emit("load", n, t, <<>>, slots)
                          /\ valueStack' = Append(valueStack, [from |-> n, type |-> t])
      BY <1>4 DEF VisitVariableRef
    <2> DEFINE i == [op |-> "load", from |-> n, type |-> t, args |-> <<>>, slots |-> slots]
               v == [from |-> n, type |-> t]
    <2>2. VisitLeaf(n) /\ ast[n].kind = "VariableRef"
      BY <1>4 DEF VisitVariableRef
    <2>3. /\ block' = Append(block, i) /\ i.from = n /\ i.args = <<>>
          /\ valueStack' = Append(valueStack, v) /\ v.from = n
      BY <2>1 DEF Emit
    <2> HIDE DEF i, v
    <2>4. i \in Instruction /\ v \in Value
      BY <1>0, <2>3, AppendedInstruction, PushedValue
    <2> QED
      BY <2>2, <2>3, <2>4
  <1>5. CASE VisitLiteral(n)
    <2> DEFINE v == [from |-> n, type |-> TypeFor(ast[n].dataType)]
    <2>1. /\ VisitLeaf(n) /\ ast[n].kind # "VariableRef" /\ block' = block
          /\ valueStack' = Append(valueStack, v) /\ v.from = n
      BY <1>5 DEF VisitLiteral
    <2> HIDE DEF v
    <2> QED
      BY <1>0, <2>1, PushedValue
  <1>6. CASE VisitingModule(n) \/ VisitingOther(n)
    BY <1>6 DEF VisitingModule, VisitingOther
  <1>7. CASE VisitingFunction(n)
    BY <1>7 DEF VisitingFunction
  <1>8. CASE VisitingFunctionThrows(n) \/ VisitVariableRefThrows(n) \/ VisitingUndefined(n)
    <2>1. /\ block' = block
          /\ \/ FailEntering(n, "UnhandledSwitchCase")
             \/ FailEntering(n, "InvalidStateException")
             \/ FailEntering(n, Undefined)
      BY <1>8 DEF VisitingFunctionThrows, VisitVariableRefThrows, VisitingUndefined
    <2> QED
      BY <2>1, FailureNames
  <1> QED
    BY <1>2, <1>3, <1>4, <1>5, <1>6, <1>7, <1>8 DEF Visiting

LEMMA VisitedCode ==
    ASSUME TypeOK, TypeOK', NEW n \in DOMAIN ast, Visited(n)
    PROVE  \/ /\ Leave(n) /\ ast[n].kind \in {"Module", "Function", "Block", "Conditional"}
              /\ block' = block
              /\ \/ valueStack' = valueStack
                 \/ valueStack # <<>> /\ valueStack' = Dropped(valueStack, 1)
           \/ /\ Leave(n) /\ ast[n].kind \in OperatorKind
              /\ \E m \in {1, 2}, i \in Instruction :
                    /\ m <= Len(valueStack)
                    /\ block' = Append(block, i) /\ i.from = n
                    /\ Len(i.args) = m
                    /\ \A j \in 1 .. m : i.args[j] = TopValue(m - j)
                    /\ \/ valueStack' = Dropped(valueStack, m)
                       \/ /\ ast[n].kind \in ValueKind
                          /\ \E v \in Value :
                                /\ v.from = n
                                /\ valueStack' = Append(Dropped(valueStack, m), v)
           \/ /\ \E e \in Failure : FailLeaving(n, e)
              /\ block' = block
  <1>0. /\ valueStack \in Seq(Value) /\ valueStack' \in Seq(Value) /\ Len(valueStack) \in Nat
        /\ Dropped(valueStack, 1) \in Seq(Value) /\ Dropped(valueStack, 2) \in Seq(Value)
    <2>1. valueStack \in Seq(Value) /\ valueStack' \in Seq(Value) /\ Len(valueStack) \in Nat
      BY DEF TypeOK
    <2> QED
      BY <2>1, DroppedType
  <1>1. CASE VisitedModule(n) \/ VisitedBlock(n) \/ VisitedOther(n)
    <2>1. /\ Leave(n) /\ ast[n].kind \in {"Module", "Function", "Block", "Conditional"}
          /\ block' = block /\ VisitedNode(n, valueStack)
      BY <1>1 DEF VisitedModule, VisitedBlock, VisitedOther
    <2>2. \/ valueStack' = valueStack
          \/ valueStack # <<>> /\ valueStack' = Dropped(valueStack, 1)
      BY <2>1 DEF VisitedNode
    <2> QED
      BY <2>1, <2>2
  <1>2. CASE VisitedBinary(n)
    <2>1. PICK op, t : /\ Leave(n) /\ ast[n].kind = "Binary" /\ Len(valueStack) >= 2
                       /\ Emit(op, n, t, <<TopValue(1), TopValue(0)>>, {})
                       /\ VisitedNode(n, Append(Dropped(valueStack, 2), [from |-> n, type |-> t]))
      BY <1>2 DEF VisitedBinary
    <2> DEFINE i == [op |-> op, from |-> n, type |-> t,
                     args |-> <<TopValue(1), TopValue(0)>>, slots |-> {}]
               v == [from |-> n, type |-> t]
    <2>2. /\ block' = Append(block, i) /\ v.from = n
          /\ valueStack' = Append(Dropped(valueStack, 2), v)
      BY <2>1 DEF Emit, VisitedNode
    <2>3. i.from = n /\ Len(i.args) = 2 /\ i.args[1] = TopValue(1) /\ i.args[2] = TopValue(0)
      OBVIOUS
    <2> HIDE DEF i, v
    <2>4. i \in Instruction /\ v \in Value
      BY <1>0, <2>2, AppendedInstruction, PushedValue
    <2>5. \A j \in 1 .. 2 : i.args[j] = TopValue(2 - j)
      <3>1. \A j \in 1 .. 2 : (j = 1 /\ 2 - j = 1) \/ (j = 2 /\ 2 - j = 0)
        OBVIOUS
      <3> QED
        BY <2>3, <3>1
    <2>6. 2 <= Len(valueStack) /\ ast[n].kind \in OperatorKind /\ ast[n].kind \in ValueKind
      BY <1>0, <2>1 DEF OperatorKind, ValueKind
    <2> QED
      BY <2>1, <2>2, <2>3, <2>4, <2>5, <2>6
  <1>3. CASE VisitedAssignVariable(n) \/ VisitedReturn(n)
    <2>1. PICK op, slots : /\ Leave(n) /\ ast[n].kind \in OperatorKind /\ Len(valueStack) >= 1
                           /\ Emit(op, n, "void", <<TopValue(0)>>, slots)
      BY <1>3 DEF VisitedAssignVariable, VisitedReturn, OperatorKind
    <2> DEFINE i == [op |-> op, from |-> n, type |-> "void",
                     args |-> <<TopValue(0)>>, slots |-> slots]
    <2>2. block' = Append(block, i)
      BY <2>1 DEF Emit
    <2>3. i.from = n /\ Len(i.args) = 1 /\ i.args[1] = TopValue(0)
      OBVIOUS
    <2> HIDE DEF i
    <2>4. i \in Instruction
      BY <2>2, AppendedInstruction
    <2>5. \A j \in 1 .. 1 : i.args[j] = TopValue(1 - j)
      <3>1. \A j \in 1 .. 1 : j = 1 /\ 1 - j = 0
        OBVIOUS
      <3> QED
        BY <2>3, <3>1
    <2>6. \/ valueStack' = Dropped(valueStack, 1)
          \/ /\ ast[n].kind \in ValueKind
             /\ \E v \in Value :
                   v.from = n /\ valueStack' = Append(Dropped(valueStack, 1), v)
      <3>1. CASE VisitedReturn(n)
        BY <3>1 DEF VisitedReturn, VisitedNode
      <3>2. CASE VisitedAssignVariable(n)
        <4> DEFINE v == [from |-> n, type |-> "void"]
        <4>1. /\ ast[n].kind = "AssignVariable" /\ v.from = n
              /\ valueStack' = Append(Dropped(valueStack, 1), v)
          BY <3>2 DEF VisitedAssignVariable, VisitedNode
        <4> HIDE DEF v
        <4>2. v \in Value
          BY <1>0, <4>1, PushedValue
        <4> QED
          BY <4>1, <4>2 DEF ValueKind
      <3> QED
        BY <1>3, <3>1, <3>2
    <2>7. 1 <= Len(valueStack)
      BY <1>0, <2>1
    <2> QED
      BY <2>1, <2>2, <2>3, <2>4, <2>5, <2>6, <2>7
  <1>4. CASE VisitedModuleAsserts(n) \/ VisitedAssignVariableThrows(n)
             \/ VisitedBinaryMismatch(n) \/ VisitedBinaryThrows(n)
             \/ VisitedReturnAsserts(n) \/ VisitedUndefined(n)
    <2>1. /\ block' = block
          /\ \/ FailLeaving(n, "DebugAssertionFailedException")
             \/ FailLeaving(n, "InvalidStateException")
             \/ FailLeaving(n, "CompileException")
             \/ FailLeaving(n, "UnhandledSwitchCase")
             \/ FailLeaving(n, Undefined)
      BY <1>4 DEF VisitedModuleAsserts, VisitedAssignVariableThrows, VisitedBinaryMismatch,
                  VisitedBinaryThrows, VisitedReturnAsserts, VisitedUndefined, visitorVars
    <2> QED
      BY <2>1, FailureNames
  <1> QED
    BY <1>1, <1>2, <1>3, <1>4 DEF Visited

-----------------------------------------------------------------------------
(* A node is announced                                                     *)

OneFunction ==
    \A m, n \in DOMAIN ast : ast[m].kind = "Function" /\ ast[n].kind = "Function" => m = n

LEMMA KindsApart ==
    /\ CompiledKind \cap {"Module", "Function", "Conditional", "LiteralInt32", "LiteralFloat"} = {}
    /\ ValueKind \cap {"Module", "Function", "Block", "Conditional", "Return"} = {}
    /\ OperatorKind \subseteq CompiledKind /\ "Block" \notin OperatorKind
    /\ "Block" \in CompiledKind /\ "VariableRef" \in CompiledKind /\ LeafKind \subseteq ValueKind
    /\ InnerKind \cap CompiledKind \subseteq OperatorKind \cup {"Block"}
    /\ LeafKind \cap CompiledKind = {"VariableRef"}
  BY DEF CompiledKind, OperatorKind, ValueKind, LeafKind, InnerKind

(***************************************************************************)
(* The next node is new, and lies in a Function.                           *)
(***************************************************************************)
LEMMA NewNode ==
    ASSUME TypeOK, InDocument, outcome = "walking" => InFunction,
           NEW n \in DOMAIN ast, Calling, n = Argument, n # Null,
           ast' = ast, trace' = Append(trace, n)
    PROVE  /\ n = Len(trace) + 1 /\ Len(trace) \in Nat /\ Len(trace') = n
           /\ Open \subseteq 1 .. Len(trace)
           /\ InFunction'
  <1>1. WalkTypeOK /\ trace \in Seq(Nat) /\ Len(trace) \in Nat /\ n \in Nat
        /\ outcome = "walking"
    BY NodeType DEF TypeOK, WalkTypeOK, Calling
  <1>2. /\ n = Len(trace) + 1 /\ Len(trace') = n
        /\ \A i \in DOMAIN calls : calls[i].node < n
    BY <1>1, NextNode
  <1>3. Open \subseteq 1 .. Len(trace)
    <2>1. ASSUME NEW m \in Open
          PROVE  m < n
      BY <1>1, <1>2, OpenNodes
    <2> QED
      BY <1>1, <1>2, <2>1, OpenVisited
  <1>4. n # Root => \E f \in 1 .. n : ast[f].kind = "Function"
    <2>1. ASSUME n # Root
          PROVE  \E f \in 1 .. n : ast[f].kind = "Function"
      <3>1. calls # <<>> /\ Top.next <= Len(ast[Top.node].kids)
            /\ n = ast[Top.node].kids[Top.next]
        BY <1>1, <2>1 DEF Calling, Argument
      <3>2. /\ Top.node \in DOMAIN ast /\ Top.node \in Open
            /\ Top.next \in 1 .. Len(ast[Top.node].kids)
            /\ Top.next \in DOMAIN ast[Top.node].kids
        <4>1. /\ Top.node \in DOMAIN ast /\ Top.node \in Open
              /\ Top.next \in 1 .. (Len(ast[Top.node].kids) + 1)
              /\ Len(ast[Top.node].kids) \in Nat
          BY <1>1, <3>1, TopFrame DEF Top, Open
        <4>2. Top.next \in 1 .. Len(ast[Top.node].kids)
          BY <3>1, <4>1
        <4> QED
          BY <1>1, <4>1, <4>2, NodeType DEF WalkTypeOK
      <3>3. CASE Top.node = Root
        <4>1. ast[Top.node].kind = "Module" /\ Members(ast, Top.node)
          BY <1>1, <3>2, <3>3 DEF WalkTypeOK, IsTree, Members
        <4>2. ast[n].kind = "Function"
          BY <3>1, <3>2, <4>1 DEF Members
        <4> QED
          BY <1>1, <1>2, <4>2
      <3>4. CASE Top.node # Root
        <4>1. Top.node \in 1 .. Len(trace)
          BY <1>3, <3>2
        <4>2. PICK f \in 1 .. Top.node : ast[f].kind = "Function"
          BY <1>1, <3>4, <4>1 DEF InFunction
        <4>3. f \in 1 .. n
          BY <1>1, <1>2, <4>1, <4>2
        <4> QED
          BY <4>2, <4>3
      <3> QED
        BY <3>3, <3>4
    <2> QED
      BY <2>1
  <1>5. InFunction'
    <2>1. \A m \in 1 .. n : m = n \/ m \in 1 .. Len(trace)
      BY <1>1, <1>2
    <2> QED
      BY <1>1, <1>2, <1>4, <2>1 DEF InFunction
  <1> QED
    BY <1>1, <1>2, <1>3, <1>5

(***************************************************************************)
(* A node is entered; a Block appends its allocas.                         *)
(***************************************************************************)
LEMMA EnterCode ==
    ASSUME TypeOK, TypeOK', InDocument, outcome = "walking" => InFunction,
           EmittedSeen, ValuesSeen, UsedSeen, SeenEmitted,
           NEW n \in DOMAIN ast, Enter(n), valueStack' = valueStack,
           Used' = Used,
           \/ Emitted' = Emitted /\ ast[n].kind # "Block"
           \/ Emitted' = Emitted \cup {n} /\ ast[n].kind = "Block"
    PROVE  EmittedSeen' /\ ValuesSeen' /\ UsedSeen' /\ SeenEmitted' /\ InFunction'
  <1>1. /\ Calling /\ n = Argument /\ n # Null /\ ast' = ast /\ trace' = Append(trace, n)
        /\ Open' = Open \cup {n}
    BY EnterOpen DEF Enter, TypeOK
  <1>2. /\ n = Len(trace) + 1 /\ Len(trace) \in Nat /\ Len(trace') = n
        /\ Open \subseteq 1 .. Len(trace) /\ InFunction'
    BY <1>1, NewNode
  <1>3. \A m \in 1 .. n : m = n \/ m \in 1 .. Len(trace)
    BY <1>2
  <1>4. \A m \in 1 .. Len(trace) : m \in 1 .. n /\ m # n
    BY <1>2
  <1>5. n \in 1 .. n /\ n \notin 1 .. Len(trace)
    BY <1>2
  <1>6. \A m : Behind(m)' <=> Behind(m)
    BY <1>1, <1>2, <1>3, <1>4 DEF Behind
  <1>7. "Block" \in CompiledKind
    BY KindsApart
  <1>8. EmittedSeen'
    BY <1>1, <1>2, <1>4, <1>5, <1>7 DEF EmittedSeen
  <1>9. ValuesSeen'
    <2>1. Once(valueStack)' /\ From(valueStack)' = From(valueStack)
      BY DEF Once, From, ValuesSeen
    <2>2. \A m : Compiled(m) => Compiled(m)'
      BY <1>1 DEF Compiled
    <2> QED
      BY <1>1, <1>6, <2>1, <2>2 DEF ValuesSeen
  <1>10. UsedSeen'
    BY <1>6 DEF UsedSeen
  <1>11. SeenEmitted'
    BY <1>1, <1>2, <1>3, <1>5, <1>6 DEF SeenEmitted, Compiled, Behind
  <1> QED
    BY <1>2, <1>8, <1>9, <1>10, <1>11

(***************************************************************************)
(* A leaf is visited and leaves its value; a reference appends its load.   *)
(***************************************************************************)
LEMMA LeafCode ==
    ASSUME TypeOK, TypeOK', InDocument, outcome = "walking" => InFunction,
           EmittedSeen, ValuesSeen, UsedSeen, SeenEmitted,
           NEW n \in DOMAIN ast, VisitLeaf(n),
           NEW v \in Value, v.from = n, valueStack' = Append(valueStack, v),
           Used' = Used,
           \/ Emitted' = Emitted /\ ast[n].kind # "VariableRef"
           \/ Emitted' = Emitted \cup {n} /\ ast[n].kind = "VariableRef"
    PROVE  EmittedSeen' /\ ValuesSeen' /\ UsedSeen' /\ SeenEmitted' /\ InFunction'
  <1>1. /\ Calling /\ n = Argument /\ n # Null /\ ast' = ast /\ trace' = Append(trace, n)
        /\ Open' = Open /\ ast[n].kind \in LeafKind
    BY ReturnedOpen DEF VisitLeaf, TypeOK
  <1>2. /\ n = Len(trace) + 1 /\ Len(trace) \in Nat /\ Len(trace') = n
        /\ Open \subseteq 1 .. Len(trace) /\ InFunction'
    BY <1>1, NewNode
  <1>3. \A m \in 1 .. n : m = n \/ m \in 1 .. Len(trace)
    BY <1>2
  <1>4. \A m \in 1 .. Len(trace) : m \in 1 .. n /\ m # n
    BY <1>2
  <1>5. n \in 1 .. n /\ n \notin 1 .. Len(trace) /\ n \notin Open
    BY <1>2
  <1>6. /\ \A m : Behind(m) => Behind(m)' /\ m # n
        /\ \A m : Behind(m)' => Behind(m) \/ m = n
        /\ Behind(n)'
    BY <1>1, <1>2, <1>3, <1>4, <1>5 DEF Behind
  <1>7. /\ "VariableRef" \in CompiledKind /\ ast[n].kind \in ValueKind /\ ast[n].kind # "Block"
        /\ ast[n].kind \in CompiledKind => ast[n].kind = "VariableRef"
    BY <1>1, KindsApart
  <1>8. EmittedSeen'
    BY <1>1, <1>2, <1>4, <1>5, <1>7 DEF EmittedSeen
  <1>9. /\ \A m : Compiled(m) => Compiled(m)'
        /\ Compiled(n)'
    BY <1>1, <1>7 DEF Compiled
  <1>10. ValuesSeen'
    <2>1. valueStack \in Seq(Value)
      BY DEF TypeOK
    <2>2. n \notin From(valueStack) /\ n \notin Used
      BY <1>6 DEF ValuesSeen, UsedSeen
    <2>3. /\ Once(valueStack')
          /\ From(valueStack') = From(valueStack) \cup {n}
      BY <2>1, <2>2, PushOnce DEF ValuesSeen
    <2>4. \A m \in From(valueStack') :
             Behind(m)' /\ ast[m].kind \in ValueKind /\ Compiled(m)' /\ m \notin Used
      BY <1>6, <1>7, <1>9, <2>2, <2>3 DEF ValuesSeen
    <2> QED
      BY <1>1, <2>3, <2>4 DEF ValuesSeen, Once, From
  <1>11. UsedSeen'
    BY <1>6 DEF UsedSeen
  <1>12. SeenEmitted'
    <2>1. ASSUME NEW m \in 1 .. n, Behind(m)' \/ ast[m].kind = "Block"
          PROVE  Compiled(m)'
      <3>1. CASE m = n
        BY <1>9, <3>1
      <3>2. CASE m # n
        <4>1. m \in 1 .. Len(trace) /\ (Behind(m) \/ ast[m].kind = "Block")
          BY <1>3, <1>6, <2>1, <3>2
        <4> QED
          BY <1>9, <4>1 DEF SeenEmitted
      <3> QED
        BY <3>1, <3>2
    <2> QED
      BY <1>1, <1>2, <2>1 DEF SeenEmitted
  <1> QED
    BY <1>2, <1>8, <1>10, <1>11, <1>12

(***************************************************************************)
(* The only Function is entered: nothing has been compiled yet.            *)
(***************************************************************************)
LEMMA FunctionCode ==
    ASSUME TypeOK, TypeOK', InDocument, OneFunction, outcome = "walking" => InFunction,
           ValuesSeen, NEW n \in DOMAIN ast, Enter(n), ast[n].kind = "Function",
           valueStack' = valueStack, block' = <<>>
    PROVE  EmittedSeen' /\ ValuesSeen' /\ UsedSeen' /\ SeenEmitted' /\ InFunction'
  <1>1. /\ Calling /\ n = Argument /\ n # Null /\ ast' = ast /\ trace' = Append(trace, n)
        /\ outcome = "walking" /\ WalkTypeOK
    BY DEF Enter, Calling, TypeOK
  <1>2. /\ n = Len(trace) + 1 /\ Len(trace) \in Nat /\ Len(trace') = n /\ InFunction'
    BY <1>1, NewNode
  <1>3. \A m \in 1 .. Len(trace) : m = Root
    <2>1. ASSUME NEW m \in 1 .. Len(trace), m # Root
          PROVE  FALSE
      <3>1. PICK f \in 1 .. m : ast[f].kind = "Function"
        BY <1>1, <2>1 DEF InFunction
      <3>2. f \in DOMAIN ast /\ f # n
        <4>1. DOMAIN ast = 1 .. Len(ast) /\ Len(ast) \in Nat /\ n <= Len(ast)
          BY <1>1 DEF WalkTypeOK, IsTree
        <4> QED
          BY <1>2, <2>1, <3>1, <4>1
      <3> QED
        BY <3>1, <3>2 DEF OneFunction
    <2> QED
      BY <2>1
  <1>4. ast[Root].kind = "Module"
    <2>1. Root \in DOMAIN ast
      BY <1>1, EmptySeq DEF WalkTypeOK, IsTree, Root
    <2> QED
      BY <1>1, <2>1 DEF WalkTypeOK, IsTree, Members
  <1>5. Emitted' = {} /\ Used' = {}
    BY DEF Emitted, Used
  <1>6. From(valueStack) = {}
    BY <1>3, <1>4, KindsApart DEF ValuesSeen, Behind
  <1>7. ValuesSeen'
    <2>1. Once(valueStack)' /\ From(valueStack)' = {}
      BY <1>6 DEF ValuesSeen, Once, From
    <2> QED
      BY <2>1 DEF ValuesSeen
  <1>8. SeenEmitted'
    <2>1. ASSUME NEW m \in 1 .. n
          PROVE  ast[m].kind \notin CompiledKind
      <3>1. m = n \/ m = Root
        BY <1>2, <1>3, <2>1
      <3> QED
        BY <1>4, <3>1, KindsApart
    <2> QED
      BY <1>1, <1>2, <2>1 DEF SeenEmitted, Compiled
  <1> QED
    BY <1>2, <1>5, <1>7, <1>8 DEF EmittedSeen, UsedSeen

-----------------------------------------------------------------------------
(* A node is left                                                          *)

LEMMA TopVisited ==
    ASSUME TypeOK, InDocument, NEW n \in DOMAIN ast, Leave(n)
    PROVE  /\ n \in 1 .. Len(trace) /\ n \in Open /\ Open' = Open \ {n}
           /\ ast' = ast /\ trace' = trace /\ outcome' = "walking" /\ outcome = "walking"
           /\ \A m : Behind(m) => Behind(m)' /\ m # n
           /\ \A m : Behind(m)' => Behind(m) \/ m = n
           /\ Behind(n)'
  <1>1. /\ WalkTypeOK /\ n \in Open /\ Open' = Open \ {n} /\ calls # <<>> /\ n = Top.node
        /\ ast' = ast /\ trace' = trace /\ outcome' = "walking" /\ outcome = "walking"
    BY LeaveOpen DEF Leave, Leaving, TypeOK
  <1>2. n \in 1 .. Len(trace)
    <2>1. IsLastCovered(ast, n, Top.next, Len(trace))
      BY <1>1, TopFrame
    <2>2. n <= Len(trace)
      BY <2>1 DEF IsLastCovered, Covered
    <2> QED
      BY <1>1, <2>2, OpenVisited DEF WalkTypeOK
  <1> QED
    BY <1>1, <1>2 DEF Behind

(***************************************************************************)
(* A node that is no operation leaves the values on the stack, or all but  *)
(* the top one.                                                            *)
(***************************************************************************)
LEMMA LeaveCode ==
    ASSUME TypeOK, InDocument, EmittedSeen, ValuesSeen, UsedSeen, SeenEmitted, InFunction,
           NEW n \in DOMAIN ast, Leave(n),
           ast[n].kind \in {"Module", "Function", "Block", "Conditional"},
           block' = block,
           \/ valueStack' = valueStack
           \/ valueStack # <<>> /\ valueStack' = Dropped(valueStack, 1)
    PROVE  EmittedSeen' /\ ValuesSeen' /\ UsedSeen' /\ SeenEmitted' /\ InFunction'
  <1>1. /\ n \in 1 .. Len(trace) /\ n \in Open /\ Open' = Open \ {n}
        /\ ast' = ast /\ trace' = trace
        /\ \A m : Behind(m) => Behind(m)' /\ m # n
        /\ \A m : Behind(m)' => Behind(m) \/ m = n
    BY TopVisited
  <1>2. Emitted' = Emitted /\ Used' = Used
    BY DEF Emitted, Used, Taken
  <1>3. \A m : Compiled(m)' <=> Compiled(m)
    BY <1>1, <1>2 DEF Compiled
  <1>4. EmittedSeen'
    BY <1>1, <1>2 DEF EmittedSeen
  <1>5. Once(valueStack') /\ From(valueStack') \subseteq From(valueStack)
    <2>1. valueStack \in Seq(Value)
      BY DEF TypeOK
    <2>2. CASE valueStack # <<>> /\ valueStack' = Dropped(valueStack, 1)
      <3>1. 1 \in Nat /\ 1 <= Len(valueStack)
        BY <2>1, <2>2
      <3> QED
        BY <2>1, <2>2, <3>1, PopOnce DEF ValuesSeen
    <2> QED
      BY <2>2 DEF ValuesSeen
  <1>6. ValuesSeen'
    BY <1>1, <1>2, <1>3, <1>5 DEF ValuesSeen, Once, From
  <1>7. UsedSeen'
    BY <1>1, <1>2 DEF UsedSeen
  <1>8. SeenEmitted'
    <2>1. Compiled(n)
      BY <1>1, KindsApart DEF SeenEmitted, Compiled
    <2> QED
      BY <1>1, <1>3, <2>1 DEF SeenEmitted
  <1>9. InFunction'
    BY <1>1 DEF InFunction
  <1> QED
    BY <1>4, <1>6, <1>7, <1>8, <1>9

(***************************************************************************)
(* The top m values are of different nodes, and not among those below.     *)
(***************************************************************************)
LEMMA TakenFromTop ==
    ASSUME TypeOK, ValuesSeen, NEW m \in {1, 2}, m <= Len(valueStack),
           NEW i \in Instruction, Len(i.args) = m,
           \A j \in 1 .. m : i.args[j] = TopValue(m - j)
    PROVE  /\ Once(i.args)
           /\ Taken(i) \subseteq From(valueStack)
           /\ Taken(i) \cap From(Dropped(valueStack, m)) = {}
           /\ Dropped(valueStack, m) \in Seq(Value) /\ Once(Dropped(valueStack, m))
           /\ From(Dropped(valueStack, m)) \subseteq From(valueStack)
  <1> DEFINE s == valueStack
             L == Len(valueStack)
             pos(j) == L - (m - j)
  <1>1. s \in Seq(Value) /\ L \in Nat /\ DOMAIN s = 1 .. L /\ m \in Nat /\ Once(s) /\ m <= L
    BY DEF TypeOK, ValuesSeen
  <1>2. DOMAIN i.args = 1 .. m
    <2>1. i.args \in Seq(Value)
      BY DEF Instruction
    <2> QED
      BY <2>1
  <1>3. ASSUME NEW j \in 1 .. m
        PROVE  pos(j) \in DOMAIN s /\ pos(j) > L - m /\ i.args[j] = s[pos(j)]
    BY <1>1 DEF TopValue
  <1>4. /\ Dropped(s, m) \in Seq(Value) /\ Once(Dropped(s, m))
        /\ From(Dropped(s, m)) \subseteq From(s)
        /\ \A p \in DOMAIN s : p > Len(s) - m => s[p].from \notin From(Dropped(s, m))
    BY <1>1, PopOnce
  <1>5. \A j, k \in 1 .. m : pos(j) = pos(k) => j = k
    BY <1>1
  <1> HIDE DEF pos
  <1>6. Once(i.args)
    BY <1>1, <1>2, <1>3, <1>5, SMTT(30) DEF Once
  <1>7. Taken(i) \subseteq From(s)
    BY <1>2, <1>3 DEF Taken, From
  <1>8. Taken(i) \cap From(Dropped(s, m)) = {}
    BY <1>2, <1>3, <1>4 DEF Taken
  <1> QED
    BY <1>4, <1>6, <1>7, <1>8

(***************************************************************************)
(* An operation takes its values off the stack, appends its instruction    *)
(* and may leave its own value.                                            *)
(***************************************************************************)
LEMMA OperateCode ==
    ASSUME TypeOK, InDocument, EmittedSeen, ValuesSeen, UsedSeen, SeenEmitted, InFunction,
           NEW n \in DOMAIN ast, Leave(n), ast[n].kind \in OperatorKind,
           NEW m \in {1, 2}, m <= Len(valueStack), NEW i \in Instruction, Len(i.args) = m,
           \A j \in 1 .. m : i.args[j] = TopValue(m - j),
           i.from = n, block' = Append(block, i),
           \/ valueStack' = Dropped(valueStack, m)
           \/ /\ ast[n].kind \in ValueKind
              /\ \E v \in Value :
                    v.from = n /\ valueStack' = Append(Dropped(valueStack, m), v)
    PROVE  EmittedSeen' /\ ValuesSeen' /\ UsedSeen' /\ SeenEmitted' /\ InFunction'
  <1> DEFINE s == Dropped(valueStack, m)
  <1>1. /\ n \in 1 .. Len(trace) /\ n \in Open /\ Open' = Open \ {n}
        /\ ast' = ast /\ trace' = trace
        /\ \A k : Behind(k) => Behind(k)' /\ k # n
        /\ \A k : Behind(k)' => Behind(k) \/ k = n
        /\ Behind(n)'
    BY TopVisited
  <1>2. Emitted' = Emitted \cup {n} /\ Used' = Used \cup Taken(i)
    BY <1>1, CodeGrows DEF TypeOK
  <1>3. /\ Taken(i) \subseteq From(valueStack) /\ Taken(i) \cap From(s) = {}
        /\ s \in Seq(Value) /\ Once(s) /\ From(s) \subseteq From(valueStack)
    BY TakenFromTop
  <1> HIDE DEF s
  <1>4. /\ \A k : Compiled(k) => Compiled(k)'
        /\ Compiled(n)'
    BY <1>1, <1>2 DEF Compiled
  <1>5. EmittedSeen'
    BY <1>1, <1>2, KindsApart DEF EmittedSeen
  <1>6. n \notin From(valueStack) /\ n \notin Used
    BY <1>1 DEF ValuesSeen, UsedSeen
  <1>7. \A k \in From(s) :
           Behind(k)' /\ ast[k].kind \in ValueKind /\ Compiled(k)' /\ k \notin Used'
    BY <1>1, <1>2, <1>3, <1>4 DEF ValuesSeen
  <1>8. ValuesSeen'
    <2>1. CASE valueStack' = s
      BY <1>1, <1>3, <1>7, <2>1 DEF ValuesSeen, Once, From
    <2>2. CASE /\ ast[n].kind \in ValueKind
               /\ \E v \in Value : v.from = n /\ valueStack' = Append(s, v)
      <3>1. Once(valueStack') /\ From(valueStack') = From(s) \cup {n}
        BY <1>3, <1>6, <2>2, PushOnce
      <3>2. \A k \in From(valueStack') :
               Behind(k)' /\ ast[k].kind \in ValueKind /\ Compiled(k)' /\ k \notin Used'
        BY <1>1, <1>2, <1>3, <1>4, <1>6, <1>7, <2>2, <3>1
      <3> QED
        BY <1>1, <3>1, <3>2 DEF ValuesSeen, Once, From
    <2> QED
      BY <2>1, <2>2 DEF s
  <1>9. UsedSeen'
    BY <1>1, <1>2, <1>3 DEF UsedSeen, ValuesSeen
  <1>10. SeenEmitted'
    BY <1>1, <1>4 DEF SeenEmitted
  <1>11. InFunction'
    BY <1>1 DEF InFunction
  <1> QED
    BY <1>5, <1>8, <1>9, <1>10, <1>11

-----------------------------------------------------------------------------
(* Every step                                                              *)

LEMMA SameCode ==
    ASSUME ast' = ast, block' = block, CompiledOnce, ComputedBeforeUse, UsedOnce
    PROVE  CompiledOnce' /\ ComputedBeforeUse' /\ UsedOnce'
  BY DEF CompiledOnce, ComputedBeforeUse, UsedOnce

LEMMA EmptyCode ==
    ASSUME block' = <<>>
    PROVE  CompiledOnce' /\ ComputedBeforeUse' /\ UsedOnce'
  BY DEF CompiledOnce, ComputedBeforeUse, UsedOnce

LEMMA NoArgs ==
    ASSUME NEW i, i.args = <<>>
    PROVE  Once(i.args) /\ Taken(i) = {}
  BY DEF Once, Taken

LEMMA NewNotEmitted ==
    ASSUME TypeOK, InDocument, EmittedSeen, NEW n \in DOMAIN ast, Calling, n = Argument,
           n # Null
    PROVE  n \notin Emitted
  <1>1. n = Len(trace) + 1 /\ Len(trace) \in Nat
    BY NextNode DEF TypeOK, WalkTypeOK
  <1> QED
    BY <1>1 DEF EmittedSeen

LEMMA VisitingStep ==
    ASSUME TypeOK, TypeOK', InDocument, OneFunction, CodeInv, outcome = "walking",
           NEW n \in DOMAIN ast, Visiting(n)
    PROVE  CodeInv'
  <1>0. /\ EmittedSeen /\ ValuesSeen /\ UsedSeen /\ SeenEmitted /\ InFunction
        /\ CompiledOnce /\ ComputedBeforeUse /\ UsedOnce /\ block \in Seq(Instruction)
    BY DEF CodeInv, TypeOK
  <1>1. ASSUME NEW i \in Instruction, block' = Append(block, i), i.from = n, i.args = <<>>,
               ast' = ast, Calling, n = Argument, n # Null
        PROVE  /\ CompiledOnce' /\ ComputedBeforeUse' /\ UsedOnce'
               /\ Emitted' = Emitted \cup {n} /\ Used' = Used
    <2>1. n \notin Emitted /\ Once(i.args) /\ Taken(i) = {}
      BY <1>0, <1>1, NewNotEmitted, NoArgs
    <2> QED
      BY <1>0, <1>1, <2>1, OnceGrows, CodeGrows
  <1>2. ASSUME block' = block
        PROVE  Emitted' = Emitted /\ Used' = Used
    BY <1>2 DEF Emitted, Used, Taken
  <1>3. CASE Enter(n) /\ ast[n].kind \notin {"Block", "Function"}
             /\ block' = block /\ valueStack' = valueStack
    <2>1. ast' = ast /\ Emitted' = Emitted /\ Used' = Used
      BY <1>2, <1>3 DEF Enter
    <2>2. EmittedSeen' /\ ValuesSeen' /\ UsedSeen' /\ SeenEmitted' /\ InFunction'
      BY <1>0, <1>3, <2>1, EnterCode
    <2> QED
      BY <1>0, <1>3, <2>1, <2>2, SameCode DEF CodeInv
  <1>4. CASE Enter(n) /\ ast[n].kind = "Function" /\ block' = <<>> /\ valueStack' = valueStack
    <2>1. EmittedSeen' /\ ValuesSeen' /\ UsedSeen' /\ SeenEmitted' /\ InFunction'
      BY <1>0, <1>4, FunctionCode
    <2> QED
      BY <1>4, <2>1, EmptyCode DEF CodeInv
  <1>5. CASE /\ Enter(n) /\ ast[n].kind = "Block" /\ valueStack' = valueStack
             /\ \E i \in Instruction : block' = Append(block, i) /\ i.from = n /\ i.args = <<>>
    <2>1. ast' = ast /\ Calling /\ n = Argument /\ n # Null
      BY <1>5 DEF Enter
    <2>2. /\ CompiledOnce' /\ ComputedBeforeUse' /\ UsedOnce'
          /\ Emitted' = Emitted \cup {n} /\ Used' = Used
      BY <1>1, <1>5, <2>1
    <2>3. EmittedSeen' /\ ValuesSeen' /\ UsedSeen' /\ SeenEmitted' /\ InFunction'
      BY <1>0, <1>5, <2>2, EnterCode
    <2> QED
      BY <2>2, <2>3 DEF CodeInv
  <1>6. CASE /\ VisitLeaf(n) /\ ast[n].kind = "VariableRef"
             /\ \E i \in Instruction : block' = Append(block, i) /\ i.from = n /\ i.args = <<>>
             /\ \E v \in Value : v.from = n /\ valueStack' = Append(valueStack, v)
    <2>1. ast' = ast /\ Calling /\ n = Argument /\ n # Null
      BY <1>6 DEF VisitLeaf
    <2>2. /\ CompiledOnce' /\ ComputedBeforeUse' /\ UsedOnce'
          /\ Emitted' = Emitted \cup {n} /\ Used' = Used
      BY <1>1, <1>6, <2>1
    <2>3. EmittedSeen' /\ ValuesSeen' /\ UsedSeen' /\ SeenEmitted' /\ InFunction'
      BY <1>0, <1>6, <2>2, LeafCode
    <2> QED
      BY <2>2, <2>3 DEF CodeInv
  <1>7. CASE /\ VisitLeaf(n) /\ ast[n].kind # "VariableRef" /\ block' = block
             /\ \E v \in Value : v.from = n /\ valueStack' = Append(valueStack, v)
    <2>1. ast' = ast /\ Emitted' = Emitted /\ Used' = Used
      BY <1>2, <1>7 DEF VisitLeaf
    <2>2. EmittedSeen' /\ ValuesSeen' /\ UsedSeen' /\ SeenEmitted' /\ InFunction'
      BY <1>0, <1>7, <2>1, LeafCode
    <2> QED
      BY <1>0, <1>7, <2>1, <2>2, SameCode DEF CodeInv
  <1>8. CASE /\ \E e \in Failure : FailEntering(n, e)
             /\ \/ block' = block
                \/ \E i \in Instruction :
                      block' = Append(block, i) /\ i.from = n /\ i.args = <<>>
    <2>1. /\ ast' = ast /\ Calling /\ n = Argument /\ n # Null
          /\ outcome' \notin {"walking", "done"}
      BY <1>8, FailureEnds DEF FailEntering, Fail
    <2>2. CompiledOnce' /\ ComputedBeforeUse' /\ UsedOnce'
      BY <1>0, <1>1, <1>8, <2>1, SameCode
    <2> QED
      BY <2>1, <2>2 DEF CodeInv
  <1> QED
    BY <1>3, <1>4, <1>5, <1>6, <1>7, <1>8, VisitingCode

LEMMA VisitedStep ==
    ASSUME TypeOK, TypeOK', InDocument, CodeInv, outcome = "walking",
           NEW n \in DOMAIN ast, Visited(n)
    PROVE  CodeInv'
  <1>0. /\ EmittedSeen /\ ValuesSeen /\ UsedSeen /\ SeenEmitted /\ InFunction
        /\ CompiledOnce /\ ComputedBeforeUse /\ UsedOnce /\ block \in Seq(Instruction)
    BY DEF CodeInv, TypeOK
  <1>1. CASE /\ Leave(n) /\ ast[n].kind \in {"Module", "Function", "Block", "Conditional"}
             /\ block' = block
             /\ \/ valueStack' = valueStack
                \/ valueStack # <<>> /\ valueStack' = Dropped(valueStack, 1)
    <2>1. ast' = ast
      BY <1>1 DEF Leave
    <2>2. EmittedSeen' /\ ValuesSeen' /\ UsedSeen' /\ SeenEmitted' /\ InFunction'
      BY <1>0, <1>1, LeaveCode
    <2> QED
      BY <1>0, <1>1, <2>1, <2>2, SameCode DEF CodeInv
  <1>2. CASE /\ Leave(n) /\ ast[n].kind \in OperatorKind
             /\ \E m \in {1, 2}, i \in Instruction :
                   /\ m <= Len(valueStack)
                   /\ block' = Append(block, i) /\ i.from = n
                   /\ Len(i.args) = m
                   /\ \A j \in 1 .. m : i.args[j] = TopValue(m - j)
                   /\ \/ valueStack' = Dropped(valueStack, m)
                      \/ /\ ast[n].kind \in ValueKind
                         /\ \E v \in Value :
                               /\ v.from = n
                               /\ valueStack' = Append(Dropped(valueStack, m), v)
    <2>1. PICK m \in {1, 2}, i \in Instruction :
                   /\ m <= Len(valueStack)
                   /\ block' = Append(block, i) /\ i.from = n
                   /\ Len(i.args) = m
                   /\ \A j \in 1 .. m : i.args[j] = TopValue(m - j)
                   /\ \/ valueStack' = Dropped(valueStack, m)
                      \/ /\ ast[n].kind \in ValueKind
                         /\ \E v \in Value :
                               /\ v.from = n
                               /\ valueStack' = Append(Dropped(valueStack, m), v)
      BY <1>2
    <2>2. EmittedSeen' /\ ValuesSeen' /\ UsedSeen' /\ SeenEmitted' /\ InFunction'
      BY <1>0, <1>2, <2>1, OperateCode
    <2>3. /\ Once(i.args) /\ Taken(i) \subseteq From(valueStack)
          /\ n \in Open /\ ast' = ast
      BY <1>0, <1>2, <2>1, TakenFromTop, TopVisited
    <2>4. n \notin Emitted
      BY <1>0, <1>2, <2>3, KindsApart DEF EmittedSeen
    <2>5. \A k \in Taken(i) : k \notin Used /\ Compiled(k)
      BY <1>0, <2>3 DEF ValuesSeen
    <2>6. CompiledOnce' /\ ComputedBeforeUse' /\ UsedOnce'
      BY <1>0, <2>1, <2>3, <2>4, <2>5, OnceGrows
    <2> QED
      BY <2>2, <2>6 DEF CodeInv
  <1>3. CASE /\ \E e \in Failure : FailLeaving(n, e)
             /\ block' = block
    <2>1. ast' = ast /\ outcome' \notin {"walking", "done"}
      BY <1>3, FailureEnds DEF FailLeaving, Fail
    <2> QED
      BY <1>0, <1>3, <2>1, SameCode DEF CodeInv
  <1> QED
    BY <1>1, <1>2, <1>3, VisitedCode

LEMMA CodeStep ==
    TypeOK /\ TypeOK' /\ InDocument /\ OneFunction /\ CodeInv /\ [Next]_vars => CodeInv'
  <1> SUFFICES ASSUME TypeOK, TypeOK', InDocument, OneFunction, CodeInv, [Next]_vars
               PROVE  CodeInv'
    OBVIOUS
  <1>1. ASSUME NEW n \in DOMAIN ast, Visiting(n), Next
        PROVE  CodeInv'
    BY <1>1, WalkingStep, VisitingStep
  <1>2. ASSUME NEW n \in DOMAIN ast, Visited(n), Next
        PROVE  CodeInv'
    BY <1>2, WalkingStep, VisitedStep
  <1>3. CASE WalkerAlone \/ UNCHANGED vars
    <2>1. ast' = ast /\ block' = block /\ valueStack' = valueStack
      BY <1>3 DEF WalkerAlone, visitorVars, SkipBranch, NullChild, UnhandledKind, CleanUp,
                  Fail, vars, walkerVars
    <2>2. CompiledOnce' /\ ComputedBeforeUse' /\ UsedOnce'
      BY <2>1, SameCode DEF CodeInv
    <2>3. ASSUME outcome' \in {"walking", "done"}
          PROVE  trace' = trace /\ Open' = Open /\ outcome \in {"walking", "done"}
      <3>1. CASE SkipBranch
        BY <3>1, ReturnedOpen DEF SkipBranch, Calling, TypeOK
      <3>2. CASE CleanUp \/ UNCHANGED vars
        BY <2>3, <3>2 DEF CleanUp, vars, walkerVars, Open
      <3> QED
        BY <1>3, <2>3, <3>1, <3>2, AloneOutcome
    <2>4. ASSUME outcome' \in {"walking", "done"}
          PROVE  EmittedSeen' /\ ValuesSeen' /\ UsedSeen' /\ SeenEmitted' /\ InFunction'
      <3>1. /\ trace' = trace /\ Open' = Open
            /\ EmittedSeen /\ ValuesSeen /\ UsedSeen /\ SeenEmitted /\ InFunction
        BY <2>3, <2>4 DEF CodeInv
      <3>2. /\ Emitted' = Emitted /\ Used' = Used
            /\ Once(valueStack)' = Once(valueStack) /\ From(valueStack)' = From(valueStack)
        BY <2>1 DEF Emitted, Used, Taken, Once, From
      <3>3. \A m : (Behind(m)' <=> Behind(m)) /\ (Compiled(m)' <=> Compiled(m))
        BY <2>1, <3>1, <3>2 DEF Behind, Compiled
      <3> QED
        BY <2>1, <3>1, <3>2, <3>3
           DEF EmittedSeen, ValuesSeen, UsedSeen, SeenEmitted, InFunction
    <2> QED
      BY <2>2, <2>4 DEF CodeInv
  <1> QED
    BY <1>1, <1>2, <1>3 DEF Next

(***************************************************************************)
(* The invariant holds in every compilation, whatever the tree.            *)
(***************************************************************************)
THEOREM CodeInvariant == Safety => [](CodeInv /\ OneFunction)
  <1>1. Init => CodeInv /\ OneFunction
    <2>1. ASSUME Init
          PROVE  CodeInv /\ OneFunction
      <3>1. /\ block = <<>> /\ valueStack = <<>> /\ trace = <<>> /\ ast \in Programs
            /\ Len(trace) = 0
        BY <2>1 DEF Init, WalkInit
      <3>2. OneFunction
        BY <3>1, OneFunctionAssumption DEF OneFunction
      <3>3. Emitted = {} /\ Used = {} /\ From(valueStack) = {} /\ Once(valueStack)
        BY <3>1 DEF Emitted, Used, From, Once
      <3>4. CompiledOnce /\ ComputedBeforeUse /\ UsedOnce
        BY <3>1 DEF CompiledOnce, ComputedBeforeUse, UsedOnce
      <3>5. 1 .. Len(trace) = {}
        BY <3>1
      <3> QED
        BY <3>2, <3>3, <3>4, <3>5
           DEF CodeInv, EmittedSeen, ValuesSeen, UsedSeen, SeenEmitted, InFunction
    <2> QED
      BY <2>1
  <1>2. TypeOK /\ OneFunction /\ [Next]_vars => OneFunction'
    <2>1. ASSUME TypeOK, OneFunction, [Next]_vars
          PROVE  OneFunction'
      <3>1. [WalkNext]_walkerVars
        BY <2>1, StepWalks
      <3>2. ast' = ast
        BY <3>1 DEF WalkNext, walkerVars, Enter, VisitLeaf, Leave, FailEntering, FailLeaving,
                    FailOutside, Fail, SkipBranch, NullChild, UnhandledKind, CleanUp
      <3> QED
        BY <2>1, <3>2 DEF OneFunction
    <2> QED
      BY <2>1
  <1> QED
    BY <1>1, <1>2, CodeStep, TypeCorrect, CompilationStaysInDocument, PTL DEF Safety

(***************************************************************************)
(* The code is in static single assignment form for every tree: no node is *)
(* compiled twice, a value is computed before it is used and used once,    *)
(* also in a compilation that fails; and one that succeeds has compiled    *)
(* every node that needs an instruction.                                   *)
(***************************************************************************)
THEOREM CodeIsSsa == Safety => []SsaCode
  <1>1. TypeOK /\ InDocument /\ CodeInv => SsaCode
    <2>1. ASSUME TypeOK, InDocument, CodeInv, outcome = "done",
                 NEW n \in DOMAIN ast, ast[n].kind \in CompiledKind
          PROVE  n \in Emitted
      <3>1. n \in 1 .. Len(trace) /\ Open = {}
        BY <2>1 DEF InDocument, Open, TypeOK, WalkTypeOK, IsTree
      <3> QED
        BY <2>1, <3>1 DEF CodeInv, SeenEmitted, Behind, Compiled
    <2> QED
      BY <2>1 DEF SsaCode, AllCompiled, CodeInv, Emitted
  <1> QED
    BY <1>1, CodeInvariant, TypeCorrect, CompilationStaysInDocument, PTL

-----------------------------------------------------------------------------
(* The translation of the tree                                             *)

(***************************************************************************)
(* Translation's trees, names and order are those of the walk.             *)
(***************************************************************************)
LEMMA TranslatedTrees == ASSUME NEW a, IsTree(a) PROVE Scheme!IsTree(a)
  <1>1. Scheme!Node = Node
    BY DEF Node, NodeKind, DataType, Scope, OperationKind, Undefined,
           Scheme!Node, Scheme!NodeKind, Scheme!DataType, Scheme!Scope,
           Scheme!OperationKind, Scheme!Undefined
  <1>2. ASSUME NEW n \in DOMAIN a
        PROVE  Scheme!Members(a, n) /\ Scheme!DataTypeRule(a, n) /\ Scheme!Numbered(a, n)
    <2>1. Scheme!Members(a, n)
      <3>1. Members(a, n)
        BY DEF IsTree
      <3> QED
        BY <3>1 DEF Members, LeafKind, ClientKind, Null, Root,
                    Scheme!Members, Scheme!LeafKind, Scheme!ClientKind, Scheme!Null,
                    Scheme!Root
    <2>2. Scheme!DataTypeRule(a, n)
      <3>1. DataTypeRule(a, n)
        BY DEF IsTree
      <3> QED
        BY <3>1 DEF DataTypeRule, TypeAt, ClientKind, DataType, Undefined, Null,
                    Scheme!DataTypeRule, Scheme!TypeAt, Scheme!ClientKind,
                    Scheme!DataType, Scheme!Undefined, Scheme!Null
    <2>3. Scheme!Numbered(a, n)
      <3>1. Numbered(a, n)
        BY DEF IsTree
      <3> QED
        BY <3>1 DEF Numbered, IsLastCovered, Covered, Null, Scheme!Numbered,
                    Scheme!IsLastCovered, Scheme!Covered, Scheme!Null
    <2> QED
      BY <2>1, <2>2, <2>3
  <1>3. a \in Seq(Scheme!Node) /\ a # <<>> /\ a[Scheme!Root].last = Len(a)
    BY <1>1 DEF IsTree, Root, Scheme!Root
  <1> QED
    BY <1>2, <1>3 DEF Scheme!IsTree

LEMMA TranslatedNames ==
    /\ \A n, x, b : Scheme!Binds(ast, n, x, b) <=> Binds(ast, n, x, b)
    /\ \A m, n : Scheme!ClosesBefore(ast, m, n) <=> ClosesBefore(ast, m, n)
    /\ Scheme!Translates = CompiledKind
  <1>1. \A n, x, b : Scheme!Binds(ast, n, x, b) <=> Binds(ast, n, x, b)
    BY DEF Scheme!Binds, Binds, Scheme!Encloses, Encloses, Scheme!Declares, Declares
  <1>2. \A m, n : Scheme!ClosesBefore(ast, m, n) <=> ClosesBefore(ast, m, n)
    BY DEF Scheme!ClosesBefore, ClosesBefore
  <1>3. Scheme!Translates = CompiledKind
    BY DEF Scheme!Translates, CompiledKind, OperatorKind
  <1> QED
    BY <1>1, <1>2, <1>3

(***************************************************************************)
(* What has been translated is what has been compiled.                     *)
(***************************************************************************)
AbstractCode == {Abstracted(block[k]) : k \in DOMAIN block}

LEMMA TranslatedNodes == Scheme!Translated = Emitted
  <1>1. \A i : Abstracted(i).node = i.from
    BY DEF Abstracted
  <1> HIDE DEF Abstracted
  <1> QED
    BY <1>1 DEF Scheme!Translated, Emitted

LEMMA TranslatedGrows ==
    ASSUME block \in Seq(Instruction), NEW i \in Instruction, block' = Append(block, i)
    PROVE  AbstractCode' = AbstractCode \cup {Abstracted(i)}
  <1>1. /\ DOMAIN block' = 1 .. (Len(block) + 1)
        /\ DOMAIN block = 1 .. Len(block) /\ Len(block) \in Nat
        /\ \A k \in 1 .. Len(block) : block'[k] = block[k]
        /\ block'[Len(block) + 1] = i
    BY Extended
  <1>2. DOMAIN block' = DOMAIN block \cup {Len(block) + 1}
    BY <1>1
  <1>3. \A k \in DOMAIN block : block'[k] = block[k]
    BY <1>1
  <1>4. AbstractCode' = {Abstracted(block'[k]) : k \in DOMAIN block'}
    BY DEF AbstractCode, Abstracted
  <1> QED
    BY <1>1, <1>2, <1>3, <1>4 DEF AbstractCode

(***************************************************************************)
(* Which nodes have their instruction when a node is entered or closes.    *)
(***************************************************************************)
LEMMA EmittedNow ==
    ASSUME TypeOK, InDocument, LeftBehind, CodeInv, outcome = "walking",
           NEW m \in DOMAIN ast, ast[m].kind \in CompiledKind
    PROVE  /\ ast[m].kind = "Block" => (m \in Emitted <=> m \in 1 .. Len(trace))
           /\ ast[m].kind # "Block" => (m \in Emitted <=> Behind(m))
           /\ Behind(m) => m <= ast[m].last /\ ast[m].last <= Len(trace)
  <1>1. EmittedSeen /\ SeenEmitted
    BY DEF CodeInv
  <1>2. ast[m].kind = "Block" => (m \in Emitted <=> m \in 1 .. Len(trace))
    BY <1>1 DEF EmittedSeen, SeenEmitted, Compiled
  <1>3. ast[m].kind # "Block" => (m \in Emitted <=> Behind(m))
    BY <1>1 DEF EmittedSeen, SeenEmitted, Compiled, Behind
  <1>4. Behind(m) => m <= ast[m].last /\ ast[m].last <= Len(trace)
    BY NodeType DEF LeftBehind, Behind, TypeOK, WalkTypeOK
  <1> QED
    BY <1>2, <1>3, <1>4

LEMMA BlockIsNext ==
    ASSUME TypeOK, InDocument, LeftBehind, CodeInv, NEW n \in DOMAIN ast,
           Enter(n), ast[n].kind = "Block"
    PROVE  Scheme!IsNext(n)
  <1>1. /\ Calling /\ n = Argument /\ Argument # Null /\ outcome = "walking"
        /\ WalkTypeOK /\ n = Len(trace) + 1 /\ Len(trace) \in Nat
    BY NextNode DEF Enter, Calling, TypeOK, WalkTypeOK
  <1>2. ASSUME NEW m \in DOMAIN ast, ast[m].kind \in CompiledKind
        PROVE  m \in Emitted <=> Scheme!Precedes(m, n)
    <2>1. m \in Nat /\ m >= 1 /\ ast[m].last \in Nat /\ m <= ast[m].last
      BY <1>1, NodeType DEF WalkTypeOK
    <2>2. CASE ast[m].kind = "Block"
      <3>1. m \in Emitted <=> m < n
        BY <1>1, <1>2, <2>1, <2>2, EmittedNow
      <3> QED
        BY <2>2, <3>1 DEF Scheme!Precedes, Scheme!AtOpening
    <2>3. CASE ast[m].kind # "Block"
      <3>1. Behind(m) <=> ast[m].last < n
        <4>1. Behind(m) => ast[m].last < n
          BY <1>1, <1>2, <2>1, EmittedNow
        <4>2. ast[m].last < n => m \in 1 .. Len(trace) /\ ~Encloses(ast, m, n)
          BY <1>1, <2>1 DEF Encloses
        <4> QED
          BY <1>1, <4>1, <4>2, AroundNext DEF Behind
      <3> QED
        BY <1>1, <1>2, <2>3, <3>1, EmittedNow DEF Scheme!Precedes, Scheme!AtOpening
    <2> QED
      BY <2>2, <2>3
  <1> QED
    BY <1>2, TranslatedNodes, TranslatedNames DEF Scheme!IsNext

LEMMA ClosingIsNext ==
    ASSUME TypeOK, TypeOK', InDocument, LeftBehind, CodeInv, NEW n \in DOMAIN ast,
           VisitLeaf(n) \/ Leave(n), ast[n].kind # "Block", ast[n].kind \in CompiledKind
    PROVE  Scheme!IsNext(n)
  <1>1. /\ outcome = "walking" /\ WalkTypeOK /\ WalkTypeOK' /\ Len(trace) \in Nat
        /\ n \in Nat /\ ast[n].last \in Nat /\ n <= ast[n].last
    <2>1. outcome = "walking" /\ WalkTypeOK /\ WalkTypeOK'
      BY DEF VisitLeaf, Leave, Leaving, Calling, TypeOK
    <2> QED
      BY <2>1, NodeType DEF WalkTypeOK
  <1>2. /\ (n = Len(trace) + 1 /\ ast[n].last = n) \/ ast[n].last = Len(trace)
        /\ \A o \in Open : o = n \/ (o < n /\ ast[n].last <= ast[o].last)
    <2>1. CASE VisitLeaf(n)
      BY <1>1, <2>1, VisitLeafInDocument, NextNode, OpenNodes DEF VisitLeaf
    <2>2. CASE Leave(n)
      <3>1. /\ Len(calls) \in DOMAIN calls /\ DOMAIN calls = 1 .. Len(calls)
            /\ Len(calls) \in Nat /\ n = calls[Len(calls)].node
        BY <1>1, <2>2, TopFrame DEF Leave, Leaving, Top
      <3>2. ASSUME NEW o \in Open, o # n
            PROVE  o < n /\ ast[n].last <= ast[o].last
        <4>1. PICK i \in DOMAIN calls : o = calls[i].node
          BY <1>1, <3>2, OpenNodes
        <4>2. i < Len(calls)
          BY <3>1, <3>2, <4>1
        <4> QED
          BY <3>1, <4>1, <4>2 DEF InDocument, Nested
      <3> QED
        BY <1>1, <2>2, <3>2, LeaveInDocument
    <2> QED
      BY <2>1, <2>2
  <1>3. ASSUME NEW m \in DOMAIN ast, ast[m].kind \in CompiledKind
        PROVE  m \in Emitted <=> Scheme!Precedes(m, n)
    <2>1. m \in Nat /\ m >= 1 /\ ast[m].last \in Nat /\ m <= ast[m].last
      BY <1>1, NodeType DEF WalkTypeOK
    <2>2. CASE ast[m].kind = "Block"
      <3>1. m \in Emitted <=> m <= ast[n].last
        <4>1. m # n
          BY <2>2
        <4> QED
          BY <1>1, <1>2, <1>3, <2>1, <2>2, <4>1, EmittedNow
      <3> QED
        BY <2>2, <3>1 DEF Scheme!Precedes, Scheme!AtOpening
    <2>3. CASE ast[m].kind # "Block"
      <3>1. ASSUME ClosesBefore(ast, m, n)
            PROVE  Behind(m)
        <4>1. m # n
          BY <1>1, <3>1 DEF ClosesBefore
        <4>2. m \notin Open
          BY <1>1, <1>2, <2>1, <3>1, <4>1 DEF ClosesBefore
        <4>3. m <= Len(trace)
          BY <1>1, <1>2, <2>1, <3>1 DEF ClosesBefore
        <4> QED
          BY <1>1, <2>1, <4>2, <4>3 DEF Behind
      <3>2. Behind(m) <=> ClosesBefore(ast, m, n)
        BY <3>1, BehindCloses
      <3> QED
        BY <1>1, <1>3, <2>3, <3>2, EmittedNow, TranslatedNames
           DEF Scheme!Precedes, Scheme!AtOpening
    <2> QED
      BY <2>2, <2>3
  <1> QED
    BY <1>3, TranslatedNodes, TranslatedNames DEF Scheme!IsNext

(***************************************************************************)
(* An instruction that is appended is translated, provided it says of the  *)
(* node what Translation says.                                             *)
(***************************************************************************)
LEMMA InstructionAdded ==
    ASSUME TypeOK, TypeOK', NEW op, NEW n, NEW t, NEW args, NEW slots,
           Emit(op, n, t, args, slots)
    PROVE  /\ Scheme!Adds(n, op, [a \in DOMAIN args |-> args[a].from], slots)
           /\ Len(block') \in DOMAIN block'
           /\ block'[Len(block')] = [op |-> op, from |-> n, type |-> t,
                                     args |-> args, slots |-> slots]
  <1> DEFINE i == [op |-> op, from |-> n, type |-> t, args |-> args, slots |-> slots]
  <1>1. block' = Append(block, i)
    BY DEF Emit
  <1>2. Abstracted(i) = [node |-> n, op |-> op, slots |-> slots,
                         args |-> [a \in DOMAIN args |-> args[a].from]]
    BY DEF Abstracted
  <1> HIDE DEF i
  <1>3. i \in Instruction
    BY <1>1, AppendedInstruction
  <1>4. AbstractCode' = AbstractCode \cup {Abstracted(i)}
    BY <1>1, <1>3, TranslatedGrows DEF TypeOK
  <1>5. Len(block') = Len(block) + 1 /\ Len(block) + 1 \in DOMAIN block'
        /\ block'[Len(block) + 1] = i
    BY <1>1, <1>3, Extended DEF TypeOK
  <1>6. Abstracted(i) = [node |-> n, op |-> op,
                         args |-> [a \in DOMAIN args |-> args[a].from], slots |-> slots]
    BY <1>2
  <1>7. Scheme!Adds(n, op, [a \in DOMAIN args |-> args[a].from], slots)
    BY <1>4, <1>6 DEF Scheme!Adds, AbstractCode
  <1> QED
    BY <1>5, <1>7 DEF i

LEMMA NothingTaken == [a \in DOMAIN <<>> |-> <<>>[a].from] = <<>>
  OBVIOUS

(***************************************************************************)
(* What is proved of the states of a compilation, and used here of the     *)
(* state before a step and of the state after it.                          *)
(***************************************************************************)
Surely == TypeOK /\ InDocument /\ LeftBehind /\ OperandsInPlace /\ CodeInv

Gained == TypeOK /\ OwnOperands /\ LexicalScoping /\ SsaCode /\ NoUndefinedBehaviour

LEMMA PromiseStays ==
    ASSUME ast' = ast
    PROVE  Promised' = Promised
  <1>1. Promised \in BOOLEAN /\ Promised' \in BOOLEAN
    BY DEF Promised, ValueOperands, OperandsIn, NothingLacks
  <1>2. Promised' <=> Promised
    BY Zenon DEF Promised, ValueOperands, OperandsIn, NothingLacks
  <1> QED
    BY <1>1, <1>2

(***************************************************************************)
(* What the last instruction takes and addresses, by the invariants.       *)
(***************************************************************************)
LEMMA KidsAdded ==
    ASSUME Surely, Gained', Promised, ast' = ast,
           NEW n \in DOMAIN ast, ast[n].kind \in OperatorKind,
           NEW op, NEW t, NEW args, NEW slots, Emit(op, n, t, args, slots)
    PROVE  Scheme!Adds(n, op, ast[n].kids, slots)
  <1> DEFINE i == [op |-> op, from |-> n, type |-> t, args |-> args, slots |-> slots]
  <1>1. /\ Scheme!Adds(n, op, [a \in DOMAIN args |-> args[a].from], slots)
        /\ Len(block') \in DOMAIN block' /\ block'[Len(block')] = i
    BY InstructionAdded DEF Surely, Gained
  <1>2. ValueOperands' /\ OwnOperands'
    BY PromiseStays DEF Gained, Promised
  <1>3. i.from = n /\ i.args = args
    OBVIOUS
  <1> HIDE DEF i
  <1>4. [a \in DOMAIN i.args |-> i.args[a].from] = ast[n].kids
    BY <1>1, <1>2, <1>3 DEF OwnOperands
  <1> QED
    BY <1>1, <1>3, <1>4

LEMMA SlotAdded ==
    ASSUME Surely, Gained', ast' = ast, NEW n \in DOMAIN ast,
           NEW op, op \in {"load", "store"}, NEW t, NEW args, NEW slots,
           Emit(op, n, t, args, slots), NEW kids, Scheme!Adds(n, op, kids, slots)
    PROVE  Scheme!AddsAccess(n, op, kids)
  <1> DEFINE i == [op |-> op, from |-> n, type |-> t, args |-> args, slots |-> slots]
  <1>1. /\ Scheme!Adds(n, op, [a \in DOMAIN args |-> args[a].from], slots)
        /\ Len(block') \in DOMAIN block' /\ block'[Len(block')] = i
    BY InstructionAdded DEF Surely, Gained
  <1>2. i.from = n /\ i.op = op /\ i.slots = slots
    OBVIOUS
  <1> HIDE DEF i
  <1>3. \E b \in DOMAIN ast' : /\ Binds(ast', n, ast'[n].name, b)
                              /\ slots = {[block |-> b, name |-> ast'[n].name]}
    <2>1. \A k \in DOMAIN block' :
             block'[k].op \in {"load", "store"} => BoundSlot(block[k])'
      BY DEF Gained, LexicalScoping
    <2>2. BoundSlot(block[Len(block)])'
      BY <1>1, <1>2, <2>1
    <2>3. block[Len(block)]' = i
      BY <1>1
    <2> QED
      BY <1>2, <2>2, <2>3 DEF BoundSlot
  <1>4. PICK b \in DOMAIN ast : /\ Binds(ast, n, ast[n].name, b)
                                /\ slots = {[block |-> b, name |-> ast[n].name]}
    BY <1>3
  <1> QED
    BY <1>4, TranslatedNames DEF Scheme!AddsAccess

LEMMA BlockTranslated ==
    ASSUME Surely, TypeOK', NEW n \in DOMAIN ast, VisitingBlock(n)
    PROVE  Scheme!Translate(n)
  <1>1. /\ Enter(n) /\ ast[n].kind = "Block" /\ Allocate(n, DOMAIN ast[n].scope)
        /\ outcome = "walking" /\ UNCHANGED <<ast, outcome>>
    BY DEF VisitingBlock, Enter, Calling
  <1>2. Scheme!IsNext(n)
    BY <1>1, BlockIsNext DEF Surely
  <1>3. Scheme!Adds(n, "alloca", <<>>,
                    {[block |-> n, name |-> x] : x \in DOMAIN ast[n].scope})
    <2> DEFINE slots == {[block |-> n, name |-> x] : x \in DOMAIN ast[n].scope}
    <2>1. Emit("alloca", n, "void", <<>>, slots)
      BY <1>1 DEF Allocate
    <2> HIDE DEF slots
    <2>2. Scheme!Adds(n, "alloca", [a \in DOMAIN <<>> |-> <<>>[a].from], slots)
      <3>1. TypeOK
        BY DEF Surely
      <3> QED
        BY <2>1, <3>1, InstructionAdded, ZenonT(30)
    <2>3. Scheme!Adds(n, "alloca", <<>>, slots)
      BY <2>2, NothingTaken
    <2> QED
      BY <2>3 DEF slots
  <1> QED
    BY <1>1, <1>2, <1>3, PromiseStays DEF Scheme!Translate

LEMMA RefTranslated ==
    ASSUME Surely, Gained', NEW n \in DOMAIN ast, VisitVariableRef(n)
    PROVE  Scheme!Translate(n)
  <1>1. /\ VisitLeaf(n) /\ ast[n].kind = "VariableRef"
        /\ outcome = "walking" /\ UNCHANGED <<ast, outcome>>
    BY DEF VisitVariableRef, VisitLeaf, Calling
  <1>2. Scheme!IsNext(n)
    BY <1>1, ClosingIsNext, KindsApart DEF Surely, Gained
  <1>3. PICK t, slots : Emit("load", n, t, <<>>, slots)
    BY DEF VisitVariableRef
  <1>4. Scheme!Adds(n, "load", [a \in DOMAIN <<>> |-> <<>>[a].from], slots)
    <2>1. TypeOK /\ TypeOK'
      BY DEF Surely, Gained
    <2> QED
      BY <1>3, <2>1, InstructionAdded, ZenonT(30)
  <1>5. Scheme!AddsAccess(n, "load", <<>>)
    BY <1>1, <1>3, <1>4, NothingTaken, SlotAdded DEF Surely, Gained
  <1> QED
    BY <1>1, <1>2, <1>5, PromiseStays DEF Scheme!Translate

LEMMA AssignTranslated ==
    ASSUME Surely, Gained', Promised, NEW n \in DOMAIN ast, VisitedAssignVariable(n)
    PROVE  Scheme!Translate(n)
  <1>1. /\ Leave(n) /\ ast[n].kind = "AssignVariable"
        /\ outcome = "walking" /\ UNCHANGED <<ast, outcome>>
    BY DEF VisitedAssignVariable, Leave, Leaving
  <1>2. ast[n].kind \in OperatorKind
    BY <1>1 DEF OperatorKind
  <1>3. Scheme!IsNext(n)
    BY <1>1, <1>2, ClosingIsNext, KindsApart DEF Surely, Gained
  <1>4. PICK args, slots : Emit("store", n, "void", args, slots)
    BY DEF VisitedAssignVariable
  <1>5. Scheme!Adds(n, "store", ast[n].kids, slots)
    BY <1>1, <1>2, <1>4, KidsAdded
  <1>6. Scheme!AddsAccess(n, "store", ast[n].kids)
    BY <1>1, <1>4, <1>5, SlotAdded DEF Surely, Gained
  <1> QED
    BY <1>1, <1>3, <1>6, PromiseStays DEF Scheme!Translate

LEMMA ReturnTranslated ==
    ASSUME Surely, Gained', Promised, NEW n \in DOMAIN ast, VisitedReturn(n)
    PROVE  Scheme!Translate(n)
  <1>1. /\ Leave(n) /\ ast[n].kind = "Return" /\ ast[n].kind \in OperatorKind
        /\ outcome = "walking" /\ UNCHANGED <<ast, outcome>>
        /\ Emit("ret", n, "void", <<TopValue(0)>>, {})
    BY DEF VisitedReturn, Leave, Leaving, OperatorKind
  <1>2. Scheme!IsNext(n)
    BY <1>1, ClosingIsNext, KindsApart DEF Surely, Gained
  <1>3. Scheme!Adds(n, "ret", ast[n].kids, {})
    BY <1>1, KidsAdded
  <1> QED
    BY <1>1, <1>2, <1>3, PromiseStays DEF Scheme!Translate

LEMMA BinaryTranslated ==
    ASSUME Surely, Gained', Promised, NEW n \in DOMAIN ast, VisitedBinary(n)
    PROVE  Scheme!Translate(n)
  <1> DEFINE op == OpcodeFor(ast[n].dataType, ast[n].operation)
  <1>1. /\ Leave(n) /\ ast[n].kind = "Binary" /\ ast[n].kind \in OperatorKind
        /\ outcome = "walking" /\ UNCHANGED <<ast, outcome>>
        /\ ast[n].dataType \in Arithmetic /\ SameTypes(n)
    BY DEF VisitedBinary, Leave, Leaving, OperatorKind
  <1>2. Scheme!IsNext(n)
    BY <1>1, ClosingIsNext, KindsApart DEF Surely, Gained
  <1>3. Scheme!Adds(n, op, ast[n].kids, {})
    <2>1. PICK t, args : Emit(op, n, t, args, {})
      BY DEF VisitedBinary
    <2> HIDE DEF op
    <2> QED
      BY <1>1, <2>1, KidsAdded
  <1>4. /\ ast[n].dataType \in DOMAIN Scheme!OpcodeOf
        /\ op = Scheme!OpcodeOf[ast[n].dataType][ast[n].operation]
    <2>1. ast[n].operation \in OperationKind
      BY NodeFields DEF Surely, TypeOK
    <2> QED
      BY <1>1, <2>1 DEF Scheme!OpcodeOf, OpcodeFor, OperationKind, Arithmetic
  <1>5. \A i \in DOMAIN ast[n].kids :
           Scheme!TypeAt(ast, ast[n].kids[i]) = ast[n].dataType
    <2>1. /\ Len(ast[n].kids) = 2 /\ DOMAIN ast[n].kids = 1 .. Len(ast[n].kids)
          /\ ast[n].dataType = TypeAt(ast, ast[n].kids[2])
      BY <1>1, NodeType DEF Surely, TypeOK, WalkTypeOK, IsTree, Members, DataTypeRule
    <2>2. \A i \in DOMAIN ast[n].kids : i = 1 \/ i = 2
      BY <2>1
    <2>3. \A k : Scheme!TypeAt(ast, k) = TypeAt(ast, k)
      BY DEF Scheme!TypeAt, TypeAt, Scheme!Null, Null, Scheme!Undefined, Undefined
    <2> QED
      BY <1>1, <2>1, <2>2, <2>3 DEF SameTypes
  <1>6. Scheme!AddsOperation(n)
    BY <1>3, <1>4, <1>5 DEF Scheme!AddsOperation
  <1> QED
    BY <1>1, <1>2, <1>6, PromiseStays DEF Scheme!Translate

(***************************************************************************)
(* Before its only Function nothing has been compiled.                     *)
(***************************************************************************)
LEMMA FunctionIsEmpty ==
    ASSUME Surely, OneFunction, outcome = "walking", NEW n \in DOMAIN ast,
           VisitingFunction(n)
    PROVE  block = <<>>
  <1>1. /\ Calling /\ n = Argument /\ Argument # Null /\ ast[n].kind = "Function"
        /\ TypeOK /\ WalkTypeOK /\ EmittedSeen /\ InFunction
    BY DEF VisitingFunction, Enter, Surely, TypeOK, CodeInv
  <1>2. n = Len(trace) + 1 /\ Len(trace) \in Nat /\ n <= Len(ast) /\ Len(ast) \in Nat
        /\ DOMAIN ast = 1 .. Len(ast)
    BY <1>1, NextNode DEF Surely, WalkTypeOK, IsTree
  <1>3. ast[Root].kind = "Module"
    <2>1. Root \in DOMAIN ast
      BY <1>1, EmptySeq DEF WalkTypeOK, IsTree, Root
    <2> QED
      BY <1>1, <2>1 DEF WalkTypeOK, IsTree, Members
  <1>4. ASSUME NEW m \in Emitted
        PROVE  FALSE
    <2>1. m \in 1 .. Len(trace) /\ ast[m].kind \in CompiledKind
      BY <1>1 DEF EmittedSeen
    <2>2. PICK f \in 1 .. m : ast[f].kind = "Function"
      BY <1>1, <1>3, <2>1, KindsApart DEF InFunction
    <2>3. f \in DOMAIN ast /\ f # n
      BY <1>2, <2>1
    <2> QED
      BY <1>1, <2>2, <2>3 DEF OneFunction
  <1>5. block \in Seq(Instruction) /\ DOMAIN block = {}
    BY <1>1, <1>4 DEF Emitted, TypeOK
  <1> QED
    BY <1>5, EmptySeq

(***************************************************************************)
(* A step that fails, and one that only moves values or scopes.            *)
(***************************************************************************)
LEMMA FailureThrows ==
    ASSUME Gained', Promised, ast' = ast, outcome = "walking", outcome' \in Failure
    PROVE  Scheme!Throw
  <1>1. Promised' = Promised
    BY PromiseStays
  <1>2. outcome' # Undefined
    <2>1. /\ OperandsIn(OperatorKind, ValueKind)'
          /\ OperandsIn(OperatorKind \ {"Return"}, ValueKind)'
          /\ NothingLacks'
      BY <1>1 DEF Promised, ValueOperands, OperandsIn
    <2> QED
      BY <2>1 DEF Gained, NoUndefinedBehaviour
  <1> QED
    BY <1>1, <1>2, FailureEnds DEF Scheme!Throw, Scheme!Undefined, Undefined

LEMMA NothingTranslated ==
    ASSUME ast' = ast, block' = block, outcome' = outcome
    PROVE  UNCHANGED Scheme!vars
  <1>1. AbstractCode' = AbstractCode
    BY DEF AbstractCode, Abstracted
  <1> QED
    BY <1>1, PromiseStays DEF Scheme!vars, AbstractCode

LEMMA VisitingTranslates ==
    ASSUME Surely, OneFunction, Gained', Promised, outcome = "walking",
           NEW n \in DOMAIN ast, Visiting(n)
    PROVE  [Scheme!Next]_(Scheme!vars)
  <1>1. CASE VisitingBlock(n)
    BY <1>1, BlockTranslated DEF Gained, Scheme!Next
  <1>2. CASE VisitVariableRef(n)
    BY <1>2, RefTranslated DEF Scheme!Next
  <1>3. CASE VisitingFunction(n)
    <2>1. ast' = ast /\ block' = block /\ outcome' = outcome
      BY <1>3, FunctionIsEmpty DEF VisitingFunction, Enter
    <2> QED
      BY <2>1, NothingTranslated
  <1>4. CASE VisitingModule(n) \/ VisitingOther(n) \/ VisitLiteral(n)
    <2>1. ast' = ast /\ block' = block /\ outcome' = outcome
      BY <1>4 DEF VisitingModule, VisitingOther, VisitLiteral, Enter, VisitLeaf
    <2> QED
      BY <2>1, NothingTranslated
  <1>5. CASE VisitingFunctionThrows(n) \/ VisitingBlockThrows(n) \/ VisitingBlockRepeats(n)
             \/ VisitVariableRefThrows(n) \/ VisitingUndefined(n)
    <2>1. ast' = ast /\ outcome' \in Failure
      BY <1>5, FailureNames
         DEF VisitingFunctionThrows, VisitingBlockThrows, VisitingBlockRepeats,
             VisitVariableRefThrows, VisitingUndefined, FailEntering, Fail
    <2> QED
      BY <2>1, FailureThrows DEF Scheme!Next
  <1> QED
    BY <1>1, <1>2, <1>3, <1>4, <1>5 DEF Visiting

LEMMA VisitedTranslates ==
    ASSUME Surely, Gained', Promised, outcome = "walking",
           NEW n \in DOMAIN ast, Visited(n)
    PROVE  [Scheme!Next]_(Scheme!vars)
  <1>1. CASE VisitedAssignVariable(n) \/ VisitedBinary(n) \/ VisitedReturn(n)
    BY <1>1, AssignTranslated, BinaryTranslated, ReturnTranslated DEF Scheme!Next
  <1>2. CASE VisitedModule(n) \/ VisitedBlock(n) \/ VisitedOther(n)
    <2>1. ast' = ast /\ block' = block /\ outcome' = outcome
      BY <1>2 DEF VisitedModule, VisitedBlock, VisitedOther, Leave
    <2> QED
      BY <2>1, NothingTranslated
  <1>3. CASE VisitedModuleAsserts(n) \/ VisitedAssignVariableThrows(n)
             \/ VisitedBinaryMismatch(n) \/ VisitedBinaryThrows(n)
             \/ VisitedReturnAsserts(n) \/ VisitedUndefined(n)
    <2>1. ast' = ast /\ outcome' \in Failure
      BY <1>3, FailureNames
         DEF VisitedModuleAsserts, VisitedAssignVariableThrows, VisitedBinaryMismatch,
             VisitedBinaryThrows, VisitedReturnAsserts, VisitedUndefined, FailLeaving, Fail
    <2> QED
      BY <2>1, FailureThrows DEF Scheme!Next
  <1> QED
    BY <1>1, <1>2, <1>3 DEF Visited

LEMMA TranslationStep ==
    Surely /\ OneFunction /\ Gained' /\ [Next]_vars => [Scheme!Next]_(Scheme!vars)
  <1> SUFFICES ASSUME Surely, OneFunction, Gained', [Next]_vars
               PROVE  [Scheme!Next]_(Scheme!vars)
    OBVIOUS
  <1>1. CASE ~Promised
    BY <1>1 DEF Scheme!Next
  <1>2. CASE Promised /\ Next
    <2>1. outcome = "walking"
      BY <1>2, WalkingStep
    <2>2. ASSUME NEW n \in DOMAIN ast, Visiting(n) \/ Visited(n)
          PROVE  [Scheme!Next]_(Scheme!vars)
      BY <1>2, <2>1, <2>2, VisitingTranslates, VisitedTranslates
    <2>3. CASE SkipBranch /\ UNCHANGED visitorVars
      BY <2>3, NothingTranslated DEF SkipBranch, visitorVars
    <2>4. CASE NullChild \/ UnhandledKind
      <3>1. ast' = ast /\ outcome' \in Failure
        BY <2>4 DEF NullChild, UnhandledKind, Fail, Failure, Exception
      <3> QED
        BY <1>2, <2>1, <3>1, FailureThrows DEF Scheme!Next
    <2>5. CASE CleanUp /\ UNCHANGED visitorVars
      <3>1. /\ ast' = ast /\ block' = block /\ outcome' = "done"
            /\ AbstractCode' = AbstractCode /\ Promised' = Promised
        BY <2>5, PromiseStays DEF CleanUp, visitorVars, AbstractCode, Abstracted
      <3>2. \A n \in DOMAIN ast : ast[n].kind \in CompiledKind => n \in Emitted
        <4>1. AllCompiled'
          BY DEF Gained, SsaCode
        <4>2. {n \in DOMAIN ast : ast[n].kind \in CompiledKind} \subseteq Emitted
          BY <3>1, <4>1 DEF AllCompiled, Emitted
        <4> QED
          BY <4>2
      <3>3. Scheme!Finish
        BY <2>1, <3>1, <3>2, TranslatedNodes, TranslatedNames DEF Scheme!Finish, AbstractCode
      <3> QED
        BY <3>3 DEF Scheme!Next
    <2> QED
      BY <1>2, <2>2, <2>3, <2>4, <2>5 DEF Next, WalkerAlone
  <1>3. CASE UNCHANGED vars
    BY <1>3, NothingTranslated DEF vars, walkerVars, visitorVars
  <1> QED
    BY <1>1, <1>2, <1>3

LEMMA TranslationInit == Init => Scheme!Init
  <1> SUFFICES ASSUME Init
               PROVE  Scheme!Init
    OBVIOUS
  <1>1. IsTree(ast) /\ block = <<>> /\ outcome = "walking"
    BY ProgramsAssumption DEF Init, WalkInit
  <1>2. AbstractCode = {}
    BY <1>1 DEF AbstractCode
  <1>3. Promised \in BOOLEAN
    BY DEF Promised, ValueOperands, OperandsIn, NothingLacks
  <1> QED
    BY <1>1, <1>2, <1>3, TranslatedTrees DEF Scheme!Init, AbstractCode

(***************************************************************************)
(* The code generator implements a translation of the tree: for every tree *)
(* whose operations have operands that leave a value and whose nodes have  *)
(* their Variables and Scopes, each step appends the one instruction whose *)
(* turn it is, as it can be read off the tree, and compilation ends when   *)
(* none is missing, or with an exception.                                  *)
(***************************************************************************)
THEOREM CompilationTranslates == Safety => TranslationSpec
  <1>1. Safety => []Gained
    <2>1. TypeOK /\ OwnOperands /\ LexicalScoping /\ SsaCode /\ NoUndefinedBehaviour
            => Gained
      BY DEF Gained
    <2> QED
      BY <2>1, TypeCorrect, OperandsAreOwn, ScopingIsLexical, CodeIsSsa,
         BehaviourIsDefined, PTL
  <1>2. Safety => [](Surely /\ OneFunction)
    <2>1. TypeOK /\ InDocument /\ LeftBehind /\ OperandsInPlace /\ CodeInv => Surely
      BY DEF Surely
    <2> QED
      BY <2>1, TypeCorrect, CompilationStaysInDocument, OperandsAreInPlace, CodeInvariant, PTL
  <1> QED
    BY <1>1, <1>2, TranslationInit, TranslationStep, PTL
       DEF Safety, TranslationSpec, Scheme!Spec

=============================================================================
