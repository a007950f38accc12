---------------------------- MODULE RunnerProofs ----------------------------
(***************************************************************************)
(* Proofs about a call of compile, runInt32Expr or runFloatExpr, for every *)
(* set of expressions and every width of an int: the function is called    *)
(* through a pointer of its own type, its code has a meaning on the trees  *)
(* that are promised one, executing it evaluates the tree, and the values  *)
(* computed are those the tree means.                                      *)
(***************************************************************************)
EXTENDS ExprRunner, CodeProofs, ErrorProofs

-----------------------------------------------------------------------------
(* A call compiles                                                         *)

LEMMA StepCompiles == [RunnerNext]_runnerVars => [Next]_vars
  BY DEF RunnerNext, runnerVars, Initialize, Refuse, ReadsNoType, NoTarget, Begin, CallGoesOn,
         Compile,
         CompileFails, CompileReturns, Link, Execute, Ends, Call, RunAlloca, RunStore, RunLoad,
         RunOperation, RunTrap, RunRet, Advance

(***************************************************************************)
(* What a call does to the code generator is a compilation, so all that is *)
(* proved of compilations holds during calls.                              *)
(***************************************************************************)
THEOREM CallCompiles == RunnerSafety => Safety
  <1>1. RunnerInit => Init
    BY DEF RunnerInit
  <1> QED
    BY <1>1, StepCompiles, PTL DEF RunnerSafety, Safety

-----------------------------------------------------------------------------
(* The order of the instructions                                           *)

(***************************************************************************)
(* What an instruction is, by the kind of its node.                        *)
(***************************************************************************)
Shaped(i) ==
    LET node == ast[i.from] IN
    /\ i.from \in DOMAIN ast
    /\ \/ /\ i.op = "alloca" /\ node.kind = "Block"
          /\ \A s \in i.slots : s.block = i.from /\ s.name \in DOMAIN node.scope
       \/ i.op = "load"  /\ node.kind = "VariableRef"
       \/ i.op = "store" /\ node.kind = "AssignVariable"
       \/ i.op = "ret"   /\ node.kind = "Return"
       \/ /\ node.kind = "Binary" /\ node.dataType \in Arithmetic
          /\ i.op = OpcodeFor(node.dataType, node.operation)

CodeShaped == \A k \in DOMAIN block : Shaped(block[k])

(***************************************************************************)
(* But for allocas, instructions are in the order in which nodes close.    *)
(***************************************************************************)
InOrder ==
    \A j, k \in DOMAIN block :
       j < k /\ block[j].op # "alloca" /\ block[k].op # "alloca"
          => ClosesBefore(ast, block[j].from, block[k].from)

(***************************************************************************)
(* A Return at the end of the tree is compiled last: the walk has visited  *)
(* all nodes, and leaves no operation any more.                            *)
(***************************************************************************)
RetLast ==
    Runnable =>
       \A k \in DOMAIN block : block[k].op = "ret" =>
          /\ k = Len(block)
          /\ Len(trace) = Len(ast)
          /\ \A o \in Open : ast[o].kind \notin OperatorKind

OrderInv == CodeShaped /\ InOrder /\ RetLast

LEMMA SameShape ==
    ast' = ast => /\ \A i : Shaped(i)' <=> Shaped(i)
                  /\ Runnable' <=> Runnable
                  /\ \A m, n : ClosesBefore(ast, m, n)' <=> ClosesBefore(ast, m, n)
  <1> SUFFICES ASSUME ast' = ast
               PROVE  /\ \A i : Shaped(i)' <=> Shaped(i)
                      /\ Runnable' <=> Runnable
                      /\ \A m, n : ClosesBefore(ast, m, n)' <=> ClosesBefore(ast, m, n)
    OBVIOUS
  <1>1. \A i : Shaped(i)' <=> Shaped(i)
    BY Zenon DEF Shaped
  <1>2. EndsInReturn' <=> EndsInReturn
    BY Zenon DEF EndsInReturn
  <1>3. Straight' <=> Straight
    BY Zenon DEF Straight
  <1>4. \A m, n : ClosesBefore(ast, m, n)' <=> ClosesBefore(ast, m, n)
    BY Zenon DEF ClosesBefore
  <1>5. NothingLacks' <=> NothingLacks
    BY Zenon DEF NothingLacks
  <1>6. TypeOfExpr(ast)' = TypeOfExpr(ast)
    BY DEF TypeOfExpr
  <1> QED
    BY <1>1, <1>2, <1>3, <1>4, <1>5, <1>6, SameTyped DEF Runnable

(***************************************************************************)
(* What each handler appends.                                              *)
(***************************************************************************)
LEMMA VisitingShapes ==
    ASSUME TypeOK, TypeOK', NEW n \in DOMAIN ast, Visiting(n)
    PROVE  /\ ast' = ast /\ Calling /\ n = Argument /\ n # Null
           /\ \/ block' = block \/ block' = <<>>
              \/ \E i \in Instruction :
                    /\ block' = Append(block, i) /\ i.from = n /\ Shaped(i)
                    /\ i.op = "alloca" \/ VisitLeaf(n)
  <1>1. ASSUME NEW S, S \subseteq DOMAIN ast[n].scope, Allocate(n, S), ast[n].kind = "Block"
        PROVE  \E i \in Instruction : /\ block' = Append(block, i) /\ i.from = n /\ Shaped(i)
                                      /\ i.op = "alloca"
    <2> DEFINE i == [op |-> "alloca", from |-> n, type |-> "void", args |-> <<>>,
                     slots |-> {[block |-> n, name |-> x] : x \in S}]
    <2>1. block' = Append(block, i)
      BY <1>1 DEF Allocate, Emit
    <2>2. /\ i.from = n /\ i.op = "alloca"
          /\ \A s \in i.slots : s.block = n /\ s.name \in S
      OBVIOUS
    <2> HIDE DEF i
    <2>3. Shaped(i)
      BY <1>1, <2>2 DEF Shaped
    <2> QED
      BY <2>1, <2>2, <2>3, AppendedInstruction
  <1>2. CASE VisitingBlock(n) \/ VisitingBlockThrows(n) \/ VisitingBlockRepeats(n)
    <2>1. /\ ast' = ast /\ Calling /\ n = Argument /\ n # Null /\ ast[n].kind = "Block"
          /\ \E S : S \subseteq DOMAIN ast[n].scope /\ Allocate(n, S)
      BY <1>2 DEF VisitingBlock, VisitingBlockThrows, VisitingBlockRepeats, Enter, FailEntering,
                  Fail, Allocatable
    <2> QED
      BY <1>1, <2>1
  <1>3. CASE VisitVariableRef(n)
    <2>1. PICK t, slots : Emit("load", n, t, <<>>, slots)
      BY <1>3 DEF VisitVariableRef
    <2> DEFINE i == [op |-> "load", from |-> n, type |-> t, args |-> <<>>, slots |-> slots]
    <2>2. VisitLeaf(n) /\ ast[n].kind = "VariableRef"
      BY <1>3 DEF VisitVariableRef
    <2>3. block' = Append(block, i) /\ i.from = n /\ i.op = "load"
      BY <2>1 DEF Emit
    <2> HIDE DEF i
    <2>4. Shaped(i) /\ i \in Instruction
      BY <2>2, <2>3, AppendedInstruction DEF Shaped
    <2> QED
      BY <2>2, <2>3, <2>4 DEF VisitLeaf
  <1>4. CASE VisitingModule(n) \/ VisitingFunction(n) \/ VisitingFunctionThrows(n)
             \/ VisitingOther(n) \/ VisitLiteral(n) \/ VisitVariableRefThrows(n)
             \/ VisitingUndefined(n)
    BY <1>4 DEF VisitingModule, VisitingFunction, VisitingFunctionThrows, VisitingOther,
                VisitLiteral, VisitVariableRefThrows, VisitingUndefined, Enter, VisitLeaf,
                FailEntering, Fail
  <1> QED
    BY <1>2, <1>3, <1>4 DEF Visiting

LEMMA VisitedShapes ==
    ASSUME TypeOK, TypeOK', NEW n \in DOMAIN ast, Visited(n)
    PROVE  /\ ast' = ast /\ trace' = trace
           /\ \/ block' = block /\ Leave(n)
              \/ block' = block /\ calls' = <<>>
              \/ /\ Leave(n) /\ ast[n].kind \in OperatorKind
                 /\ \E i \in Instruction :
                       block' = Append(block, i) /\ i.from = n /\ Shaped(i)
  <1>1. ASSUME NEW op, NEW t, NEW args, NEW slots, Emit(op, n, t, args, slots), Leave(n),
               \/ op = "store" /\ ast[n].kind = "AssignVariable"
               \/ op = "ret" /\ ast[n].kind = "Return"
               \/ /\ ast[n].kind = "Binary" /\ ast[n].dataType \in Arithmetic
                  /\ op = OpcodeFor(ast[n].dataType, ast[n].operation)
        PROVE  /\ ast' = ast /\ trace' = trace
               /\ Leave(n) /\ ast[n].kind \in OperatorKind
               /\ \E i \in Instruction :
                     block' = Append(block, i) /\ i.from = n /\ Shaped(i)
    <2> DEFINE i == [op |-> op, from |-> n, type |-> t, args |-> args, slots |-> slots]
    <2>1. block' = Append(block, i) /\ i.from = n /\ i.op = op
      BY <1>1 DEF Emit
    <2> HIDE DEF i
    <2>2. Shaped(i) /\ i \in Instruction
      BY <1>1, <2>1, AppendedInstruction DEF Shaped
    <2> QED
      BY <1>1, <2>1, <2>2 DEF Leave, OperatorKind
  <1>2. CASE VisitedAssignVariable(n)
    <2>1. \E slots : Emit("store", n, "void", <<TopValue(0)>>, slots)
      BY <1>2 DEF VisitedAssignVariable
    <2> QED
      BY <1>1, <1>2, <2>1 DEF VisitedAssignVariable
  <1>3. CASE VisitedReturn(n)
    BY <1>1, <1>3 DEF VisitedReturn
  <1>4. CASE VisitedBinary(n)
    BY <1>1, <1>4 DEF VisitedBinary
  <1>5. CASE VisitedModule(n) \/ VisitedBlock(n) \/ VisitedOther(n)
    BY <1>5 DEF VisitedModule, VisitedBlock, VisitedOther, Leave
  <1>6. CASE VisitedModuleAsserts(n) \/ VisitedAssignVariableThrows(n)
             \/ VisitedBinaryMismatch(n) \/ VisitedBinaryThrows(n)
             \/ VisitedReturnAsserts(n) \/ VisitedUndefined(n)
    BY <1>6 DEF VisitedModuleAsserts, VisitedAssignVariableThrows, VisitedBinaryMismatch,
                VisitedBinaryThrows, VisitedReturnAsserts, VisitedUndefined, FailLeaving,
                Fail, visitorVars
  <1> QED
    BY <1>2, <1>3, <1>4, <1>5, <1>6 DEF Visited

(***************************************************************************)
(* A node that is not an operand has no open operation around it when it   *)
(* is left.                                                                *)
(***************************************************************************)
LEMMA NoOperationAround ==
    ASSUME TypeOK, InDocument, OperandsInPlace, OperandsIn(OperatorKind, ValueKind),
           NEW n \in DOMAIN ast, Leave(n), ast[n].kind \notin ValueKind,
           NEW o \in Open, o # n
    PROVE  ast[o].kind \notin OperatorKind
  <1> DEFINE L == Len(calls)
  <1>1. /\ WalkTypeOK /\ calls # <<>> /\ n = calls[L].node /\ L \in Nat
        /\ DOMAIN calls = 1 .. L
    BY DEF TypeOK, WalkTypeOK, Leave, Leaving, Top
  <1>2. PICK i \in DOMAIN calls : o = calls[i].node
    BY <1>1, OpenNodes
  <1>3. i \in 1 .. (L - 1) /\ L - 1 \in DOMAIN calls /\ i <= L - 1 /\ L - 1 < L
        /\ (L - 1) + 1 = L
    BY <1>1, <1>2
  <1>4. ASSUME ast[o].kind \in OperatorKind
        PROVE  FALSE
    <2> DEFINE p == calls[L - 1].node
               q == calls[L - 1].next
    <2>1. PlacedIn(OperatorKind)
      BY DEF OperandsInPlace
    <2>2. ast[p].kind \in OperatorKind
      BY <1>2, <1>3, <1>4, <2>1 DEF PlacedIn, CallKind
    <2>3. /\ p \in DOMAIN ast /\ q \in 1 .. (Len(ast[p].kids) + 1)
          /\ q <= Len(ast[p].kids) /\ ast[p].kids[q] = n
      <3>1. OnPath(L - 1)
        BY <1>3 DEF InDocument
      <3> HIDE DEF L
      <3> QED
        BY <1>1, <1>3, <3>1 DEF OnPath
    <2> HIDE DEF p, q
    <2>4. q \in DOMAIN ast[p].kids /\ n # Null
      BY <1>1, <2>3, NodeType, SMTT(30) DEF WalkTypeOK, Null
    <2>5. ast[n].kind \in ValueKind
      BY <2>2, <2>3, <2>4 DEF OperandsIn
    <2> QED
      BY <2>5
  <1> QED
    BY <1>4

(***************************************************************************)
(* Once the Return at the end of the tree is compiled, no node is entered. *)
(***************************************************************************)
LEMMA NoRetYet ==
    ASSUME TypeOK, InDocument, RetLast, Runnable, Calling, Argument # Null,
           NEW k \in DOMAIN block
    PROVE  block[k].op # "ret"
  <1>1. Argument = Len(trace) + 1 /\ Argument <= Len(ast) /\ Len(trace) \in Nat
        /\ Len(ast) \in Nat
    BY NextNode DEF TypeOK, WalkTypeOK, IsTree
  <1> QED
    BY <1>1 DEF RetLast

LEMMA RunnableOperands ==
    ASSUME Runnable
    PROVE  /\ OperandsIn(OperatorKind, ValueKind)
           /\ OperandsIn(OperatorKind \ {"Return"}, ValueKind)
  BY DEF Runnable, TypedTree, OperandsIn

(***************************************************************************)
(* An instruction is appended for the node that is closing.                *)
(***************************************************************************)
LEMMA OrderGrows ==
    ASSUME TypeOK, ast' = ast, CodeShaped, InOrder,
           NEW i \in Instruction, block' = Append(block, i), Shaped(i),
           i.op # "alloca" =>
              \A k \in DOMAIN block :
                 block[k].op # "alloca" => ClosesBefore(ast, block[k].from, i.from)
    PROVE  CodeShaped' /\ InOrder'
  <1> DEFINE L == Len(block)
  <1>1. block \in Seq(Instruction)
    BY DEF TypeOK
  <1>2. /\ DOMAIN block' = 1 .. (L + 1) /\ DOMAIN block = 1 .. L /\ L \in Nat
        /\ \A k \in 1 .. L : block'[k] = block[k]
        /\ block'[L + 1] = i
    BY <1>1, CodeGrows
  <1> HIDE DEF L
  <1>3. \A k \in 1 .. (L + 1) : Shaped(block'[k])
    <2>1. ASSUME NEW k \in 1 .. (L + 1)
          PROVE  Shaped(block'[k])
      <3>1. CASE k \in 1 .. L
        BY <1>2, <3>1 DEF CodeShaped
      <3>2. CASE k = L + 1
        BY <1>2, <3>2
      <3> QED
        BY <1>2, <3>1, <3>2
    <2> QED
      BY <2>1
  <1>4. CodeShaped'
    BY <1>2, <1>3, SameShape DEF CodeShaped
  <1>5. ASSUME NEW j \in 1 .. (L + 1), NEW k \in 1 .. (L + 1), j < k,
               block'[j].op # "alloca", block'[k].op # "alloca"
        PROVE  ClosesBefore(ast, block'[j].from, block'[k].from)
    <2>1. j \in 1 .. L
      BY <1>2, <1>5
    <2>2. CASE k \in 1 .. L
      BY <1>2, <1>5, <2>1, <2>2 DEF InOrder
    <2>3. CASE k = L + 1
      BY <1>2, <1>5, <2>1, <2>3
    <2> QED
      BY <1>2, <2>2, <2>3
  <1>6. InOrder'
    BY <1>2, <1>5, SameShape DEF InOrder
  <1> QED
    BY <1>4, <1>6

LEMMA OrderKept ==
    ASSUME ast' = ast, block' = block, CodeShaped, InOrder
    PROVE  CodeShaped' /\ InOrder'
  BY SameShape DEF CodeShaped, InOrder

(***************************************************************************)
(* Instructions so far, but for allocas, are of nodes behind the walk.     *)
(***************************************************************************)
LEMMA CompiledBehind ==
    ASSUME CodeInv, CodeShaped, outcome = "walking", NEW k \in DOMAIN block,
           block[k].op # "alloca"
    PROVE  Behind(block[k].from)
  <1>1. block[k].from \in Emitted
    BY DEF Emitted
  <1>2. ast[block[k].from].kind # "Block"
    BY DEF CodeShaped, Shaped, Arithmetic
  <1> QED
    BY <1>1, <1>2 DEF CodeInv, EmittedSeen, Behind

LEMMA OrderVisiting ==
    ASSUME TypeOK, TypeOK', InDocument, LeftBehind, CodeInv, OrderInv, outcome = "walking",
           NEW n \in DOMAIN ast, Visiting(n)
    PROVE  OrderInv'
  <1>1. /\ ast' = ast /\ Calling /\ n = Argument /\ n # Null
        /\ \/ block' = block \/ block' = <<>>
           \/ \E i \in Instruction :
                 /\ block' = Append(block, i) /\ i.from = n /\ Shaped(i)
                 /\ i.op = "alloca" \/ VisitLeaf(n)
    BY VisitingShapes
  <1>2. Runnable => \A k \in DOMAIN block : block[k].op # "ret"
    BY <1>1, NoRetYet DEF OrderInv
  <1>3. Runnable' <=> Runnable
    BY <1>1, SameShape
  <1>4. CASE block' = block
    BY <1>1, <1>2, <1>3, <1>4, OrderKept DEF OrderInv, RetLast
  <1>5. CASE block' = <<>>
    BY <1>5 DEF OrderInv, CodeShaped, InOrder, RetLast
  <1>6. CASE \E i \in Instruction :
                /\ block' = Append(block, i) /\ i.from = n /\ Shaped(i)
                /\ i.op = "alloca" \/ VisitLeaf(n)
    <2>1. PICK i \in Instruction :
             /\ block' = Append(block, i) /\ i.from = n /\ Shaped(i)
             /\ i.op = "alloca" \/ VisitLeaf(n)
      BY <1>6
    <2>2. i.op # "alloca" =>
             \A k \in DOMAIN block :
                block[k].op # "alloca" => ClosesBefore(ast, block[k].from, i.from)
      BY <2>1, CompiledBehind, BehindCloses DEF OrderInv
    <2>3. i.op # "ret"
      BY <2>1 DEF Shaped, VisitLeaf, LeafKind
    <2>4. /\ DOMAIN block' = 1 .. (Len(block) + 1) /\ DOMAIN block = 1 .. Len(block)
          /\ Len(block) \in Nat
          /\ \A k \in 1 .. Len(block) : block'[k] = block[k]
          /\ block'[Len(block) + 1] = i
      BY <1>1, <2>1, CodeGrows DEF TypeOK
    <2>5. Runnable => \A k \in DOMAIN block' : block'[k].op # "ret"
      BY <1>2, <2>3, <2>4
    <2> QED
      BY <1>1, <1>3, <2>1, <2>2, <2>5, OrderGrows DEF OrderInv, RetLast
  <1> QED
    BY <1>1, <1>4, <1>5, <1>6

LEMMA OrderVisited ==
    ASSUME TypeOK, TypeOK', InDocument, LeftBehind, OperandsInPlace, CodeInv, OrderInv,
           outcome = "walking", NEW n \in DOMAIN ast, Visited(n)
    PROVE  OrderInv'
  <1>1. /\ ast' = ast /\ trace' = trace
        /\ \/ block' = block /\ Leave(n)
           \/ block' = block /\ calls' = <<>>
           \/ /\ Leave(n) /\ ast[n].kind \in OperatorKind
              /\ \E i \in Instruction : block' = Append(block, i) /\ i.from = n /\ Shaped(i)
    BY VisitedShapes
  <1>2. Runnable' <=> Runnable
    BY <1>1, SameShape
  <1>3. Leave(n) => n \in Open /\ Open' = Open \ {n}
    BY LeaveOpen DEF TypeOK
  <1>4. CASE block' = block /\ (Leave(n) \/ calls' = <<>>)
    <2>1. Open' \subseteq Open
      BY <1>3, <1>4 DEF Open
    <2> QED
      BY <1>1, <1>2, <1>4, <2>1, OrderKept DEF OrderInv, RetLast
  <1>5. CASE /\ Leave(n) /\ ast[n].kind \in OperatorKind
             /\ \E i \in Instruction : block' = Append(block, i) /\ i.from = n /\ Shaped(i)
    <2>1. PICK i \in Instruction : block' = Append(block, i) /\ i.from = n /\ Shaped(i)
      BY <1>5
    <2>2. \A k \in DOMAIN block :
             block[k].op # "alloca" => ClosesBefore(ast, block[k].from, i.from)
      BY <1>5, <2>1, CompiledBehind, BehindCloses DEF OrderInv
    <2>3. CodeShaped' /\ InOrder'
      BY <1>1, <2>1, <2>2, OrderGrows DEF OrderInv
    <2>4. /\ DOMAIN block' = 1 .. (Len(block) + 1) /\ DOMAIN block = 1 .. Len(block)
          /\ Len(block) \in Nat
          /\ \A k \in 1 .. Len(block) : block'[k] = block[k]
          /\ block'[Len(block) + 1] = i
      BY <1>1, <2>1, CodeGrows DEF TypeOK
    <2>5. ASSUME Runnable, NEW k \in DOMAIN block', block'[k].op = "ret"
          PROVE  /\ k = Len(block')
                 /\ Len(trace') = Len(ast')
                 /\ \A o \in Open' : ast'[o].kind \notin OperatorKind
      <3>1. \A j \in DOMAIN block : block[j].op # "ret"
        BY <1>3, <1>5, <2>5 DEF OrderInv, RetLast
      <3>2. k = Len(block) + 1 /\ i.op = "ret" /\ Len(block') = Len(block) + 1
        <4>1. Len(block') = Len(block) + 1
          BY <2>1, <2>4 DEF TypeOK
        <4> QED
          BY <2>4, <2>5, <3>1, <4>1
      <3>3. ast[n].kind = "Return"
        <4>1. \A dt \in Arithmetic, op \in OperationKind : OpcodeFor(dt, op) # "ret"
          BY DEF OpcodeFor, OperationKind, Arithmetic
        <4>2. ast[n].operation \in OperationKind
          BY NodeFields DEF TypeOK, WalkTypeOK
        <4> QED
          BY <2>1, <3>2, <4>1, <4>2 DEF Shaped
      <3>4. ast[n].last = Len(ast)
        BY <2>5, <3>3 DEF Runnable, EndsInReturn
      <3>5. ast[n].last = Len(trace)
        BY <1>5, LeaveInDocument DEF TypeOK
      <3>6. \A o \in Open' : ast[o].kind \notin OperatorKind
        BY <1>3, <1>5, <2>5, <3>3, RunnableOperands, NoOperationAround, KindsApart
      <3> QED
        BY <1>1, <3>2, <3>4, <3>5, <3>6
    <2> QED
      BY <1>2, <2>3, <2>5 DEF OrderInv, RetLast
  <1> QED
    BY <1>1, <1>4, <1>5

LEMMA CodeOrderStep ==
    ASSUME TypeOK, TypeOK', InDocument, LeftBehind, OperandsInPlace, CodeInv, OrderInv,
           [Next]_vars
    PROVE  OrderInv'
  <1>1. ASSUME NEW n \in DOMAIN ast, Visiting(n), Next
        PROVE  OrderInv'
    BY <1>1, WalkingStep, OrderVisiting
  <1>2. ASSUME NEW n \in DOMAIN ast, Visited(n), Next
        PROVE  OrderInv'
    BY <1>2, WalkingStep, OrderVisited
  <1>3. CASE WalkerAlone \/ UNCHANGED vars
    <2>1. ast' = ast /\ block' = block /\ trace' = trace
      BY <1>3 DEF WalkerAlone, visitorVars, SkipBranch, NullChild, UnhandledKind, CleanUp,
                  Fail, vars, walkerVars
    <2>2. Open' \subseteq Open
      <3>1. CASE SkipBranch
        BY <3>1, ReturnedOpen DEF SkipBranch, TypeOK
      <3>2. CASE NullChild \/ UnhandledKind
        BY <3>2 DEF NullChild, UnhandledKind, Fail, Open
      <3>3. CASE CleanUp \/ UNCHANGED vars
        BY <3>3 DEF CleanUp, vars, walkerVars, Open
      <3> QED
        BY <1>3, <3>1, <3>2, <3>3 DEF WalkerAlone
    <2> QED
      BY <2>1, <2>2, SameShape, OrderKept DEF OrderInv, RetLast
  <1> QED
    BY <1>1, <1>2, <1>3 DEF Next

THEOREM CodeIsOrdered == Safety => []OrderInv
  <1>1. Init => OrderInv
    BY DEF Init, OrderInv, CodeShaped, InOrder, RetLast
  <1>2. Surely /\ TypeOK' /\ OrderInv /\ [Next]_vars => OrderInv'
    BY CodeOrderStep DEF Surely
  <1>3. TypeOK /\ InDocument /\ LeftBehind /\ OperandsInPlace /\ CodeInv => Surely
    BY DEF Surely
  <1> QED
    BY <1>1, <1>2, <1>3, CodeInvariant, TypeCorrect, CompilationStaysInDocument,
       OperandsAreInPlace, PTL DEF Safety

-----------------------------------------------------------------------------
(* The type of the function                                                *)

(***************************************************************************)
(* Once the only Function has been visited, the code is of its type.       *)
(***************************************************************************)
FunctionInv ==
    /\ IsWrapped(ast) /\ OneFunction
    /\ outcome \in {"walking", "done"} /\ Len(trace) >= Func =>
          returnType = TypeFor(ast[Func].dataType)

LEMMA FunctionStep ==
    ASSUME TypeOK, TypeOK', InDocument, FunctionInv, [Next]_vars
    PROVE  FunctionInv'
  <1>1. ast' = ast
    <2>1. [WalkNext]_walkerVars
      BY StepWalks
    <2> QED
      BY <2>1 DEF WalkNext, walkerVars, Enter, VisitLeaf, Leave, FailEntering, FailLeaving,
                  FailOutside, Fail, SkipBranch, NullChild, UnhandledKind, CleanUp
  <1>2. /\ IsWrapped(ast) /\ OneFunction /\ IsWrapped(ast)' /\ OneFunction'
        /\ Func \in DOMAIN ast /\ ast[Func].kind = "Function"
    <2>1. IsWrapped(ast) /\ OneFunction /\ IsWrapped(ast)' /\ OneFunction'
      BY <1>1 DEF FunctionInv, OneFunction
    <2> QED
      BY <2>1, SMTT(30) DEF IsWrapped, Func, Body, TypeOK, WalkTypeOK, IsTree
  <1>3. ASSUME NEW n \in DOMAIN ast, Visiting(n), outcome' \in {"walking", "done"},
               Len(trace') >= Func
        PROVE  returnType' = TypeFor(ast[Func].dataType)
    <2>1. /\ Calling /\ n = Argument /\ n # Null /\ trace' = Append(trace, n)
          /\ outcome = "walking"
      BY <1>3 DEF Visiting, VisitingModule, VisitingFunction, VisitingFunctionThrows,
                  VisitingBlock, VisitingBlockThrows, VisitingBlockRepeats, VisitingOther,
                  VisitingUndefined, VisitLiteral, VisitVariableRef, VisitVariableRefThrows,
                  Enter, VisitLeaf, FailEntering, Calling
    <2>2. n = Len(trace) + 1 /\ Len(trace) \in Nat /\ n \in Nat
      BY <2>1, NextNode DEF TypeOK, WalkTypeOK
    <2>3. Len(trace') = n
      BY <2>1, <2>2 DEF TypeOK, WalkTypeOK
    <2>4. CASE n = Func
      <3>1. VisitingFunction(n) \/ VisitingFunctionThrows(n)
        BY <1>2, <1>3, <2>4
           DEF Visiting, VisitingModule, VisitingBlock, VisitingBlockThrows,
               VisitingBlockRepeats, VisitingOther, VisitingUndefined, VisitLiteral,
               VisitVariableRef, VisitVariableRefThrows
      <3>2. ~VisitingFunctionThrows(n)
        BY <1>3, FailureNames, FailureEnds DEF VisitingFunctionThrows, FailEntering, Fail
      <3> QED
        BY <2>4, <3>1, <3>2 DEF VisitingFunction
    <2>5. CASE n # Func
      <3>1. ast[n].kind # "Function"
        BY <1>2, <2>5 DEF OneFunction
      <3>2. returnType' = returnType
        BY <1>3, <3>1
           DEF Visiting, VisitingModule, VisitingFunction, VisitingFunctionThrows,
               VisitingBlock, VisitingBlockThrows, VisitingBlockRepeats, VisitingOther,
               VisitingUndefined, VisitLiteral, VisitVariableRef, VisitVariableRefThrows
      <3>3. Len(trace) >= Func
        BY <1>3, <2>2, <2>3, <2>5 DEF Func
      <3> QED
        BY <2>1, <3>2, <3>3 DEF FunctionInv
    <2> QED
      BY <2>4, <2>5
  <1>4. ASSUME NEW n \in DOMAIN ast, Visited(n), Next
        PROVE  returnType' = returnType /\ trace' = trace /\ outcome = "walking"
    BY <1>4, WalkingStep
       DEF Visited, VisitedModule, VisitedModuleAsserts, VisitedBlock, VisitedOther,
           VisitedAssignVariable, VisitedAssignVariableThrows, VisitedBinary,
           VisitedBinaryMismatch, VisitedBinaryThrows, VisitedReturn, VisitedReturnAsserts,
           VisitedUndefined, visitorVars, Leave, FailLeaving
  <1>5. ASSUME WalkerAlone
        PROVE  returnType' = returnType /\ trace' = trace /\ outcome = "walking"
    BY <1>5 DEF WalkerAlone, visitorVars, SkipBranch, NullChild, UnhandledKind, CleanUp, Calling
  <1>6. ASSUME UNCHANGED vars
        PROVE  returnType' = returnType /\ trace' = trace /\ outcome' = outcome
    BY <1>6 DEF vars, walkerVars, visitorVars
  <1>7. ASSUME outcome' \in {"walking", "done"}, Len(trace') >= Func
        PROVE  returnType' = TypeFor(ast[Func].dataType)
    <2>1. CASE \E n \in DOMAIN ast : Visiting(n)
      BY <1>3, <1>7, <2>1
    <2>2. CASE \/ Next /\ \E n \in DOMAIN ast : Visited(n)
               \/ WalkerAlone \/ UNCHANGED vars
      BY <1>4, <1>5, <1>6, <1>7, <2>2 DEF FunctionInv
    <2> QED
      BY <2>1, <2>2 DEF Next
  <1> QED
    BY <1>1, <1>2, <1>7 DEF FunctionInv

-----------------------------------------------------------------------------
(* The code has a meaning                                                  *)

(***************************************************************************)
(* What is known of the code during a call.                                *)
(***************************************************************************)
Sound ==
    /\ TypeOK /\ InDocument /\ OrderInv /\ FunctionInv
    /\ WellTypedCode /\ SsaCode /\ NoErrorMissed /\ OwnOperands /\ LexicalScoping
    /\ NoUndefinedBehaviour

THEOREM CallIsSound == RunnerSafety => []Sound
  <1>1. RunnerInit => FunctionInv
    <2>1. ASSUME RunnerInit
          PROVE  FunctionInv
      <3>1. ast \in Programs /\ trace = <<>>
        BY <2>1 DEF RunnerInit, Init, WalkInit
      <3>2. IsWrapped(ast) /\ OneFunction
        BY <3>1, WrappedAssumption, OneFunctionAssumption DEF OneFunction
      <3> QED
        BY <3>1, <3>2 DEF FunctionInv, Func
    <2> QED
      BY <2>1
  <1>2. TypeOK /\ TypeOK' /\ InDocument /\ FunctionInv /\ [RunnerNext]_runnerVars
          => FunctionInv'
    BY FunctionStep, StepCompiles
  <1>3. Safety => [](TypeOK /\ InDocument)
    BY TypeCorrect, CompilationStaysInDocument, PTL
  <1>4. RunnerSafety => []FunctionInv
    BY <1>1, <1>2, <1>3, CallCompiles, PTL DEF RunnerSafety
  <1>5. Safety => [](WellTypedCode /\ SsaCode /\ NoErrorMissed)
    BY CodeIsWellTyped, CodeIsSsa, ErrorsAreFound, PTL
  <1>6. Safety => [](OwnOperands /\ LexicalScoping /\ NoUndefinedBehaviour)
    BY OperandsAreOwn, ScopingIsLexical, BehaviourIsDefined, PTL
  <1>7. /\ TypeOK /\ InDocument /\ OrderInv /\ FunctionInv
        /\ WellTypedCode /\ SsaCode /\ NoErrorMissed
        /\ OwnOperands /\ LexicalScoping /\ NoUndefinedBehaviour
        => Sound
    BY DEF Sound
  <1> QED
    BY <1>3, <1>4, <1>5, <1>6, <1>7, CodeIsOrdered, CallCompiles, PTL

(***************************************************************************)
(* Of a finished compilation of a tree that is promised a meaning: what    *)
(* each instruction does, to which operands.                               *)
(***************************************************************************)
LEMMA Finished ==
    ASSUME Sound, outcome = "done", Runnable, NEW k \in DOMAIN block
    PROVE  LET i == block[k]
               node == ast[i.from] IN
           /\ i \in Instruction /\ i.from \in DOMAIN ast /\ Shaped(i)
           /\ WellTypedInstruction(i)
           /\ node.kind \in OperatorKind =>
                 /\ Len(i.args) = Len(node.kids) /\ DOMAIN i.args = DOMAIN node.kids
                 /\ \A j \in DOMAIN node.kids : i.args[j].from = node.kids[j]
           /\ node.kind \in {"VariableRef", "AssignVariable"} => BoundSlot(i)
           /\ \A n \in DOMAIN ast : ~Unbound(n) /\ ~Mismatched(n) /\ ~Unsupported(n)
  <1> DEFINE i == block[k]
             node == ast[i.from]
  <1>1. i \in Instruction /\ i.args \in Seq(Value)
    <2>1. block[k] \in Instruction
      BY DEF Sound, TypeOK
    <2> QED
      BY <2>1 DEF Instruction
  <1>2. i.from \in DOMAIN ast /\ Shaped(i)
    BY DEF Sound, OrderInv, CodeShaped, Shaped
  <1>3. WellTypedInstruction(i)
    BY DEF Sound, WellTypedCode, Runnable
  <1>4. ASSUME node.kind \in OperatorKind
        PROVE  /\ Len(i.args) = Len(node.kids) /\ DOMAIN i.args = DOMAIN node.kids
               /\ \A j \in DOMAIN node.kids : i.args[j].from = node.kids[j]
    <2>1. ValueOperands
      BY RunnableOperands DEF ValueOperands
    <2>2. [j \in DOMAIN i.args |-> i.args[j].from] = node.kids
      BY <1>4, <2>1 DEF Sound, OwnOperands
    <2>3. DOMAIN i.args = DOMAIN node.kids
      BY <2>2
    <2>4. \A j \in DOMAIN node.kids : i.args[j].from = node.kids[j]
      BY <2>2, <2>3
    <2>5. /\ DOMAIN i.args = 1 .. Len(i.args) /\ Len(i.args) \in Nat
          /\ DOMAIN node.kids = 1 .. Len(node.kids) /\ Len(node.kids) \in Nat
      BY <1>1, <1>2, NodeType, SMTT(30) DEF Sound, TypeOK, WalkTypeOK
    <2>6. \A a, b \in Nat : 1 .. a = 1 .. b => a = b
      <3>1. ASSUME NEW a \in Nat, NEW b \in Nat, 1 .. a = 1 .. b
            PROVE  a <= b
        <4>1. CASE a = 0
          BY <4>1
        <4>2. CASE a > 0
          <5>1. a \in 1 .. a
            BY <4>2
          <5> QED
            BY <3>1, <5>1
        <4> QED
          BY <4>1, <4>2
      <3>2. ASSUME NEW a \in Nat, NEW b \in Nat, 1 .. a = 1 .. b
            PROVE  a <= b /\ b <= a
        <4>1. 1 .. b = 1 .. a
          BY <3>2
        <4> QED
          BY <3>1, <3>2, <4>1
      <3> QED
        BY <3>2
    <2>7. Len(i.args) = Len(node.kids)
      BY <2>3, <2>5, <2>6
    <2> QED
      BY <2>3, <2>4, <2>7
  <1>5. node.kind \in {"VariableRef", "AssignVariable"} => BoundSlot(i)
    <2>1. node.kind \in {"VariableRef", "AssignVariable"} => i.op \in {"load", "store"}
      BY <1>2 DEF Shaped
    <2> QED
      BY <2>1 DEF Sound, LexicalScoping
  <1>6. \A n \in DOMAIN ast : ~Unbound(n) /\ ~Mismatched(n) /\ ~Unsupported(n)
    BY DEF Sound, NoErrorMissed
  <1> QED
    BY <1>1, <1>2, <1>3, <1>4, <1>5, <1>6

LEMMA EndsWell ==
    ASSUME Sound, outcome = "done", Runnable
    PROVE  EndsInRet
  <1>1. PICK r \in DOMAIN ast : ast[r].kind = "Return"
    BY DEF Runnable, EndsInReturn
  <1>2. PICK j \in DOMAIN block : block[j].from = r
    BY <1>1 DEF Sound, SsaCode, AllCompiled, CompiledKind, OperatorKind
  <1>3. block[j].op = "ret"
    BY <1>1, <1>2, Finished DEF Shaped
  <1>4. \A k \in DOMAIN block : block[k].op = "ret" => k = Len(block)
    BY DEF Sound, OrderInv, RetLast
  <1> QED
    BY <1>3, <1>4 DEF EndsInRet

(***************************************************************************)
(* LLVM gives a meaning to the code of every tree that is promised one.    *)
(***************************************************************************)
LEMMA CodeHasMeaning ==
    ASSUME Sound, outcome = "done", Runnable
    PROVE  WellFormed
  <1>1. ASSUME NEW k \in DOMAIN block
        PROVE  OperandTypesFit(block[k])
    <2> DEFINE i == block[k]
               node == ast[i.from]
    <2>1. /\ i.from \in DOMAIN ast /\ Shaped(i) /\ WellTypedInstruction(i)
          /\ node.kind \in OperatorKind => DOMAIN i.args = 1 .. Len(node.kids)
          /\ ~Unsupported(i.from)
      <3>1. /\ i.from \in DOMAIN ast /\ Shaped(i) /\ WellTypedInstruction(i)
            /\ node.kind \in OperatorKind => DOMAIN i.args = DOMAIN node.kids
            /\ ~Unsupported(i.from)
        BY Finished
      <3> QED
        BY <3>1, NodeType DEF Sound, TypeOK, WalkTypeOK
    <2>2. /\ node.kind = "Binary" => Len(node.kids) = 2
          /\ \A x \in DOMAIN node.scope : node.scope[x] \in DataType
          /\ node.operation \in OperationKind
      <3>1. IsTree(ast) /\ node.scope \in Scope /\ node.operation \in OperationKind
        BY <2>1, NodeFields DEF Sound, TypeOK, WalkTypeOK
      <3> QED
        BY <2>1, <3>1 DEF IsTree, Members, Scope
    <2>3. /\ i.op \in IntOps => node.kind = "Binary" /\ node.dataType = "Int32"
          /\ i.op \in FloatOps => node.kind = "Binary" /\ node.dataType = "Float"
      BY <2>1, <2>2 DEF Shaped, IntOps, FloatOps, OpcodeFor, Arithmetic, OperationKind
    <2>4. i.op \in IntOps => \A a \in DOMAIN i.args : i.args[a].type = "i32"
      BY <2>1, <2>2, <2>3 DEF WellTypedInstruction, TypeFor, OperatorKind
    <2>5. i.op \in FloatOps => \A a \in DOMAIN i.args : i.args[a].type = "float"
      BY <2>1, <2>2, <2>3 DEF WellTypedInstruction, TypeFor, OperatorKind
    <2>6. i.op = "store" => \A s \in i.slots : i.args[1].type = SlotType(s)
      <3>1. i.op = "store" => node.kind = "AssignVariable"
        BY <2>1, <2>2 DEF Shaped, OpcodeFor, Arithmetic, OperationKind
      <3> QED
        BY <2>1, <3>1 DEF WellTypedInstruction, SlotType
    <2>7. i.op = "alloca" => \A s \in i.slots : SlotType(s) # "void"
      <3>1. i.op = "alloca" => /\ node.kind = "Block"
                               /\ \A s \in i.slots : /\ s.block = i.from
                                                     /\ s.name \in DOMAIN node.scope
        BY <2>1, <2>2 DEF Shaped, OpcodeFor, Arithmetic, OperationKind
      <3>2. ASSUME node.kind = "Block", NEW x \in DOMAIN node.scope
            PROVE  TypeFor(node.scope[x]) # "void"
        <4>1. node.scope[x] # "Void" /\ node.scope[x] # "Pointer"
          BY <2>1, <3>2 DEF Runnable, Straight, Unsupported, HasLlvmType
        <4> QED
          BY <2>2, <4>1 DEF TypeFor, DataType
      <3> QED
        BY <3>1, <3>2 DEF SlotType
    <2>8. i.op = "ret" => i.args[1].type = returnType
      <3>1. i.op = "ret" => node.kind = "Return"
        BY <2>1, <2>2 DEF Shaped, OpcodeFor, Arithmetic, OperationKind
      <3>2. node.kind = "Return" => node.dataType = ast[Func].dataType
        BY <2>1 DEF Runnable, EndsInReturn
      <3>3. Len(trace) >= Func
        BY DEF Sound, InDocument, FunctionInv, IsWrapped, Func, Body, TypeOK, WalkTypeOK
      <3>4. returnType = TypeFor(ast[Func].dataType)
        BY <3>3 DEF Sound, FunctionInv
      <3> QED
        BY <2>1, <3>1, <3>2, <3>4 DEF WellTypedInstruction
    <2> QED
      BY <2>4, <2>5, <2>6, <2>7, <2>8 DEF OperandTypesFit
  <1> QED
    BY <1>1, EndsWell DEF WellFormed

-----------------------------------------------------------------------------
(* The stages of a call                                                    *)

(***************************************************************************)
(* How far the call has got, and what it has passed on the way.            *)
(***************************************************************************)
StageInv ==
    /\ stage \in {"start", "compiling", "linked", "threw"} => pc = 1
    /\ stage \in {"start", "compiling", "linked"} => DOMAIN literals = {}
    /\ stage \in {"compiling", "linked", "running"} => initialized /\ TypeAccepted
    /\ stage \in {"linked", "running"} => outcome = "done" /\ api # "compile"
    /\ stage = "running" => DOMAIN literals = IntLiterals

(***************************************************************************)
(* The tree and, once compiled, the code are those of the whole call.      *)
(***************************************************************************)
LEMMA TreeStays ==
    ASSUME TypeOK, [RunnerNext]_runnerVars
    PROVE  /\ ast' = ast
           /\ stage # "compiling" => UNCHANGED vars
           /\ stage' # stage => UNCHANGED vars
  <1>1. [WalkNext]_walkerVars
    BY StepCompiles, StepWalks
  <1>2. ast' = ast
    BY <1>1 DEF WalkNext, walkerVars, Enter, VisitLeaf, Leave, FailEntering, FailLeaving,
                FailOutside, Fail, SkipBranch, NullChild, UnhandledKind, CleanUp
  <1>3. (stage = "compiling" /\ stage' = stage) \/ UNCHANGED vars
    BY DEF RunnerNext, runnerVars, Initialize, Refuse, ReadsNoType, NoTarget, Begin,
           CallGoesOn, Compile,
           CompileFails, CompileReturns, Link, Execute, Ends, Call, RunAlloca, RunStore,
           RunLoad, RunOperation, RunTrap, RunRet, Advance
  <1> QED
    BY <1>2, <1>3

LEMMA StageStep ==
    ASSUME TypeOK, StageInv, [RunnerNext]_runnerVars
    PROVE  StageInv'
  <1>1. ast' = ast /\ (api' = api => (TypeAccepted' <=> TypeAccepted))
    BY TreeStays DEF TypeAccepted, TypeOfExpr
  <1>2. IntLiterals' = IntLiterals
    BY <1>1 DEF IntLiterals
  <1>3. CASE Initialize \/ Refuse \/ ReadsNoType \/ NoTarget \/ Begin
    BY <1>1, <1>2, <1>3
       DEF Initialize, Refuse, ReadsNoType, NoTarget, Begin, Ends, runVars, StageInv,
           Undefined, vars,
           walkerVars
  <1>4. CASE Compile
    BY <1>1, <1>2, <1>4 DEF Compile, runVars, StageInv
  <1>5. CASE CompileFails \/ CompileReturns \/ Link
    BY <1>1, <1>2, <1>5
       DEF CompileFails, CompileReturns, Link, Ends, runVars, StageInv, Undefined, vars,
           walkerVars
  <1>6. CASE Call
    <2>1. DOMAIN literals' = IntLiterals
      BY <1>6 DEF Call
    <2> QED
      BY <1>1, <1>2, <1>6, <2>1 DEF Call, StageInv, vars, walkerVars
  <1>7. CASE RunAlloca \/ RunStore \/ RunLoad \/ RunOperation \/ RunTrap \/ RunRet
    <2>1. /\ stage = "running" /\ stage' \in {"running", "returned", Undefined}
          /\ literals' = literals /\ UNCHANGED <<vars, api, initialized>>
      BY <1>7 DEF RunAlloca, RunStore, RunLoad, RunOperation, RunTrap, RunRet, Advance,
                  Running, Ends, runVars
    <2> QED
      BY <1>1, <1>2, <2>1 DEF StageInv, Undefined, vars, walkerVars
  <1>8. CASE UNCHANGED runnerVars
    BY <1>1, <1>2, <1>8 DEF runnerVars, runVars, StageInv, vars, walkerVars
  <1> QED
    BY <1>3, <1>4, <1>5, <1>6, <1>7, <1>8 DEF RunnerNext, CallGoesOn, Execute

THEOREM CallPassesStages == RunnerSafety => []StageInv
  <1>1. RunnerInit => StageInv
    <2>1. ASSUME RunnerInit
          PROVE  StageInv
      <3>1. DOMAIN literals = {}
        BY <2>1 DEF RunnerInit
      <3> QED
        BY <2>1, <3>1 DEF RunnerInit, StageInv
    <2> QED
      BY <2>1
  <1> QED
    BY <1>1, StageStep, CallCompiles, TypeCorrect, PTL DEF RunnerSafety

(***************************************************************************)
(* For every expression, the function that is called has been compiled     *)
(* after init(), with the return type of the pointer it is called through. *)
(***************************************************************************)
THEOREM FunctionCalledAsDeclared == RunnerSafety => []CalledAsDeclared
  <1>1. Sound /\ StageInv /\ api \in Api => CalledAsDeclared
    <2>1. ASSUME Sound, StageInv, api \in Api, stage \in {"linked", "running"}
          PROVE  /\ initialized
                 /\ api # "compile"
                 /\ returnType = IF api = "runInt32Expr" THEN "i32" ELSE "float"
      <3>1. initialized /\ TypeAccepted /\ outcome = "done" /\ api # "compile"
        BY <2>1 DEF StageInv
      <3>2. Len(trace) >= Func
        BY <2>1, <3>1
           DEF Sound, InDocument, FunctionInv, IsWrapped, Func, Body, TypeOK, WalkTypeOK
      <3>3. /\ returnType = TypeFor(ast[Func].dataType)
            /\ ast[Func].dataType = TypeOfExpr(ast)
        BY <2>1, <3>1, <3>2 DEF Sound, FunctionInv, IsWrapped, TypeAccepted
      <3> QED
        BY <2>1, <3>1, <3>3 DEF TypeAccepted, TypeFor, Api
    <2> QED
      BY <2>1 DEF CalledAsDeclared
  <1>2. RunnerSafety => [](api \in Api)
    <2>1. RunnerInit => api \in Api
      BY DEF RunnerInit
    <2>2. api \in Api /\ [RunnerNext]_runnerVars => (api \in Api)'
      BY DEF RunnerNext, runnerVars, Initialize, Refuse, ReadsNoType, NoTarget, Begin,
             CallGoesOn, Compile,
             CompileFails, CompileReturns, Link, Execute, Ends, Call, RunAlloca, RunStore,
             RunLoad, RunOperation, RunTrap, RunRet, Advance
    <2> QED
      BY <2>1, <2>2, PTL DEF RunnerSafety
  <1> QED
    BY <1>1, <1>2, CallIsSound, CallPassesStages, PTL

-----------------------------------------------------------------------------
(* The state of a call                                                     *)

RunTypeOK ==
    /\ api \in Api /\ initialized \in BOOLEAN /\ stage \in Stage
    /\ DOMAIN literals \subseteq DOMAIN ast
    /\ \A n \in DOMAIN literals : literals[n] \in Word
    /\ DOMAIN memory \subseteq Slot
    /\ DOMAIN registers \subseteq DOMAIN ast
    /\ pc \in 1 .. (Len(block) + 1)

LEMMA WithDomain == \A f, x, v : DOMAIN With(f, x, v) = DOMAIN f \cup {x}
  BY DEF With

LEMMA RunTypeStep ==
    ASSUME Sound, Sound', StageInv, RunTypeOK, [RunnerNext]_runnerVars
    PROVE  RunTypeOK'
  <1>1. /\ ast' = ast
        /\ block \in Seq(Instruction) /\ DOMAIN block = 1 .. Len(block) /\ Len(block) \in Nat
        /\ block' \in Seq(Instruction) /\ Len(block') \in Nat
        /\ DOMAIN block' = 1 .. Len(block')
    BY TreeStays DEF Sound, TypeOK
  <1>2. ASSUME block' = block
        PROVE  Len(block') = Len(block)
    BY <1>2
  <1>3. CASE \/ Initialize \/ Refuse \/ ReadsNoType \/ NoTarget \/ Begin \/ CompileFails \/ CompileReturns
             \/ Link \/ RunTrap \/ UNCHANGED runnerVars
    <2>1. /\ UNCHANGED <<api, literals, memory, registers, pc, block>>
          /\ initialized' \in BOOLEAN /\ stage' \in Stage
      BY <1>3 DEF Initialize, Refuse, ReadsNoType, NoTarget, Begin, CompileFails,
                  CompileReturns, Link,
                  RunTrap, Ends, runnerVars, runVars, vars, visitorVars, RunTypeOK, Stage
    <2> QED
      BY <1>1, <1>2, <2>1 DEF RunTypeOK
  <1>4. CASE Compile
    <2>1. UNCHANGED <<api, initialized, stage, literals, memory, registers, pc>> /\ pc = 1
      BY <1>4 DEF Compile, runVars, StageInv
    <2> QED
      BY <1>1, <2>1 DEF RunTypeOK
  <1>5. CASE Call
    <2>1. /\ UNCHANGED <<api, initialized, memory, registers, block>>
          /\ pc' = 1 /\ stage' = "running" /\ literals' \in [IntLiterals -> Word]
      BY <1>5 DEF Call, vars, visitorVars
    <2>2. DOMAIN literals' \subseteq DOMAIN ast /\ \A n \in DOMAIN literals' : literals'[n] \in Word
      BY <2>1 DEF IntLiterals
    <2> QED
      BY <1>1, <1>2, <2>1, <2>2 DEF RunTypeOK, Stage
  <1>6. ASSUME UNCHANGED <<vars, api, initialized, literals>>, pc \in DOMAIN block,
               pc' = pc + 1, stage' \in Stage,
               DOMAIN memory' \subseteq Slot, DOMAIN registers' \subseteq DOMAIN ast
        PROVE  RunTypeOK'
    <2>1. block' = block
      BY <1>6 DEF vars, visitorVars
    <2>2. pc' \in 1 .. (Len(block') + 1)
      BY <1>1, <1>2, <1>6, <2>1
    <2> QED
      BY <1>1, <1>6, <2>2 DEF RunTypeOK
  <1>7. CASE RunAlloca \/ RunRet
    <2>1. UNCHANGED <<memory, registers>>
      BY <1>7 DEF RunAlloca, RunRet
    <2> QED
      BY <1>6, <1>7, <2>1 DEF RunAlloca, RunRet, Advance, Running, RunTypeOK, Stage
  <1>8. CASE RunStore
    <2>1. PICK s \in block[pc].slots : memory' = With(memory, s, Operand(block[pc].args[1]))
      BY <1>8 DEF RunStore
    <2>2. pc \in DOMAIN block
      BY <1>8 DEF RunStore, Running
    <2>3. block[pc].slots \subseteq Slot
      <3>1. block[pc] \in Instruction
        BY <1>1, <2>2
      <3> QED
        BY <3>1 DEF Instruction
    <2>4. DOMAIN memory' \subseteq Slot
      <3>1. DOMAIN memory' = DOMAIN memory \cup {s}
        BY <2>1, WithDomain, Zenon
      <3> QED
        BY <2>1, <2>3, <3>1 DEF RunTypeOK
    <2> QED
      BY <1>6, <1>8, <2>4 DEF RunStore, Advance, Running, RunTypeOK
  <1>9. CASE RunLoad \/ RunOperation
    <2>1. PICK v : registers' = With(registers, block[pc].from, v)
      BY <1>9 DEF RunLoad, RunOperation
    <2>2. pc \in DOMAIN block
      BY <1>9 DEF RunLoad, RunOperation, Running
    <2>3. block[pc].from \in DOMAIN ast
      BY <2>2 DEF Sound, OrderInv, CodeShaped, Shaped
    <2>4. DOMAIN registers' \subseteq DOMAIN ast
      <3>1. DOMAIN registers' = DOMAIN registers \cup {block[pc].from}
        BY <2>1, WithDomain, Zenon
      <3> QED
        BY <2>3, <3>1 DEF RunTypeOK
    <2> QED
      BY <1>6, <1>9, <2>2, <2>4 DEF RunLoad, RunOperation, Advance, RunTypeOK
  <1> QED
    BY <1>3, <1>4, <1>5, <1>7, <1>8, <1>9 DEF RunnerNext, CallGoesOn, Execute

THEOREM RunnerTypeCorrect == RunnerSafety => []RunnerTypeOK
  <1>1. RunnerInit => RunTypeOK
    <2>1. ASSUME RunnerInit
          PROVE  RunTypeOK
      <3>1. DOMAIN literals = {} /\ DOMAIN memory = {} /\ DOMAIN registers = {} /\ block = <<>>
        BY <2>1 DEF RunnerInit, Init
      <3>2. pc \in 1 .. (Len(block) + 1)
        BY <2>1, <3>1 DEF RunnerInit
      <3>3. DOMAIN literals \subseteq DOMAIN ast /\ \A n \in DOMAIN literals : literals[n] \in Word
        BY <3>1
      <3>4. api \in Api /\ initialized \in BOOLEAN /\ stage \in Stage
        BY <2>1 DEF RunnerInit, Stage
      <3> QED
        BY <3>1, <3>2, <3>3, <3>4 DEF RunTypeOK
    <2> QED
      BY <2>1
  <1>2. RunTypeOK /\ TypeOK => RunnerTypeOK
    BY DEF RunTypeOK, RunnerTypeOK
  <1> QED
    BY <1>1, <1>2, RunTypeStep, CallIsSound, CallPassesStages, CallCompiles, TypeCorrect, PTL
       DEF RunnerSafety

-----------------------------------------------------------------------------
(* Undefined behaviour                                                     *)

(***************************************************************************)
(* Only a division is without result.                                      *)
(***************************************************************************)
LEMMA OnlyDivisionTraps ==
    ASSUME NEW op \in IntOps, NEW a, NEW b, Traps(OperationOf[op], a, b)
    PROVE  op = "sdiv" /\ Traps("Div", a, b)
  BY DEF Traps, OperationOf, IntOps

LEMMA DefinedRunStep ==
    ASSUME Sound, StageInv, DefinedRun, [RunnerNext]_runnerVars
    PROVE  DefinedRun'
  <1> DEFINE Divides == /\ pc \in DOMAIN block /\ block[pc].op = "sdiv"
                        /\ Traps("Div", Operand(block[pc].args[1]), Operand(block[pc].args[2]))
  <1>1. ast' = ast /\ (Runnable' <=> Runnable)
    BY TreeStays, SameShape DEF Sound
  <1>2. ASSUME stage' = Undefined, Runnable, initialized'
        PROVE  Divides /\ (UNCHANGED runnerVars \/ RunTrap)
    <2>1. CASE RunTrap
      <3>1. /\ pc \in DOMAIN block /\ block[pc].op \in IntOps
            /\ Traps(OperationOf[block[pc].op],
                     Operand(block[pc].args[1]), Operand(block[pc].args[2]))
        BY <2>1 DEF RunTrap, Running
      <3> QED
        BY <2>1, <3>1, OnlyDivisionTraps
    <2>2. CASE UNCHANGED runnerVars
      <3>1. stage = Undefined /\ initialized
        BY <1>2, <2>2 DEF runnerVars
      <3> QED
        BY <1>2, <2>2, <3>1 DEF DefinedRun
    <2>3. ~NoTarget /\ ~ReadsNoType
      BY <1>2 DEF NoTarget, ReadsNoType, Ends, Runnable
    <2>4. ~CompileFails
      <3>1. outcome # Undefined
        BY <1>2, RunnableOperands DEF Sound, NoUndefinedBehaviour, Runnable
      <3> QED
        BY <1>2, <3>1 DEF CompileFails, Ends, Undefined
    <2>5. ~Link
      <3>1. outcome = "done" => WellFormed
        BY <1>2, CodeHasMeaning
      <3> QED
        BY <1>2, <3>1 DEF Link, Ends, Undefined
    <2>6. /\ ~Initialize /\ ~Refuse /\ ~Begin /\ ~Compile /\ ~CompileReturns /\ ~Call
          /\ ~RunAlloca /\ ~RunStore /\ ~RunLoad /\ ~RunOperation /\ ~RunRet
      BY <1>2 DEF Initialize, Refuse, Begin, Compile, CompileReturns, Call, RunAlloca,
                  RunStore, RunLoad, RunOperation, RunRet, Ends, Advance, Running, Undefined
    <2> QED
      BY <2>1, <2>2, <2>3, <2>4, <2>5, <2>6 DEF RunnerNext, CallGoesOn, Execute
  <1>3. ASSUME Divides, UNCHANGED runnerVars \/ RunTrap
        PROVE  Divides'
    <2>1. UNCHANGED <<ast, block, pc, literals, registers>>
      BY <1>3 DEF RunTrap, Ends, runnerVars, runVars, vars, walkerVars, visitorVars
    <2> QED
      BY <1>3, <2>1 DEF Operand, LiteralOf
  <1> QED
    BY <1>1, <1>2, <1>3 DEF DefinedRun

(***************************************************************************)
(* For every tree that is promised a meaning and every value of its        *)
(* literals, a run after init() has no undefined behaviour but a division  *)
(* without result.                                                         *)
(***************************************************************************)
THEOREM RunIsDefined == RunnerSafety => []DefinedRun
  <1>1. RunnerInit => DefinedRun
    BY DEF RunnerInit, DefinedRun, Undefined
  <1> QED
    BY <1>1, DefinedRunStep, CallIsSound, CallPassesStages, PTL DEF RunnerSafety

-----------------------------------------------------------------------------
(* The evaluation of the tree                                              *)

(***************************************************************************)
(* Evaluation's trees are the walker's.                                    *)
(***************************************************************************)
LEMMA EvaluatedTrees == ASSUME NEW a, IsTree(a) PROVE Meaning!IsTree(a)
  <1>1. Meaning!Node = Node
    BY DEF Node, NodeKind, DataType, Scope, OperationKind, Undefined,
           Meaning!Node, Meaning!NodeKind, Meaning!DataType, Meaning!Scope,
           Meaning!OperationKind, Meaning!Undefined
  <1>2. ASSUME NEW n \in DOMAIN a
        PROVE  Meaning!Members(a, n) /\ Meaning!DataTypeRule(a, n) /\ Meaning!Numbered(a, n)
    <2>1. Meaning!Members(a, n)
      <3>1. Members(a, n)
        BY DEF IsTree
      <3> QED
        BY <3>1 DEF Members, LeafKind, ClientKind, Null, Root,
                    Meaning!Members, Meaning!LeafKind, Meaning!ClientKind, Meaning!Null,
                    Meaning!Root
    <2>2. Meaning!DataTypeRule(a, n)
      <3>1. DataTypeRule(a, n)
        BY DEF IsTree
      <3> QED
        BY <3>1 DEF DataTypeRule, TypeAt, ClientKind, DataType, Undefined, Null,
                    Meaning!DataTypeRule, Meaning!TypeAt, Meaning!ClientKind,
                    Meaning!DataType, Meaning!Undefined, Meaning!Null
    <2>3. Meaning!Numbered(a, n)
      <3>1. Numbered(a, n)
        BY DEF IsTree
      <3> QED
        BY <3>1 DEF Numbered, IsLastCovered, Covered, Null, Meaning!Numbered,
                    Meaning!IsLastCovered, Meaning!Covered, Meaning!Null
    <2> QED
      BY <2>1, <2>2, <2>3
  <1>3. a \in Seq(Meaning!Node) /\ a # <<>> /\ a[Meaning!Root].last = Len(a)
    BY <1>1 DEF IsTree, Root, Meaning!Root
  <1> QED
    BY <1>2, <1>3 DEF Meaning!IsTree

LEMMA EvaluationInit ==
    ASSUME RunnerInit
    PROVE  Meaning!Init
  <1>1. IsTree(ast) /\ pc = 1
    BY ProgramsAssumption DEF RunnerInit, Init, WalkInit
  <1>2. Executed = {}
    BY <1>1 DEF Executed
  <1>3. DOMAIN literals = {} /\ DOMAIN registers = {} /\ DOMAIN memory = {}
    BY DEF RunnerInit
  <1>4. Runnable \in BOOLEAN
    BY DEF Runnable
  <1> QED
    BY <1>1, <1>2, <1>3, <1>4, EvaluatedTrees DEF RunnerInit, Final, Undefined, Meaning!Init

LEMMA RunnableStays ==
    ASSUME ast' = ast
    PROVE  Runnable' = Runnable
  <1>1. Runnable \in BOOLEAN /\ Runnable' \in BOOLEAN
    BY DEF Runnable
  <1> QED
    BY <1>1, SameShape

(***************************************************************************)
(* What has been executed changes with pc alone, but during compilation,   *)
(* when it is nothing.                                                     *)
(***************************************************************************)
LEMMA ExecutedStays ==
    ASSUME pc' = pc, pc = 1 \/ block' = block
    PROVE  Executed' = Executed
  <1>1. CASE pc = 1
    BY <1>1 DEF Executed
  <1>2. CASE block' = block
    BY <1>2 DEF Executed
  <1> QED
    BY <1>1, <1>2

LEMMA ExecutedGrows ==
    ASSUME block' = block, pc \in DOMAIN block, pc' = pc + 1, block \in Seq(Instruction)
    PROVE  Executed' = IF block[pc].op = "alloca" THEN Executed
                                                  ELSE Executed \cup {block[pc].from}
  <1>1. pc \in Nat /\ 1 .. (pc' - 1) = 1 .. (pc - 1) \cup {pc} /\ pc \notin 1 .. (pc - 1)
    OBVIOUS
  <1> DEFINE E(S) == {k \in S : block[k].op # "alloca"}
  <1>2. E(1 .. (pc' - 1)) = IF block[pc].op = "alloca" THEN E(1 .. (pc - 1))
                                                       ELSE E(1 .. (pc - 1)) \cup {pc}
    BY <1>1
  <1>3. /\ Executed = {block[k].from : k \in E(1 .. (pc - 1))}
        /\ Executed' = {block[k].from : k \in E(1 .. (pc' - 1))}
    BY DEF Executed
  <1> HIDE DEF E
  <1> QED
    BY <1>2, <1>3

(***************************************************************************)
(* The kind of node an instruction is made for can be read off it.         *)
(***************************************************************************)
LEMMA OperationOfNode ==
    ASSUME Sound, NEW k \in DOMAIN block
    PROVE  LET i == block[k]
               node == ast[i.from] IN
           /\ i.from \in DOMAIN ast
           /\ i.op = "alloca" => node.kind = "Block"
           /\ i.op = "store" => node.kind = "AssignVariable"
           /\ i.op = "load" => node.kind = "VariableRef"
           /\ i.op = "ret" => node.kind = "Return"
           /\ i.op \in IntOps => /\ node.kind = "Binary" /\ node.dataType = "Int32"
                                 /\ OperationOf[i.op] = node.operation
           /\ i.op \in FloatOps => /\ node.kind = "Binary" /\ node.dataType = "Float"
                                   /\ OperationOf[i.op] = node.operation
           /\ node.kind = "Block" => i.op = "alloca"
  <1>1. block[k].from \in DOMAIN ast /\ Shaped(block[k])
    BY DEF Sound, OrderInv, CodeShaped, Shaped
  <1>2. ast[block[k].from].operation \in OperationKind
    BY <1>1, NodeFields DEF Sound, TypeOK, WalkTypeOK
  <1> QED
    BY <1>1, <1>2 DEF Shaped, OpcodeFor, Arithmetic, OperationKind, OperationOf, IntOps,
                      FloatOps

(***************************************************************************)
(* Closing order is a strict order.                                        *)
(***************************************************************************)
LEMMA ClosingOrder ==
    ASSUME IsTree(ast), NEW m \in DOMAIN ast, NEW n \in DOMAIN ast
    PROVE  /\ Meaning!ClosesBefore(ast, m, n) <=> ClosesBefore(ast, m, n)
           /\ ClosesBefore(ast, m, n) => ~ClosesBefore(ast, n, m) /\ m # n
  <1>1. m \in Nat /\ n \in Nat /\ ast[m].last \in Nat /\ ast[n].last \in Nat
    BY NodeType
  <1> QED
    BY <1>1 DEF ClosesBefore, Meaning!ClosesBefore

(***************************************************************************)
(* The node whose instruction is next is the one whose turn it is in the   *)
(* tree.                                                                   *)
(***************************************************************************)
LEMMA NextToEvaluate ==
    ASSUME Sound, StageInv, stage = "running", pc \in DOMAIN block,
           block[pc].op # "alloca"
    PROVE  Meaning!IsNext(block[pc].from) /\ block[pc].from \in DOMAIN ast
  <1> DEFINE n == block[pc].from
  <1>1. outcome = "done" /\ DOMAIN literals = IntLiterals
    BY DEF StageInv
  <1>2. /\ IsTree(ast) /\ n \in DOMAIN ast
        /\ DOMAIN block = 1 .. Len(block) /\ Len(block) \in Nat
    BY OperationOfNode DEF Sound, TypeOK, WalkTypeOK
  <1>3. \A m \in Executed : \E k \in 1 .. (pc - 1) : /\ m = block[k].from
                                                     /\ block[k].op # "alloca"
    BY DEF Executed
  <1>4. n \notin Executed
    <2>1. ASSUME NEW k \in 1 .. (pc - 1), block[k].from = n
          PROVE  FALSE
      <3>1. k \in DOMAIN block /\ k # pc
        BY <1>2, <2>1
      <3> QED
        BY <2>1, <3>1 DEF Sound, SsaCode, CompiledOnce
    <2> QED
      BY <1>3, <2>1
  <1>5. ASSUME NEW m \in Executed
        PROVE  m \in DOMAIN ast /\ ClosesBefore(ast, m, n)
    <2>1. PICK k \in 1 .. (pc - 1) : m = block[k].from /\ block[k].op # "alloca"
      BY <1>3, <1>5
    <2>2. k \in DOMAIN block /\ k < pc
      BY <1>2
    <2> QED
      BY <2>1, <2>2, OperationOfNode DEF Sound, OrderInv, InOrder
  <1>6. ASSUME NEW m \in DOMAIN ast, ast[m].kind \in Meaning!Evaluated, ClosesBefore(ast, m, n)
        PROVE  m \in Executed
    <2>1. PICK k \in DOMAIN block : block[k].from = m
      BY <1>1, <1>6 DEF Sound, SsaCode, AllCompiled, CompiledKind, OperatorKind,
                        Meaning!Evaluated
    <2>2. block[k].op # "alloca"
      BY <1>6, <2>1, OperationOfNode DEF Meaning!Evaluated
    <2>3. k # pc
      BY <1>2, <1>6, <2>1, ClosingOrder
    <2>4. ~(pc < k)
      BY <1>2, <1>6, <2>1, <2>2, ClosingOrder DEF Sound, OrderInv, InOrder
    <2>5. k \in 1 .. (pc - 1)
      BY <1>2, <2>3, <2>4
    <2> QED
      BY <2>1, <2>2, <2>5 DEF Executed
  <1>7. DOMAIN literals = Meaning!IntLiterals
    BY <1>1 DEF IntLiterals, Meaning!IntLiterals
  <1>8. ASSUME NEW m \in DOMAIN ast, ast[m].kind \in Meaning!Evaluated
        PROVE  Meaning!ClosesBefore(ast, m, n) <=> m \in Executed
    BY <1>2, <1>5, <1>6, <1>8, ClosingOrder
  <1>9. "running" \notin Final
    BY DEF Final, Undefined
  <1> QED
    BY <1>2, <1>4, <1>7, <1>8, <1>9 DEF Meaning!IsNext

(***************************************************************************)
(* Values are computed the same way.                                       *)
(***************************************************************************)
LEMMA SameValues ==
    /\ \A f, x, v : Meaning!Sets(f, x, v) = With(f, x, v)
    /\ \A op, a, b : /\ Meaning!Traps(op, a, b) <=> Traps(op, a, b)
                     /\ Meaning!IntResult(op, a, b) = IntResult(op, a, b)
                     /\ Meaning!FloatResult(op, a, b) = FloatResult(op, a, b)
    /\ \A t : Meaning!Unset(t) = Unset(t)
    /\ \A n, x, b : Meaning!Binds(ast, n, x, b) <=> Binds(ast, n, x, b)
  <1>1. \A f, x, v : Meaning!Sets(f, x, v) = With(f, x, v)
    BY DEF Meaning!Sets, With
  <1>2. \A op, a, b : /\ Meaning!Traps(op, a, b) <=> Traps(op, a, b)
                      /\ Meaning!IntResult(op, a, b) = IntResult(op, a, b)
                      /\ Meaning!FloatResult(op, a, b) = FloatResult(op, a, b)
    BY DEF Meaning!Traps, Traps, Meaning!IntResult, IntResult, Meaning!FloatResult,
           FloatResult, Meaning!Int32Value, Int32Value, Meaning!Wrap, Wrap,
           Meaning!Quotient, Quotient, Meaning!Abs, Abs
  <1>3. \A t : Meaning!Unset(t) = Unset(t)
    BY DEF Meaning!Unset, Unset, Meaning!Int32Value, Int32Value, Meaning!Word, Word
  <1>4. \A n, x, b : Meaning!Binds(ast, n, x, b) <=> Binds(ast, n, x, b)
    BY DEF Meaning!Binds, Binds, Meaning!Encloses, Encloses, Meaning!Declares, Declares
  <1> QED
    BY <1>1, <1>2, <1>3, <1>4

(***************************************************************************)
(* An instruction computes with the values of its node's children.         *)
(***************************************************************************)
LEMMA SameOperand ==
    ASSUME Sound, outcome = "done", Runnable, NEW k \in DOMAIN block,
           ast[block[k].from].kind \in OperatorKind,
           NEW j \in DOMAIN ast[block[k].from].kids
    PROVE  Operand(block[k].args[j]) = Meaning!Operand(block[k].from, j)
  <1> DEFINE v == ast[block[k].from].kids[j]
  <1>1. block[k].args[j].from = v
    BY Finished
  <1>2. Operand(block[k].args[j]) =
           IF ast[v].kind \in {"LiteralInt32", "LiteralFloat"} THEN LiteralOf(v)
                                                               ELSE registers[v]
    BY <1>1 DEF Operand
  <1>3. Meaning!Operand(block[k].from, j) = Meaning!ValueOf(v)
    BY DEF Meaning!Operand
  <1> HIDE DEF v
  <1>4. CASE ast[v].kind = "LiteralInt32"
    BY <1>2, <1>3, <1>4 DEF LiteralOf, Meaning!ValueOf, Int32Value, Meaning!Int32Value
  <1>5. CASE ast[v].kind = "LiteralFloat"
    BY <1>2, <1>3, <1>5 DEF LiteralOf, Meaning!ValueOf, FloatValue, Meaning!FloatValue
  <1>6. CASE ast[v].kind \notin {"LiteralInt32", "LiteralFloat"}
    BY <1>2, <1>3, <1>6 DEF Meaning!ValueOf
  <1> QED
    BY <1>4, <1>5, <1>6

(***************************************************************************)
(* What the state of an evaluation has in common before and after each     *)
(* instruction.                                                            *)
(***************************************************************************)
LEMMA EvaluationFrame ==
    ASSUME Sound, stage = "running", UNCHANGED <<vars, api, initialized, literals>>
    PROVE  /\ UNCHANGED <<ast, api, Runnable, initialized, literals>>
           /\ block' = block /\ block \in Seq(Instruction)
           /\ (IF stage \in Final THEN stage ELSE "pending") = "pending"
           /\ stage' = "running" => (IF stage' \in Final THEN stage' ELSE "pending") = "pending"
           /\ stage' = "returned" =>
                 (IF stage' \in Final THEN stage' ELSE "pending") = "returned"
           /\ stage' = Undefined =>
                 (IF stage' \in Final THEN stage' ELSE "pending") = Meaning!Undefined
  <1>1. ast' = ast /\ block' = block
    BY DEF vars, walkerVars, visitorVars
  <1>2. Runnable' = Runnable
    BY <1>1, RunnableStays
  <1> QED
    BY <1>1, <1>2 DEF Sound, TypeOK, Final, Undefined, Meaning!Undefined

LEMMA StoreEvaluates ==
    ASSUME Sound, StageInv, Runnable, RunStore
    PROVE  Meaning!Evaluate(block[pc].from) /\ block[pc].from \in DOMAIN ast
  <1> DEFINE n == block[pc].from
  <1>1. /\ stage = "running" /\ pc \in DOMAIN block /\ block[pc].op = "store"
        /\ pc' = pc + 1 /\ UNCHANGED <<vars, api, initialized, stage, literals, result, registers>>
        /\ outcome = "done"
    BY DEF RunStore, Running, Advance, StageInv
  <1>2. /\ n \in DOMAIN ast /\ ast[n].kind = "AssignVariable" /\ Meaning!IsNext(n)
    BY <1>1, OperationOfNode, NextToEvaluate
  <1>3. Executed' = Executed \cup {n}
    BY <1>1, EvaluationFrame, ExecutedGrows
  <1>4. PICK b \in DOMAIN ast : /\ Binds(ast, n, ast[n].name, b)
                                /\ block[pc].slots = {[block |-> b, name |-> ast[n].name]}
    BY <1>1, <1>2, Finished DEF BoundSlot
  <1>5. 1 \in DOMAIN ast[n].kids
    BY <1>2, NodeType DEF Sound, TypeOK, WalkTypeOK, IsTree, Members
  <1>6. Operand(block[pc].args[1]) = Meaning!Operand(n, 1)
    BY <1>1, <1>2, <1>5, SameOperand DEF OperatorKind
  <1>7. memory' = Meaning!Sets(memory, [block |-> b, name |-> ast[n].name], Meaning!Operand(n, 1))
    BY <1>4, <1>6, SameValues DEF RunStore
  <1>8. Meaning!EvaluateAssign(n)
    <2>1. Meaning!Binds(ast, n, ast[n].name, b)
      BY <1>4, SameValues
    <2> QED
      BY <1>1, <1>2, <1>7, <2>1, EvaluationFrame DEF Meaning!EvaluateAssign
  <1> QED
    BY <1>1, <1>2, <1>3, <1>8, EvaluationFrame DEF Meaning!Evaluate

LEMMA LoadEvaluates ==
    ASSUME Sound, StageInv, Runnable, RunLoad
    PROVE  Meaning!Evaluate(block[pc].from) /\ block[pc].from \in DOMAIN ast
  <1> DEFINE n == block[pc].from
  <1>1. /\ stage = "running" /\ pc \in DOMAIN block /\ block[pc].op = "load"
        /\ pc' = pc + 1 /\ UNCHANGED <<vars, api, initialized, stage, literals, result, memory>>
        /\ outcome = "done"
    BY DEF RunLoad, Running, Advance, StageInv
  <1>2. /\ n \in DOMAIN ast /\ ast[n].kind = "VariableRef" /\ Meaning!IsNext(n)
    BY <1>1, OperationOfNode, NextToEvaluate
  <1>3. Executed' = Executed \cup {n}
    BY <1>1, EvaluationFrame, ExecutedGrows
  <1>4. PICK b \in DOMAIN ast : /\ Binds(ast, n, ast[n].name, b)
                                /\ block[pc].slots = {[block |-> b, name |-> ast[n].name]}
    BY <1>1, <1>2, Finished DEF BoundSlot
  <1>5. block[pc].type = Meaning!TypeName(ast[n].dataType)
    <2>1. block[pc].type = TypeFor(ast[n].dataType)
      <3>1. WellTypedInstruction(block[pc])
        BY <1>1, Finished
      <3> QED
        BY <1>2, <3>1 DEF WellTypedInstruction
    <2>2. ast[b].kind = "Block" /\ ast[n].name \in DOMAIN ast[b].scope
      BY <1>4 DEF Binds, Declares
    <2>3. ast[b].scope[ast[n].name] = ast[n].dataType
      BY <1>2, <1>4 DEF Runnable, TypedTree, NamesAgree
    <2>4. ast[n].dataType # "Void"
      BY <2>2, <2>3 DEF Runnable, Straight
    <2>5. ast[n].dataType # "Pointer"
      BY <1>1, <2>2, <2>3, Finished DEF Unsupported, HasLlvmType
    <2>6. ast[n].dataType \in DataType
      <3>1. DataTypeRule(ast, n) /\ ~ast[n].lacks
        BY <1>2 DEF Sound, TypeOK, WalkTypeOK, IsTree, Runnable, NothingLacks
      <3> QED
        BY <1>2, <3>1 DEF DataTypeRule
    <2> QED
      BY <2>1, <2>4, <2>5, <2>6 DEF TypeFor, Meaning!TypeName, DataType
  <1> DEFINE s == [block |-> b, name |-> ast[n].name]
  <1>6. PICK v \in (IF s \in DOMAIN memory THEN {memory[s]} ELSE Unset(block[pc].type)) :
           registers' = With(registers, n, v)
    BY <1>4 DEF RunLoad
  <1>7. Meaning!EvaluateRef(n)
    <2>1. Meaning!Binds(ast, n, ast[n].name, b)
      BY <1>4, SameValues
    <2>2. \E w \in (IF s \in DOMAIN memory THEN {memory[s]}
                    ELSE Meaning!Unset(Meaning!TypeName(ast[n].dataType))) :
             registers' = Meaning!Sets(registers, n, w)
      BY <1>5, <1>6, SameValues
    <2> QED
      BY <1>1, <1>2, <2>1, <2>2, EvaluationFrame DEF Meaning!EvaluateRef
  <1> QED
    BY <1>1, <1>2, <1>3, <1>7, EvaluationFrame DEF Meaning!Evaluate

LEMMA OperationEvaluates ==
    ASSUME Sound, StageInv, Runnable, RunOperation
    PROVE  Meaning!Evaluate(block[pc].from) /\ block[pc].from \in DOMAIN ast
  <1> DEFINE n == block[pc].from
             i == block[pc]
  <1>1. /\ stage = "running" /\ pc \in DOMAIN block /\ i.op \in IntOps \cup FloatOps
        /\ pc' = pc + 1 /\ UNCHANGED <<vars, api, initialized, stage, literals, result, memory>>
        /\ outcome = "done"
    BY DEF RunOperation, Running, Advance, StageInv
  <1>2. /\ n \in DOMAIN ast /\ ast[n].kind = "Binary" /\ i.op # "alloca"
        /\ OperationOf[i.op] = ast[n].operation
        /\ i.op \in IntOps => ast[n].dataType = "Int32"
        /\ i.op \in FloatOps => ast[n].dataType = "Float"
    BY <1>1, OperationOfNode DEF IntOps, FloatOps
  <1>3. Meaning!IsNext(n)
    BY <1>1, <1>2, NextToEvaluate
  <1>4. Executed' = Executed \cup {n}
    BY <1>1, <1>2, EvaluationFrame, ExecutedGrows
  <1>5. 1 \in DOMAIN ast[n].kids /\ 2 \in DOMAIN ast[n].kids
    BY <1>2, NodeType DEF Sound, TypeOK, WalkTypeOK, IsTree, Members
  <1>6. /\ Operand(i.args[1]) = Meaning!Operand(n, 1)
        /\ Operand(i.args[2]) = Meaning!Operand(n, 2)
    BY <1>1, <1>2, <1>5, SameOperand DEF OperatorKind
  <1>7. registers' = With(registers, n, Compute(i.op, Operand(i.args[1]), Operand(i.args[2])))
    BY DEF RunOperation
  <1>8. CASE i.op \in IntOps
    <2>1. ~Meaning!Traps(ast[n].operation, Meaning!Operand(n, 1), Meaning!Operand(n, 2))
      BY <1>2, <1>6, <1>8, SameValues DEF RunOperation
    <2>2. registers' = Meaning!Sets(registers, n,
                          Meaning!IntResult(ast[n].operation, Meaning!Operand(n, 1),
                                            Meaning!Operand(n, 2)))
      BY <1>2, <1>6, <1>7, <1>8, SameValues DEF Compute
    <2>3. Meaning!EvaluateInt(n)
      BY <1>1, <1>2, <1>8, <2>1, <2>2, EvaluationFrame DEF Meaning!EvaluateInt
    <2> QED
      BY <1>1, <1>2, <1>3, <1>4, <2>3, EvaluationFrame DEF Meaning!Evaluate
  <1>9. CASE i.op \in FloatOps
    <2>1. i.op \notin IntOps
      BY <1>9 DEF IntOps, FloatOps
    <2>2. registers' = Meaning!Sets(registers, n,
                          Meaning!FloatResult(ast[n].operation, Meaning!Operand(n, 1),
                                              Meaning!Operand(n, 2)))
      BY <1>2, <1>6, <1>7, <2>1, SameValues DEF Compute
    <2>3. Meaning!EvaluateFloat(n)
      BY <1>1, <1>2, <1>9, <2>2, EvaluationFrame DEF Meaning!EvaluateFloat
    <2> QED
      BY <1>1, <1>2, <1>3, <1>4, <2>3, EvaluationFrame DEF Meaning!Evaluate
  <1> QED
    BY <1>1, <1>8, <1>9

LEMMA RetEvaluates ==
    ASSUME Sound, StageInv, Runnable, RunRet
    PROVE  Meaning!Evaluate(block[pc].from) /\ block[pc].from \in DOMAIN ast
  <1> DEFINE n == block[pc].from
  <1>1. /\ stage = "running" /\ pc \in DOMAIN block /\ block[pc].op = "ret"
        /\ stage' = "returned" /\ pc' = pc + 1
        /\ UNCHANGED <<vars, api, initialized, literals, memory, registers>>
        /\ outcome = "done"
    BY DEF RunRet, Running, StageInv
  <1>2. /\ n \in DOMAIN ast /\ ast[n].kind = "Return" /\ Meaning!IsNext(n)
    BY <1>1, OperationOfNode, NextToEvaluate
  <1>3. Executed' = Executed \cup {n}
    BY <1>1, EvaluationFrame, ExecutedGrows
  <1>4. 1 \in DOMAIN ast[n].kids
    BY <1>2, NodeType DEF Sound, TypeOK, WalkTypeOK, IsTree, Members
  <1>5. result' = Meaning!Operand(n, 1)
    BY <1>1, <1>2, <1>4, SameOperand DEF OperatorKind, RunRet
  <1>6. Meaning!EvaluateReturn(n)
    BY <1>1, <1>2, <1>5, EvaluationFrame DEF Meaning!EvaluateReturn
  <1> QED
    BY <1>1, <1>2, <1>3, <1>6, EvaluationFrame DEF Meaning!Evaluate

LEMMA TrapEvaluates ==
    ASSUME Sound, StageInv, Runnable, RunTrap
    PROVE  Meaning!DivideUndefined(block[pc].from) /\ block[pc].from \in DOMAIN ast
  <1> DEFINE n == block[pc].from
             i == block[pc]
  <1>1. /\ stage = "running" /\ pc \in DOMAIN block /\ i.op \in IntOps
        /\ stage' = Undefined /\ UNCHANGED <<vars, api, initialized, runVars>>
        /\ Traps(OperationOf[i.op], Operand(i.args[1]), Operand(i.args[2]))
        /\ outcome = "done"
    BY DEF RunTrap, Running, Ends, StageInv
  <1>2. /\ n \in DOMAIN ast /\ ast[n].kind = "Binary" /\ i.op # "alloca"
        /\ OperationOf[i.op] = ast[n].operation /\ ast[n].dataType = "Int32"
    BY <1>1, OperationOfNode DEF IntOps
  <1>3. Meaning!IsNext(n)
    BY <1>1, <1>2, NextToEvaluate
  <1>4. UNCHANGED <<literals, memory, registers, pc, result>>
    BY <1>1 DEF runVars
  <1>5. Executed' = Executed
    BY <1>1, <1>4, EvaluationFrame, ExecutedStays
  <1>6. 1 \in DOMAIN ast[n].kids /\ 2 \in DOMAIN ast[n].kids
    BY <1>2, NodeType, SMTT(30) DEF Sound, TypeOK, WalkTypeOK, IsTree, Members
  <1>7. /\ Operand(i.args[1]) = Meaning!Operand(n, 1)
        /\ Operand(i.args[2]) = Meaning!Operand(n, 2)
    BY <1>1, <1>2, <1>6, SameOperand DEF OperatorKind
  <1>8. Meaning!Traps(ast[n].operation, Meaning!Operand(n, 1), Meaning!Operand(n, 2))
    BY <1>1, <1>2, <1>7, SameValues
  <1> QED
    BY <1>1, <1>2, <1>3, <1>4, <1>5, <1>8, EvaluationFrame DEF Meaning!DivideUndefined

(***************************************************************************)
(* Before the function runs nothing is evaluated.                          *)
(***************************************************************************)
LEMMA BeforeEvaluation ==
    ASSUME Sound, StageInv, Runnable,
           \/ Initialize \/ Refuse \/ ReadsNoType \/ NoTarget \/ Begin
           \/ Compile \/ CompileFails \/ CompileReturns \/ Link \/ Call
    PROVE  Meaning!Initialize \/ Meaning!GiveLiterals \/ Meaning!EndEarly
              \/ UNCHANGED Meaning!vars
  <1>1. /\ stage \in {"start", "compiling", "linked"}
        /\ pc = 1 /\ pc' = 1 /\ DOMAIN literals = {} /\ [RunnerNext]_runnerVars
    BY DEF StageInv, Initialize, Refuse, ReadsNoType, NoTarget, Begin, Compile, CompileFails,
           CompileReturns, Link, Call, Ends, runVars, RunnerNext, CallGoesOn, Execute
  <1>2. ast' = ast /\ Runnable' = Runnable
    BY <1>1, TreeStays, RunnableStays DEF Sound
  <1>3. Executed = {} /\ Executed' = Executed
    <2>1. Executed = {}
      BY <1>1 DEF Executed
    <2> QED
      BY <1>1, <2>1, ExecutedStays
  <1> DEFINE status == IF stage \in Final THEN stage ELSE "pending"
  <1>4. status = "pending"
    BY <1>1 DEF Final, Undefined
  <1>5. CASE Initialize
    <2>1. status' = status
      BY <1>5 DEF Initialize
    <2> QED
      BY <1>2, <1>3, <1>5, <2>1 DEF Initialize, runVars, Meaning!Initialize
  <1>6. CASE Begin \/ Compile
    <2>1. status' = "pending" /\ UNCHANGED <<api, initialized, literals, memory, registers, result>>
      BY <1>4, <1>6 DEF Begin, Compile, Ends, runVars, Final, Undefined
    <2> QED
      BY <1>2, <1>3, <1>4, <2>1 DEF Meaning!vars
  <1>7. CASE Call
    <2>1. /\ status' = "pending" /\ UNCHANGED <<api, initialized, memory, registers, result>>
          /\ literals' \in [IntLiterals -> Word]
      BY <1>7 DEF Call, Final, Undefined
    <2>2. /\ DOMAIN literals' = Meaning!IntLiterals
          /\ \A n \in DOMAIN literals' : literals'[n] \in Meaning!Word
      BY <2>1 DEF IntLiterals, Meaning!IntLiterals, Word, Meaning!Word
    <2> QED
      BY <1>1, <1>2, <1>3, <1>4, <2>1, <2>2 DEF Meaning!GiveLiterals
  <1>8. CASE Refuse \/ ReadsNoType \/ NoTarget \/ CompileFails \/ CompileReturns \/ Link
    <2>1. UNCHANGED <<api, initialized, literals, memory, registers, result>>
      BY <1>8 DEF Refuse, ReadsNoType, NoTarget, CompileFails, CompileReturns, Link, Ends,
                  runVars
    <2>2. \/ status' = "threw"
          \/ status' = "returned" /\ api = "compile"
          \/ status' = Meaning!Undefined /\ ~initialized
          \/ status' = status
      <3>1. CASE Refuse
        BY <3>1 DEF Refuse, Ends, Final
      <3>2. CASE NoTarget
        BY <3>2 DEF NoTarget, Ends, Final, Undefined, Meaning!Undefined
      <3>3. CASE CompileFails
        <4>1. outcome # Undefined
          BY RunnableOperands DEF Sound, NoUndefinedBehaviour, Runnable
        <4> QED
          BY <3>3, <4>1 DEF CompileFails, Ends, Final
      <3>4. CASE CompileReturns
        BY <3>4 DEF CompileReturns, Ends, Final
      <3>5. CASE Link
        <4>1. outcome = "done" => WellFormed
          BY CodeHasMeaning
        <4> QED
          BY <1>4, <3>5, <4>1 DEF Link, Ends, Final, Undefined
      <3>6. ~ReadsNoType
        BY DEF ReadsNoType, Runnable
      <3> QED
        BY <1>8, <3>1, <3>2, <3>3, <3>4, <3>5, <3>6
    <2> QED
      BY <1>2, <1>3, <1>4, <2>1, <2>2 DEF Meaning!EndEarly, Meaning!vars
  <1> QED
    BY <1>5, <1>6, <1>7, <1>8

LEMMA EvaluationStep ==
    ASSUME Sound, StageInv, [RunnerNext]_runnerVars
    PROVE  [Meaning!Next]_(Meaning!vars)
  <1>1. CASE ~Runnable
    BY <1>1 DEF Meaning!Next
  <1>2. CASE /\ Runnable
             /\ \/ Initialize \/ Refuse \/ ReadsNoType \/ NoTarget \/ Begin
                \/ Compile \/ CompileFails \/ CompileReturns \/ Link \/ Call
    BY <1>2, BeforeEvaluation DEF Meaning!Next
  <1>3. CASE Runnable /\ (RunStore \/ RunLoad \/ RunOperation \/ RunRet)
    BY <1>3, StoreEvaluates, LoadEvaluates, OperationEvaluates, RetEvaluates DEF Meaning!Next
  <1>4. CASE Runnable /\ RunTrap
    BY <1>4, TrapEvaluates DEF Meaning!Next
  <1>5. CASE RunAlloca
    <2>1. /\ stage = "running" /\ pc \in DOMAIN block /\ block[pc].op = "alloca" /\ pc' = pc + 1
          /\ UNCHANGED <<vars, api, initialized, stage, literals, result, memory, registers>>
      BY <1>5 DEF RunAlloca, Running, Advance
    <2>2. Executed' = Executed
      BY <2>1, EvaluationFrame, ExecutedGrows
    <2> QED
      BY <2>1, <2>2, EvaluationFrame DEF Meaning!vars
  <1>6. CASE UNCHANGED runnerVars
    <2>1. /\ UNCHANGED <<ast, block, api, initialized, stage, literals, memory, registers, pc,
                         result>>
      BY <1>6 DEF runnerVars, runVars, vars, walkerVars, visitorVars
    <2>2. Executed' = Executed /\ Runnable' = Runnable
      BY <2>1, ExecutedStays, RunnableStays
    <2> QED
      BY <2>1, <2>2 DEF Meaning!vars
  <1> QED
    BY <1>1, <1>2, <1>3, <1>4, <1>5, <1>6 DEF RunnerNext, CallGoesOn, Execute

(***************************************************************************)
(* For every expression, every width of an int and every value of the      *)
(* literals, a run of the code CodeGenVisitor generates evaluates the      *)
(* tree: the walk, the stacks, the scopes and the instructions are not     *)
(* felt by the caller.                                                     *)
(***************************************************************************)
THEOREM RunEvaluates == RunnerSafety => EvaluationSpec
  <1>1. RunnerInit => Meaning!Init
    BY EvaluationInit
  <1> QED
    BY <1>1, EvaluationStep, CallIsSound, CallPassesStages, PTL
       DEF RunnerSafety, EvaluationSpec, Meaning!Spec

-----------------------------------------------------------------------------
(* What the evaluation comes to                                            *)

(***************************************************************************)
(* A node whose value is there to be used.                                 *)
(***************************************************************************)
Ready(k) ==
    \/ ast[k].kind \in {"LiteralInt32", "LiteralFloat"}
    \/ k \in Executed /\ k \in DOMAIN registers

Variable(s) == {a \in Executed : Meaning!Assigns(a, s.block, s.name)}

(***************************************************************************)
(* Beyond the values being those the tree means: operands are ready, and   *)
(* an alloca holds what the latest assignment executed has put there.      *)
(***************************************************************************)
RegistersHold ==
    \A n \in Executed :
       /\ n \in DOMAIN ast /\ ast[n].kind \in Meaning!Evaluated
       /\ ast[n].kind \in {"VariableRef", "Binary"} => n \in DOMAIN registers
       /\ ast[n].kind \in OperatorKind => \A j \in DOMAIN ast[n].kids : Ready(ast[n].kids[j])

MemoryHolds ==
    /\ \A s \in DOMAIN memory :
          \E a \in Variable(s) : Meaning!LatestIn(Variable(s), a)
                                 /\ memory[s] = Meaning!Operand(a, 1)
    /\ \A a \in Executed : \A b, x :
          Meaning!Assigns(a, b, x) => [block |-> b, name |-> x] \in DOMAIN memory

ValuesMean == \A n \in Executed : Meaning!NodeMeans(n)

Answers == stage = "returned" /\ api # "compile" => Meaning!AnswerMeans

MeaningInv == Runnable => RegistersHold /\ MemoryHolds /\ ValuesMean /\ Answers

(***************************************************************************)
(* The value of a node that is ready does not change.                      *)
(***************************************************************************)
LEMMA OperandStays ==
    ASSUME ast' = ast, literals' = literals, NEW n, NEW j, Ready(ast[n].kids[j]),
           \A m \in Executed : m \in DOMAIN registers => registers'[m] = registers[m]
    PROVE  Meaning!Operand(n, j)' = Meaning!Operand(n, j)
  <1> DEFINE k == ast[n].kids[j]
  <1>1. /\ Meaning!Operand(n, j) = Meaning!ValueOf(k)
        /\ Meaning!Operand(n, j)' = Meaning!ValueOf(k)'
        /\ k' = k
    BY DEF Meaning!Operand
  <1>2. \/ ast[k].kind \in {"LiteralInt32", "LiteralFloat"}
        \/ ast[k].kind \notin {"LiteralInt32", "LiteralFloat"} /\ registers'[k] = registers[k]
    BY DEF Ready
  <1> HIDE DEF k
  <1>3. Meaning!ValueOf(k)' = Meaning!ValueOf(k)
    BY <1>1, <1>2 DEF Meaning!ValueOf, Meaning!Int32Value, Meaning!FloatValue
  <1> QED
    BY <1>1, <1>3

(***************************************************************************)
(* The operands of the next instruction are ready.                         *)
(***************************************************************************)
LEMMA OperandsReady ==
    ASSUME Sound, StageInv, Runnable, RegistersHold, stage = "running", pc \in DOMAIN block,
           ast[block[pc].from].kind \in OperatorKind,
           NEW j \in DOMAIN ast[block[pc].from].kids
    PROVE  Ready(ast[block[pc].from].kids[j])
  <1> DEFINE n == block[pc].from
             k == ast[n].kids[j]
  <1>1. outcome = "done" /\ IsTree(ast) /\ n \in DOMAIN ast
    BY OperationOfNode DEF StageInv, Sound, TypeOK, WalkTypeOK
  <1>2. block[pc].op # "alloca"
    BY OperationOfNode DEF OperatorKind
  <1>3. Meaning!IsNext(n)
    BY <1>2, NextToEvaluate
  <1>4. k # Null
    BY <1>1 DEF Sound, NoErrorMissed, Incomplete, OperatorKind
  <1>5. k \in DOMAIN ast /\ n < k /\ ast[k].last <= ast[n].last
    BY <1>1, <1>4, NodeType, ChildInside
  <1>6. ClosesBefore(ast, k, n)
    <2>1. ast[k].last \in Nat /\ ast[n].last \in Nat
      BY <1>1, <1>5, NodeType
    <2> HIDE DEF k, n
    <2> QED
      BY <1>5, <2>1 DEF ClosesBefore
  <1>7. ast[k].kind \in LeafKind \cup {"Binary"}
    BY <1>1, <1>4 DEF Runnable, TypedTree, OperandsIn, ValueKind, LeafKind
  <1>8. ast[k].kind \in {"VariableRef", "Binary"} => k \in Executed
    <2>1. Meaning!ClosesBefore(ast, k, n)
      BY <1>1, <1>5, <1>6, ClosingOrder
    <2> QED
      BY <1>3, <1>5, <2>1 DEF Meaning!IsNext, Meaning!Evaluated
  <1> HIDE DEF k
  <1>9. Ready(k)
    BY <1>7, <1>8 DEF Ready, RegistersHold, LeafKind
  <1> QED
    BY <1>9 DEF k

(***************************************************************************)
(* Closing order is transitive and total.                                  *)
(***************************************************************************)
LEMMA ClosingChain ==
    ASSUME IsTree(ast), NEW l \in DOMAIN ast, NEW m \in DOMAIN ast, NEW n \in DOMAIN ast,
           Meaning!ClosesBefore(ast, l, m), Meaning!ClosesBefore(ast, m, n)
    PROVE  Meaning!ClosesBefore(ast, l, n)
  <1>1. /\ l \in Nat /\ m \in Nat /\ n \in Nat
        /\ ast[l].last \in Nat /\ ast[m].last \in Nat /\ ast[n].last \in Nat
    BY NodeType
  <1> QED
    BY <1>1 DEF Meaning!ClosesBefore

(***************************************************************************)
(* A name has one binding.                                                 *)
(***************************************************************************)
LEMMA BoundOnce ==
    ASSUME IsTree(ast), NEW n, NEW x, NEW b, NEW c,
           Meaning!Binds(ast, n, x, b), Meaning!Binds(ast, n, x, c)
    PROVE  b = c
  <1>1. b \in DOMAIN ast /\ c \in DOMAIN ast /\ b <= c /\ c <= b
    BY DEF Meaning!Binds
  <1>2. b \in Nat /\ c \in Nat
    BY <1>1, NodeType
  <1> QED
    BY <1>1, <1>2

(***************************************************************************)
(* What evaluating the next node leaves alone.                             *)
(***************************************************************************)
LEMMA EvaluateKeeps ==
    ASSUME RegistersHold, NEW n \in DOMAIN ast, Meaning!Evaluate(n)
    PROVE  /\ ast' = ast /\ literals' = literals /\ api' = api /\ Runnable' = Runnable
           /\ Executed' = Executed \cup {n} /\ n \notin Executed
           /\ ast[n].kind \in Meaning!Evaluated
           /\ \A m \in DOMAIN ast : ast[m].kind \in Meaning!Evaluated =>
                 (Meaning!ClosesBefore(ast, m, n) <=> m \in Executed)
           /\ DOMAIN registers \subseteq DOMAIN registers'
           /\ \A m \in Executed : m \in DOMAIN registers => registers'[m] = registers[m]
           /\ ast[n].kind \in {"VariableRef", "Binary"} => n \in DOMAIN registers'
  <1>1. /\ ast' = ast /\ literals' = literals /\ api' = api /\ Runnable' = Runnable
        /\ Executed' = Executed \cup {n} /\ Meaning!IsNext(n)
    BY DEF Meaning!Evaluate
  <1>2. /\ n \notin Executed
        /\ \A m \in DOMAIN ast : ast[m].kind \in Meaning!Evaluated =>
              (Meaning!ClosesBefore(ast, m, n) <=> m \in Executed)
    BY <1>1 DEF Meaning!IsNext
  <1>3. /\ ast[n].kind \in Meaning!Evaluated
        /\ \/ registers' = registers /\ ast[n].kind \notin {"VariableRef", "Binary"}
           \/ \E v : registers' = Meaning!Sets(registers, n, v)
    BY DEF Meaning!Evaluate, Meaning!EvaluateRef, Meaning!EvaluateAssign, Meaning!EvaluateInt,
           Meaning!EvaluateFloat, Meaning!EvaluateReturn, Meaning!Evaluated
  <1>4. \A v : /\ DOMAIN Meaning!Sets(registers, n, v) = DOMAIN registers \cup {n}
               /\ \A m \in DOMAIN registers :
                     m # n => Meaning!Sets(registers, n, v)[m] = registers[m]
    BY DEF Meaning!Sets
  <1> QED
    BY <1>1, <1>2, <1>3, <1>4

LEMMA OperandsStay ==
    ASSUME RegistersHold, NEW n \in DOMAIN ast, Meaning!Evaluate(n),
           ast[n].kind \in OperatorKind => \A j \in DOMAIN ast[n].kids : Ready(ast[n].kids[j]),
           NEW m \in Executed \cup {n}, ast[m].kind \in OperatorKind,
           NEW j \in DOMAIN ast[m].kids
    PROVE  Meaning!Operand(m, j)' = Meaning!Operand(m, j)
  <1>1. Ready(ast[m].kids[j])
    BY DEF RegistersHold
  <1>2. /\ ast' = ast /\ literals' = literals
        /\ \A k \in Executed : k \in DOMAIN registers => registers'[k] = registers[k]
    BY EvaluateKeeps
  <1> QED
    BY <1>1, <1>2, OperandStays

LEMMA RegistersStep ==
    ASSUME RegistersHold, NEW n \in DOMAIN ast, Meaning!Evaluate(n),
           ast[n].kind \in OperatorKind => \A j \in DOMAIN ast[n].kids : Ready(ast[n].kids[j])
    PROVE  RegistersHold'
  <1>1. \A k : Ready(k) => Ready(k)'
    BY EvaluateKeeps DEF Ready
  <1> QED
    BY <1>1, EvaluateKeeps DEF RegistersHold, Meaning!Evaluated

(***************************************************************************)
(* The variable a name stands for, as an alloca.                           *)
(***************************************************************************)
AllocaOf(b, x) == [block |-> b, name |-> x]

LEMMA AssignsAlloca ==
    ASSUME IsTree(ast), NEW a, NEW b, NEW x, Meaning!Assigns(a, b, x),
           NEW s \in Slot, Meaning!Assigns(a, s.block, s.name)
    PROVE  s = AllocaOf(b, x)
  <1>1. s.name = x /\ s.block = b
    BY BoundOnce DEF Meaning!Assigns
  <1>2. s = [block |-> s.block, name |-> s.name]
    BY DEF Slot
  <1> QED
    BY <1>1, <1>2 DEF AllocaOf

(***************************************************************************)
(* What the allocas hold, when the next node is not an assignment and when *)
(* it is.                                                                  *)
(***************************************************************************)
LEMMA MemoryStays ==
    ASSUME RegistersHold, MemoryHolds, NEW n \in DOMAIN ast, Meaning!Evaluate(n),
           ast[n].kind \in OperatorKind => \A j \in DOMAIN ast[n].kids : Ready(ast[n].kids[j]),
           IsTree(ast), ast[n].kind # "AssignVariable"
    PROVE  MemoryHolds'
  <1>1. memory' = memory /\ ast' = ast /\ Executed' = Executed \cup {n}
    BY DEF Meaning!Evaluate, Meaning!EvaluateRef, Meaning!EvaluateAssign, Meaning!EvaluateInt,
           Meaning!EvaluateFloat, Meaning!EvaluateReturn
  <1>2. \A a, b, x : /\ Meaning!Assigns(a, b, x)' <=> Meaning!Assigns(a, b, x)
                     /\ ~Meaning!Assigns(n, b, x)
    BY <1>1 DEF Meaning!Assigns, Meaning!Binds, Meaning!Encloses, Meaning!Declares
  <1>3. \A s : Variable(s)' = Variable(s)
    BY <1>1, <1>2 DEF Variable
  <1>5. ASSUME NEW s \in DOMAIN memory', NEW a \in Variable(s)
        PROVE  Meaning!Operand(a, 1)' = Meaning!Operand(a, 1)
    <2>1. a \in Executed /\ a \in DOMAIN ast /\ ast[a].kind = "AssignVariable"
      BY DEF Variable, Meaning!Assigns, RegistersHold
    <2>2. 1 \in DOMAIN ast[a].kids
      BY <2>1, NodeType DEF IsTree, Members
    <2> QED
      BY <2>1, <2>2, OperandsStay DEF OperatorKind
  <1>6. ASSUME NEW s \in DOMAIN memory'
        PROVE  \E a \in Variable(s)' : /\ Meaning!LatestIn(Variable(s), a)'
                                       /\ memory'[s] = Meaning!Operand(a, 1)'
    <2>1. PICK a \in Variable(s) : /\ Meaning!LatestIn(Variable(s), a)
                                   /\ memory[s] = Meaning!Operand(a, 1)
      BY <1>1 DEF MemoryHolds
    <2>2. Meaning!LatestIn(Variable(s), a)'
      BY <1>1, <1>3, <2>1 DEF Meaning!LatestIn, Meaning!ClosesBefore
    <2> QED
      BY <1>1, <1>3, <1>5, <2>1, <2>2
  <1>7. \A a \in Executed' : \A b, x :
           Meaning!Assigns(a, b, x)' => [block |-> b, name |-> x] \in DOMAIN memory'
    BY <1>1, <1>2 DEF MemoryHolds
  <1> QED
    BY <1>6, <1>7 DEF MemoryHolds

LEMMA MemoryWritten ==
    ASSUME RegistersHold, MemoryHolds, NEW n \in DOMAIN ast, Meaning!Evaluate(n),
           ast[n].kind \in OperatorKind => \A j \in DOMAIN ast[n].kids : Ready(ast[n].kids[j]),
           IsTree(ast), DOMAIN memory \subseteq Slot, ast[n].kind = "AssignVariable"
    PROVE  MemoryHolds'
  <1>1. /\ ast' = ast /\ Executed' = Executed \cup {n} /\ Meaning!EvaluateAssign(n)
    BY DEF Meaning!Evaluate, Meaning!EvaluateRef, Meaning!EvaluateAssign, Meaning!EvaluateInt,
           Meaning!EvaluateFloat, Meaning!EvaluateReturn
  <1> DEFINE x == ast[n].name
  <1>2. PICK b \in DOMAIN ast :
           /\ Meaning!Binds(ast, n, x, b)
           /\ memory' = Meaning!Sets(memory, AllocaOf(b, x), Meaning!Operand(n, 1))
    BY <1>1 DEF Meaning!EvaluateAssign, AllocaOf
  <1> DEFINE s0 == AllocaOf(b, x)
  <1>3. Meaning!Assigns(n, b, x) /\ s0.block = b /\ s0.name = x
    BY <1>2 DEF Meaning!Assigns, AllocaOf
  <1>4. \A a, c, y : Meaning!Assigns(a, c, y)' <=> Meaning!Assigns(a, c, y)
    BY <1>1 DEF Meaning!Assigns, Meaning!Binds, Meaning!Encloses, Meaning!Declares
  <1>5. /\ DOMAIN memory' = DOMAIN memory \cup {s0} /\ memory'[s0] = Meaning!Operand(n, 1)
        /\ \A s \in DOMAIN memory : s # s0 => memory'[s] = memory[s]
    BY <1>2 DEF Meaning!Sets
  <1>6. \A s \in DOMAIN memory : s # s0 => Variable(s)' = Variable(s)
    <2>1. ASSUME NEW s \in DOMAIN memory, s # s0
          PROVE  ~Meaning!Assigns(n, s.block, s.name)
      BY <1>3, <2>1, AssignsAlloca
    <2> QED
      BY <1>1, <1>4, <2>1 DEF Variable
  <1>7. ASSUME NEW a \in Executed \cup {n}, NEW c, NEW y, Meaning!Assigns(a, c, y)
        PROVE  Meaning!Operand(a, 1)' = Meaning!Operand(a, 1)
    <2>1. a \in DOMAIN ast /\ ast[a].kind = "AssignVariable"
      BY <1>7 DEF Meaning!Assigns, RegistersHold
    <2>2. 1 \in DOMAIN ast[a].kids
      BY <2>1, NodeType DEF IsTree, Members
    <2> QED
      BY <2>1, <2>2, OperandsStay DEF OperatorKind
  <1>8. ASSUME NEW s \in DOMAIN memory, s # s0
        PROVE  \E a \in Variable(s)' : /\ Meaning!LatestIn(Variable(s), a)'
                                       /\ memory'[s] = Meaning!Operand(a, 1)'
    <2>1. PICK a \in Variable(s) : /\ Meaning!LatestIn(Variable(s), a)
                                   /\ memory[s] = Meaning!Operand(a, 1)
      BY DEF MemoryHolds
    <2>2. Meaning!LatestIn(Variable(s), a)'
      BY <1>1, <1>6, <1>8, <2>1 DEF Meaning!LatestIn, Meaning!ClosesBefore
    <2>3. Meaning!Operand(a, 1)' = Meaning!Operand(a, 1)
      BY <1>7 DEF Variable
    <2> QED
      BY <1>5, <1>6, <1>8, <2>1, <2>2, <2>3
  <1>9. ASSUME NEW s, s = s0
        PROVE  \E a \in Variable(s)' : /\ Meaning!LatestIn(Variable(s), a)'
                                       /\ memory'[s] = Meaning!Operand(a, 1)'
    <2>1. n \in Variable(s)'
      BY <1>1, <1>3, <1>4, <1>9 DEF Variable
    <2>2. \A c \in Executed : Meaning!ClosesBefore(ast, c, n)
      BY EvaluateKeeps DEF RegistersHold
    <2>3. \A c \in Variable(s)' : c = n \/ Meaning!ClosesBefore(ast, c, n)
      BY <1>1, <2>2 DEF Variable
    <2>4. Meaning!LatestIn(Variable(s), n)'
      BY <1>1, <2>1, <2>3 DEF Meaning!LatestIn, Meaning!ClosesBefore
    <2>5. Meaning!Operand(n, 1)' = Meaning!Operand(n, 1)
      BY <1>3, <1>7
    <2> QED
      BY <1>5, <1>9, <2>1, <2>4, <2>5
  <1>10. ASSUME NEW a \in Executed', NEW c, NEW y, Meaning!Assigns(a, c, y)'
         PROVE  [block |-> c, name |-> y] \in DOMAIN memory'
    <2>1. Meaning!Assigns(a, c, y)
      BY <1>4, <1>10
    <2>2. CASE a = n
      <3>1. c = b /\ y = x
        BY <1>2, <2>1, <2>2, BoundOnce DEF Meaning!Assigns
      <3> QED
        BY <1>5, <3>1 DEF AllocaOf
    <2>3. CASE a \in Executed
      BY <1>5, <2>1, <2>3 DEF MemoryHolds
    <2> QED
      BY <1>1, <2>2, <2>3
  <1>11. ASSUME NEW s \in DOMAIN memory'
         PROVE  \E a \in Variable(s)' : /\ Meaning!LatestIn(Variable(s), a)'
                                        /\ memory'[s] = Meaning!Operand(a, 1)'
    BY <1>5, <1>8, <1>9
  <1> QED
    BY <1>10, <1>11 DEF MemoryHolds

(***************************************************************************)
(* The values computed so far stay what the tree means.                    *)
(***************************************************************************)
LEMMA MeaningStays ==
    ASSUME RegistersHold, ValuesMean, NEW n \in DOMAIN ast, Meaning!Evaluate(n),
           ast[n].kind \in OperatorKind => \A j \in DOMAIN ast[n].kids : Ready(ast[n].kids[j]),
           IsTree(ast), NEW m \in Executed
    PROVE  Meaning!NodeMeans(m)'
  <1>1. /\ ast' = ast /\ m \in DOMAIN ast /\ ast[m].kind \in Meaning!Evaluated
        /\ Meaning!NodeMeans(m) /\ Meaning!ClosesBefore(ast, m, n)
    BY EvaluateKeeps DEF RegistersHold, ValuesMean
  <1>2. ast[m].kind \in {"VariableRef", "Binary"} => registers'[m] = registers[m]
    BY EvaluateKeeps DEF RegistersHold
  <1>3. CASE ast[m].kind = "Binary"
    <2>1. 1 \in DOMAIN ast[m].kids /\ 2 \in DOMAIN ast[m].kids
      BY <1>1, <1>3, NodeType DEF IsTree, Members
    <2>2. /\ Meaning!Operand(m, 1)' = Meaning!Operand(m, 1)
          /\ Meaning!Operand(m, 2)' = Meaning!Operand(m, 2)
      BY <1>3, <2>1, OperandsStay DEF OperatorKind
    <2>3. Meaning!BinaryMeans(m)
      BY <1>1, <1>3 DEF Meaning!NodeMeans
    <2>4. Meaning!BinaryMeans(m)'
      BY <1>1, <1>2, <1>3, <2>2, <2>3
         DEF Meaning!BinaryMeans, Meaning!Traps, Meaning!IntResult, Meaning!FloatResult,
             Meaning!Int32Value, Meaning!Wrap, Meaning!Quotient, Meaning!Abs
    <2> QED
      BY <1>1, <1>3, <2>4 DEF Meaning!NodeMeans
  <1>4. CASE ast[m].kind = "VariableRef"
    <2> DEFINE x == ast[m].name
    <2>1. PICK b \in DOMAIN ast :
             /\ Meaning!Binds(ast, m, x, b)
             /\ LET before == Meaning!Earlier(m, b, x) IN
                \/ before = {} /\ registers[m] \in Meaning!Unset(Meaning!TypeName(ast[m].dataType))
                \/ \E a \in before : /\ Meaning!LatestIn(before, a)
                                     /\ registers[m] = Meaning!Operand(a, 1)
      BY <1>1, <1>4 DEF Meaning!NodeMeans, Meaning!RefMeans
    <2> DEFINE before == Meaning!Earlier(m, b, x)
    <2>2. before' = before
      BY <1>1 DEF Meaning!Earlier, Meaning!Assigns, Meaning!Binds, Meaning!Encloses,
                  Meaning!Declares, Meaning!ClosesBefore
    <2>3. ASSUME NEW a \in before
          PROVE  Meaning!Operand(a, 1)' = Meaning!Operand(a, 1)
      <3>1. /\ a \in DOMAIN ast /\ ast[a].kind = "AssignVariable"
            /\ Meaning!ClosesBefore(ast, a, m)
        BY DEF Meaning!Earlier, Meaning!Assigns
      <3>2. Meaning!ClosesBefore(ast, a, n)
        BY <1>1, <3>1, ClosingChain
      <3>3. a \in Executed
        BY <3>1, <3>2, EvaluateKeeps DEF Meaning!Evaluated
      <3>4. 1 \in DOMAIN ast[a].kids
        BY <3>1, NodeType DEF IsTree, Members
      <3> QED
        BY <3>1, <3>3, <3>4, OperandsStay DEF OperatorKind
    <2>4. \/ before = {} /\ registers'[m] \in Meaning!Unset(Meaning!TypeName(ast'[m].dataType))
          \/ \E a \in before : /\ Meaning!LatestIn(before, a)
                               /\ registers'[m] = Meaning!Operand(a, 1)'
      BY <1>1, <1>2, <1>4, <2>1, <2>3
    <2>5. \A a \in before : Meaning!LatestIn(before, a)' <=> Meaning!LatestIn(before, a)
      BY <1>1, <2>2 DEF Meaning!LatestIn, Meaning!ClosesBefore
    <2>6. Meaning!Binds(ast, m, x, b)'
      BY <1>1, <2>1 DEF Meaning!Binds, Meaning!Encloses, Meaning!Declares
    <2>7. Meaning!RefMeans(m)'
      BY <1>1, <2>2, <2>4, <2>5, <2>6
         DEF Meaning!RefMeans, Meaning!Unset, Meaning!TypeName, Meaning!Int32Value, Meaning!Word
    <2> QED
      BY <1>1, <1>4, <2>7 DEF Meaning!NodeMeans
  <1> QED
    BY <1>1, <1>3, <1>4 DEF Meaning!NodeMeans

(***************************************************************************)
(* The value of the node evaluated is what the tree means.                 *)
(***************************************************************************)
LEMMA MeaningOfNext ==
    ASSUME RegistersHold, MemoryHolds, NEW n \in DOMAIN ast, Meaning!Evaluate(n),
           ast[n].kind \in OperatorKind => \A j \in DOMAIN ast[n].kids : Ready(ast[n].kids[j]),
           IsTree(ast), DOMAIN memory \subseteq Slot
    PROVE  Meaning!NodeMeans(n)'
  <1>1. /\ ast' = ast /\ Meaning!IsNext(n)
        /\ \/ Meaning!EvaluateRef(n) \/ Meaning!EvaluateAssign(n) \/ Meaning!EvaluateInt(n)
           \/ Meaning!EvaluateFloat(n) \/ Meaning!EvaluateReturn(n)
    BY DEF Meaning!Evaluate
  <1>2. \A v : Meaning!Sets(registers, n, v)[n] = v
    BY DEF Meaning!Sets
  <1>3. CASE Meaning!EvaluateInt(n) \/ Meaning!EvaluateFloat(n)
    <2>1. ast[n].kind = "Binary"
      BY <1>3 DEF Meaning!EvaluateInt, Meaning!EvaluateFloat
    <2>2. 1 \in DOMAIN ast[n].kids /\ 2 \in DOMAIN ast[n].kids
      BY <2>1, NodeType DEF IsTree, Members
    <2>3. /\ Meaning!Operand(n, 1)' = Meaning!Operand(n, 1)
          /\ Meaning!Operand(n, 2)' = Meaning!Operand(n, 2)
      BY <2>1, <2>2, OperandsStay DEF OperatorKind
    <2>4. Meaning!BinaryMeans(n)'
      BY <1>1, <1>2, <1>3, <2>3
         DEF Meaning!BinaryMeans, Meaning!EvaluateInt, Meaning!EvaluateFloat, Meaning!Traps,
             Meaning!IntResult, Meaning!FloatResult, Meaning!Int32Value, Meaning!Wrap,
             Meaning!Quotient, Meaning!Abs
    <2> QED
      BY <1>1, <2>1, <2>4 DEF Meaning!NodeMeans
  <1>4. CASE Meaning!EvaluateRef(n)
    <2> DEFINE x == ast[n].name
    <2>1. PICK b \in DOMAIN ast :
             /\ Meaning!Binds(ast, n, x, b)
             /\ \E v \in (IF AllocaOf(b, x) \in DOMAIN memory THEN {memory[AllocaOf(b, x)]}
                          ELSE Meaning!Unset(Meaning!TypeName(ast[n].dataType))) :
                   registers' = Meaning!Sets(registers, n, v)
      BY <1>4 DEF Meaning!EvaluateRef, AllocaOf
    <2>2. ast[n].kind = "VariableRef"
      BY <1>4 DEF Meaning!EvaluateRef
    <2> DEFINE before == Meaning!Earlier(n, b, x)
               s == AllocaOf(b, x)
    <2>3. before' = before
      BY <1>1 DEF Meaning!Earlier, Meaning!Assigns, Meaning!Binds, Meaning!Encloses,
                  Meaning!Declares, Meaning!ClosesBefore
    <2>4. before = Variable(s)
      <3>1. s.block = b /\ s.name = x
        BY DEF AllocaOf
      <3>2. \A a : Meaning!Assigns(a, b, x) => ast[a].kind \in Meaning!Evaluated
        BY DEF Meaning!Assigns, Meaning!Evaluated
      <3>3. \A a \in DOMAIN ast : Meaning!Assigns(a, b, x) =>
                                     (Meaning!ClosesBefore(ast, a, n) <=> a \in Executed)
        BY <3>2, EvaluateKeeps
      <3>4. Executed \subseteq DOMAIN ast
        BY DEF RegistersHold
      <3> HIDE DEF s
      <3> QED
        BY <3>1, <3>3, <3>4 DEF Meaning!Earlier, Variable
    <2>5. \/ before = {} /\ registers'[n] \in Meaning!Unset(Meaning!TypeName(ast[n].dataType))
          \/ \E a \in before : /\ Meaning!LatestIn(before, a)
                               /\ registers'[n] = Meaning!Operand(a, 1)
      <3>1. CASE s \in DOMAIN memory
        <4>1. registers'[n] = memory[s]
          BY <1>2, <2>1, <3>1
        <4> QED
          BY <2>4, <3>1, <4>1 DEF MemoryHolds
      <3>2. CASE s \notin DOMAIN memory
        <4>1. Variable(s) = {}
          <5>1. s.block = b /\ s.name = x
            BY DEF AllocaOf
          <5> QED
            BY <3>2, <5>1 DEF Variable, MemoryHolds, AllocaOf
        <4> QED
          BY <1>2, <2>1, <2>4, <3>2, <4>1
      <3> QED
        BY <3>1, <3>2
    <2>6. ASSUME NEW a \in before
          PROVE  Meaning!Operand(a, 1)' = Meaning!Operand(a, 1)
      <3>1. a \in Executed /\ a \in DOMAIN ast /\ ast[a].kind = "AssignVariable"
        BY <2>4 DEF Variable, Meaning!Assigns, RegistersHold
      <3>2. 1 \in DOMAIN ast[a].kids
        BY <3>1, NodeType DEF IsTree, Members
      <3> QED
        BY <3>1, <3>2, OperandsStay DEF OperatorKind
    <2>7. \A a \in before : Meaning!LatestIn(before, a)' <=> Meaning!LatestIn(before, a)
      BY <1>1, <2>3 DEF Meaning!LatestIn, Meaning!ClosesBefore
    <2>8. Meaning!Binds(ast, n, x, b)'
      BY <1>1, <2>1 DEF Meaning!Binds, Meaning!Encloses, Meaning!Declares
    <2>9. Meaning!RefMeans(n)'
      BY <1>1, <2>3, <2>5, <2>6, <2>7, <2>8
         DEF Meaning!RefMeans, Meaning!Unset, Meaning!TypeName, Meaning!Int32Value, Meaning!Word
    <2> QED
      BY <1>1, <2>2, <2>9 DEF Meaning!NodeMeans
  <1>5. CASE Meaning!EvaluateAssign(n) \/ Meaning!EvaluateReturn(n)
    BY <1>1, <1>5 DEF Meaning!EvaluateAssign, Meaning!EvaluateReturn, Meaning!NodeMeans
  <1> QED
    BY <1>1, <1>3, <1>4, <1>5

(***************************************************************************)
(* When ret is executed, everything has been.                              *)
(***************************************************************************)
LEMMA AnswerIsMeant ==
    ASSUME Sound, StageInv, Runnable, RegistersHold, RunRet
    PROVE  Meaning!AnswerMeans'
  <1>1. /\ stage = "running" /\ pc \in DOMAIN block /\ block[pc].op = "ret" /\ pc' = pc + 1
        /\ ast' = ast /\ block' = block /\ outcome = "done"
        /\ UNCHANGED <<vars, api, initialized, literals>>
    BY DEF RunRet, Running, StageInv, vars, walkerVars, visitorVars
  <1>2. PICK n \in DOMAIN ast : /\ n = block[pc].from /\ ast[n].kind = "Return"
                                /\ Meaning!Evaluate(n)
    BY <1>1, RetEvaluates, OperationOfNode
  <1>3. pc = Len(block) /\ DOMAIN block = 1 .. Len(block) /\ Len(block) \in Nat
    BY <1>1, EndsWell DEF EndsInRet, Sound, TypeOK
  <1>4. ASSUME NEW m \in DOMAIN ast, ast[m].kind \in Meaning!Evaluated
        PROVE  m \in Executed'
    <2>1. PICK k \in DOMAIN block : block[k].from = m
      BY <1>1, <1>4 DEF Sound, SsaCode, AllCompiled, CompiledKind, OperatorKind,
                        Meaning!Evaluated
    <2>2. block[k].op # "alloca"
      BY <1>4, <2>1, OperationOfNode DEF Meaning!Evaluated
    <2>3. k \in 1 .. (pc' - 1)
      BY <1>1, <1>3
    <2> QED
      BY <1>1, <2>1, <2>2, <2>3 DEF Executed
  <1>5. result' = Meaning!Operand(n, 1)
    BY <1>2 DEF Meaning!Evaluate, Meaning!EvaluateRef, Meaning!EvaluateAssign,
                Meaning!EvaluateInt, Meaning!EvaluateFloat, Meaning!EvaluateReturn
  <1>6. Meaning!Operand(n, 1)' = Meaning!Operand(n, 1)
    <2>1. 1 \in DOMAIN ast[n].kids
      BY <1>2, NodeType DEF Sound, TypeOK, WalkTypeOK, IsTree, Members
    <2>2. \A j \in DOMAIN ast[n].kids : Ready(ast[n].kids[j])
      BY <1>1, <1>2, OperandsReady DEF OperatorKind
    <2> QED
      BY <1>2, <2>1, <2>2, OperandsStay DEF OperatorKind
  <1>7. \E r \in DOMAIN ast : ast[r].kind = "Return" /\ result' = Meaning!Operand(r, 1)'
    BY <1>2, <1>5, <1>6
  <1> QED
    BY <1>1, <1>4, <1>7 DEF Meaning!AnswerMeans, Meaning!Evaluated

LEMMA EvaluateStep ==
    ASSUME Sound, StageInv, RunnerTypeOK, MeaningInv, Runnable,
           RunStore \/ RunLoad \/ RunOperation \/ RunRet
    PROVE  MeaningInv'
  <1>1. PICK n \in DOMAIN ast : n = block[pc].from /\ Meaning!Evaluate(n)
    BY StoreEvaluates, LoadEvaluates, OperationEvaluates, RetEvaluates
  <1>2. stage = "running" /\ pc \in DOMAIN block /\ IsTree(ast) /\ DOMAIN memory \subseteq Slot
    BY DEF RunStore, RunLoad, RunOperation, RunRet, Running, RunnerTypeOK, Sound, TypeOK,
           WalkTypeOK
  <1>3. RegistersHold /\ MemoryHolds /\ ValuesMean
    BY DEF MeaningInv
  <1>4. ast[n].kind \in OperatorKind => \A j \in DOMAIN ast[n].kids : Ready(ast[n].kids[j])
    BY <1>1, <1>2, <1>3, OperandsReady
  <1>5. RegistersHold'
    BY <1>1, <1>3, <1>4, RegistersStep
  <1>6. MemoryHolds'
    BY <1>1, <1>2, <1>3, <1>4, MemoryStays, MemoryWritten
  <1>7. ValuesMean'
    <2>1. Executed' = Executed \cup {n}
      BY <1>1, <1>3, EvaluateKeeps
    <2>2. \A m \in Executed : Meaning!NodeMeans(m)'
      BY <1>1, <1>2, <1>3, <1>4, MeaningStays
    <2>3. Meaning!NodeMeans(n)'
      BY <1>1, <1>2, <1>3, <1>4, MeaningOfNext
    <2> QED
      BY <2>1, <2>2, <2>3 DEF ValuesMean
  <1>8. Answers'
    <2>1. CASE RunRet
      BY <1>3, <2>1, AnswerIsMeant DEF Answers
    <2>2. CASE RunStore \/ RunLoad \/ RunOperation
      BY <1>2, <2>2 DEF RunStore, RunLoad, RunOperation, Advance, Answers
    <2> QED
      BY <2>1, <2>2
  <1> QED
    BY <1>5, <1>6, <1>7, <1>8 DEF MeaningInv

(***************************************************************************)
(* What is said of an evaluation depends on its state alone.               *)
(***************************************************************************)
LEMMA MeaningSame ==
    ASSUME UNCHANGED <<ast, literals, memory, registers, Executed>>,
           RegistersHold, MemoryHolds, ValuesMean
    PROVE  RegistersHold' /\ MemoryHolds' /\ ValuesMean'
  <1>1. RegistersHold'
    BY DEF RegistersHold, Ready, Meaning!Evaluated
  <1>2. \A n, j : Meaning!Operand(n, j)' = Meaning!Operand(n, j)
    BY DEF Meaning!Operand, Meaning!ValueOf, Meaning!Int32Value, Meaning!FloatValue
  <1>3. \A a, b, x : Meaning!Assigns(a, b, x)' <=> Meaning!Assigns(a, b, x)
    BY DEF Meaning!Assigns, Meaning!Binds, Meaning!Encloses, Meaning!Declares
  <1>4. \A s : Variable(s)' = Variable(s)
    BY <1>3 DEF Variable
  <1>5. MemoryHolds'
    <2>1. ASSUME NEW s \in DOMAIN memory'
          PROVE  \E a \in Variable(s)' : /\ Meaning!LatestIn(Variable(s), a)'
                                         /\ memory'[s] = Meaning!Operand(a, 1)'
      <3>1. PICK a \in Variable(s) : /\ Meaning!LatestIn(Variable(s), a)
                                     /\ memory[s] = Meaning!Operand(a, 1)
        BY DEF MemoryHolds
      <3>2. Meaning!LatestIn(Variable(s), a)'
        BY <1>4, <3>1 DEF Meaning!LatestIn, Meaning!ClosesBefore
      <3> QED
        BY <1>2, <1>4, <3>1, <3>2
    <2>2. \A a \in Executed' : \A b, x :
             Meaning!Assigns(a, b, x)' => [block |-> b, name |-> x] \in DOMAIN memory'
      BY <1>3 DEF MemoryHolds
    <2> QED
      BY <2>1, <2>2 DEF MemoryHolds
  <1>6. ASSUME NEW m \in Executed
        PROVE  Meaning!NodeMeans(m)'
    <2>1. Meaning!NodeMeans(m)
      BY DEF ValuesMean
    <2>2. Meaning!BinaryMeans(m) => Meaning!BinaryMeans(m)'
      BY <1>2 DEF Meaning!BinaryMeans, Meaning!Traps, Meaning!IntResult, Meaning!FloatResult,
                  Meaning!Int32Value, Meaning!Wrap, Meaning!Quotient, Meaning!Abs
    <2>3. Meaning!RefMeans(m) => Meaning!RefMeans(m)'
      <3>1. \A b, x : Meaning!Earlier(m, b, x)' = Meaning!Earlier(m, b, x)
        BY <1>3 DEF Meaning!Earlier, Meaning!ClosesBefore
      <3>2. \A b, x : Meaning!Binds(ast, m, x, b)' <=> Meaning!Binds(ast, m, x, b)
        BY DEF Meaning!Binds, Meaning!Encloses, Meaning!Declares
      <3>3. \A S, a : Meaning!LatestIn(S, a)' <=> Meaning!LatestIn(S, a)
        BY DEF Meaning!LatestIn, Meaning!ClosesBefore
      <3> QED
        BY <1>2, <3>1, <3>2, <3>3
           DEF Meaning!RefMeans, Meaning!Unset, Meaning!TypeName, Meaning!Int32Value,
               Meaning!Word
    <2> QED
      BY <2>1, <2>2, <2>3 DEF Meaning!NodeMeans
  <1> QED
    BY <1>1, <1>5, <1>6 DEF ValuesMean

LEMMA MeaningStep ==
    ASSUME Sound, StageInv, RunnerTypeOK, MeaningInv, [RunnerNext]_runnerVars
    PROVE  MeaningInv'
  <1>1. ast' = ast /\ Runnable' = Runnable
    BY TreeStays, RunnableStays DEF Sound
  <1>2. CASE ~Runnable
    BY <1>1, <1>2 DEF MeaningInv
  <1>3. CASE Runnable /\ (RunStore \/ RunLoad \/ RunOperation \/ RunRet)
    BY <1>3, EvaluateStep
  <1>4. CASE /\ Runnable
             /\ \/ Initialize \/ Refuse \/ ReadsNoType \/ NoTarget \/ Begin
                \/ Compile \/ CompileFails \/ CompileReturns \/ Link \/ Call
    <2>1. pc = 1 /\ pc' = 1 /\ memory' = memory
      BY <1>4 DEF StageInv, Initialize, Refuse, ReadsNoType, NoTarget, Begin, Compile,
                  CompileFails,
                  CompileReturns, Link, Call, Ends, runVars
    <2>2. Executed = {} /\ Executed' = {}
      BY <2>1 DEF Executed
    <2>3. DOMAIN memory = {}
      BY <1>4, <2>2 DEF MeaningInv, MemoryHolds, Variable
    <2>4. stage' = "returned" => api' = "compile"
      BY <1>4 DEF Initialize, Refuse, ReadsNoType, NoTarget, Begin, Compile, CompileFails,
                  CompileReturns, Link, Call, Ends, Undefined
    <2> QED
      BY <2>1, <2>2, <2>3, <2>4 DEF MeaningInv, RegistersHold, MemoryHolds, ValuesMean, Answers
  <1>5. CASE Runnable /\ (RunAlloca \/ RunTrap \/ UNCHANGED runnerVars)
    <2>1. UNCHANGED <<ast, block, literals, memory, registers, result, api>>
      BY <1>5 DEF RunAlloca, RunTrap, Advance, Ends, runnerVars, runVars, vars, walkerVars,
                  visitorVars
    <2>2. Executed' = Executed
      <3>1. CASE RunAlloca
        <4>1. /\ pc \in DOMAIN block /\ block[pc].op = "alloca" /\ pc' = pc + 1
              /\ block \in Seq(Instruction)
          BY <3>1 DEF RunAlloca, Running, Advance, Sound, TypeOK
        <4> QED
          BY <2>1, <4>1, ExecutedGrows
      <3>2. CASE RunTrap \/ UNCHANGED runnerVars
        <4>1. pc' = pc
          BY <3>2 DEF RunTrap, Ends, runnerVars, runVars
        <4> QED
          BY <2>1, <4>1, ExecutedStays
      <3> QED
        BY <1>5, <3>1, <3>2
    <2>3. RegistersHold' /\ MemoryHolds' /\ ValuesMean'
      BY <1>5, <2>1, <2>2, MeaningSame DEF MeaningInv
    <2>4. stage' = "returned" => stage = "returned"
      BY <1>5 DEF RunAlloca, RunTrap, Advance, Running, Ends, runnerVars, Undefined
    <2>5. Meaning!AnswerMeans => Meaning!AnswerMeans'
      BY <2>1, <2>2 DEF Meaning!AnswerMeans, Meaning!Evaluated, Meaning!Operand,
                        Meaning!ValueOf, Meaning!Int32Value, Meaning!FloatValue
    <2> QED
      BY <1>5, <2>1, <2>3, <2>4, <2>5 DEF MeaningInv, Answers
  <1> QED
    BY <1>2, <1>3, <1>4, <1>5 DEF RunnerNext, CallGoesOn, Execute

(***************************************************************************)
(* For every expression that is promised a meaning, every width of an int  *)
(* and all values of literals and of memory nothing was stored to, what a  *)
(* call computes and returns is what the tree means.                       *)
(***************************************************************************)
THEOREM CallComputesMeaning == RunnerSafety => []ComputesMeaning
  <1>1. RunnerInit => MeaningInv
    <2> SUFFICES ASSUME RunnerInit
                 PROVE  MeaningInv
      OBVIOUS
    <2>1. pc = 1 /\ DOMAIN memory = {} /\ stage = "start"
      BY DEF RunnerInit
    <2>2. Executed = {}
      BY <2>1 DEF Executed
    <2> QED
      BY <2>1, <2>2 DEF MeaningInv, RegistersHold, MemoryHolds, ValuesMean, Answers
  <1>2. MeaningInv => ComputesMeaning
    BY DEF MeaningInv, ComputesMeaning, ValuesMean, Answers, Meaning!Means, Final
  <1> QED
    BY <1>1, <1>2, MeaningStep, CallIsSound, CallPassesStages, RunnerTypeCorrect, PTL
       DEF RunnerSafety

-----------------------------------------------------------------------------
(* What is left to do                                                      *)

(***************************************************************************)
(* Six counts, of which the four in the middle are compared as one.        *)
(***************************************************************************)
Six(s, w, k) == <<s, w[1], w[2], w[3], w[4], k>>

LEMMA BelowSix ==
    ASSUME NEW s \in Nat, NEW t \in Nat, NEW k \in Nat, NEW l \in Nat, NEW v, NEW w,
           DOMAIN w = 1 .. 4, \A i \in 1 .. 4 : v[i] \in Nat /\ w[i] \in Nat,
           \/ s < t
           \/ s = t /\ Below(v, w)
           \/ s = t /\ v = w /\ k < l
    PROVE  Below(Six(s, v, k), Six(t, w, l))
  <1> DEFINE a == Six(s, v, k)
             b == Six(t, w, l)
  <1> SUFFICES Below(a, b)
    OBVIOUS
  <1>1. /\ DOMAIN b = 1 .. 6
        /\ a[1] = s /\ a[2] = v[1] /\ a[3] = v[2] /\ a[4] = v[3] /\ a[5] = v[4] /\ a[6] = k
        /\ b[1] = t /\ b[2] = w[1] /\ b[3] = w[2] /\ b[4] = w[3] /\ b[5] = w[4] /\ b[6] = l
    BY DEF Six
  <1> HIDE DEF a, b
  <1>2. \A i \in 1 .. 6 : i = 1 \/ i = 2 \/ i = 3 \/ i = 4 \/ i = 5 \/ i = 6
    OBVIOUS
  <1>3. /\ v[1] \in Nat /\ v[2] \in Nat /\ v[3] \in Nat /\ v[4] \in Nat
        /\ w[1] \in Nat /\ w[2] \in Nat /\ w[3] \in Nat /\ w[4] \in Nat
    BY 1 \in 1 .. 4, 2 \in 1 .. 4, 3 \in 1 .. 4, 4 \in 1 .. 4
  <1>4. \A i \in DOMAIN b : a[i] \in Nat
    BY <1>1, <1>2, <1>3
  <1>5. ASSUME NEW i \in 1 .. 6, a[i] < b[i], \A j \in 1 .. (i - 1) : a[j] = b[j]
        PROVE  Below(a, b)
    BY <1>1, <1>4, <1>5 DEF Below
  <1>6. CASE s < t
    <2>1. \A j \in 1 .. (1 - 1) : a[j] = b[j]
      OBVIOUS
    <2> QED
      BY <1>1, <1>5, <1>6, <2>1, 1 \in 1 .. 6
  <1>7. CASE s = t /\ Below(v, w)
    <2>1. PICK i \in 1 .. 4 : v[i] < w[i] /\ \A j \in 1 .. (i - 1) : v[j] = w[j]
      BY <1>7 DEF Below
    <2>2. \A j \in 1 .. 4 : a[j + 1] = v[j] /\ b[j + 1] = w[j]
      <3> SUFFICES ASSUME NEW j \in 1 .. 4
                   PROVE  a[j + 1] = v[j] /\ b[j + 1] = w[j]
        OBVIOUS
      <3>1. j = 1 \/ j = 2 \/ j = 3 \/ j = 4
        OBVIOUS
      <3> QED
        BY <1>1, <3>1
    <2>3. a[i + 1] < b[i + 1]
      BY <2>1, <2>2
    <2>4. ASSUME NEW j \in 1 .. ((i + 1) - 1)
          PROVE  a[j] = b[j]
      <3>1. CASE j = 1
        BY <1>1, <1>7, <3>1
      <3>2. CASE j # 1
        <4>1. (j - 1) \in 1 .. (i - 1) /\ (j - 1) \in 1 .. 4 /\ (j - 1) + 1 = j
          BY <3>2
        <4>2. v[j - 1] = w[j - 1]
          BY <2>1, <4>1
        <4>3. a[(j - 1) + 1] = v[j - 1] /\ b[(j - 1) + 1] = w[j - 1]
          BY <2>2, <4>1
        <4> QED
          BY <4>1, <4>2, <4>3
      <3> QED
        BY <3>1, <3>2
    <2> QED
      BY <1>5, <2>3, <2>4, (i + 1) \in 1 .. 6
  <1>8. CASE s = t /\ v = w /\ k < l
    <2>1. ASSUME NEW j \in 1 .. (6 - 1)
          PROVE  a[j] = b[j]
      <3>1. j = 1 \/ j = 2 \/ j = 3 \/ j = 4 \/ j = 5
        OBVIOUS
      <3> QED
        BY <1>1, <1>8, <3>1
    <2> QED
      BY <1>1, <1>5, <1>8, <2>1, 6 \in 1 .. 6
  <1> QED
    BY <1>6, <1>7, <1>8

(***************************************************************************)
(* The counts of a call's stages, of the walk and of the instructions.     *)
(***************************************************************************)
CallCounts == StagesAhead \in Nat /\ WorkCounts /\ Len(block) + 1 - pc \in Nat

LEMMA CallIsCounted == RunnerTypeOK /\ WorkCounts => CallCounts
  <1> SUFFICES ASSUME RunnerTypeOK, WorkCounts
               PROVE  CallCounts
    OBVIOUS
  <1>1. StagesAhead \in Nat
    BY DEF RunnerTypeOK, Stage, StagesAhead
  <1>2. Len(block) + 1 - pc \in Nat
    BY DEF RunnerTypeOK, TypeOK
  <1> QED
    BY <1>1, <1>2 DEF CallCounts

LEMMA CallStep ==
    ASSUME Sound, RunnerTypeOK, CallCounts, CallCounts', RunnerNext
    PROVE  Below(CallWork', CallWork)
  <1> DEFINE ahead == Len(block) + 1 - pc
  <1>1. /\ StagesAhead \in Nat /\ ahead \in Nat
        /\ StagesAhead' \in Nat /\ ahead' \in Nat
    BY DEF CallCounts
  <1>2. /\ DOMAIN WalkWork = 1 .. 4
        /\ \A i \in 1 .. 4 : WalkWork'[i] \in Nat /\ WalkWork[i] \in Nat
    <2> SUFFICES ASSUME NEW i \in 1 .. 4
                 PROVE  WalkWork'[i] \in Nat /\ WalkWork[i] \in Nat
      BY DEF WalkWork
    <2> DEFINE walking == IF outcome = "walking" THEN 1 ELSE 0
               nodes   == Len(ast) - Len(trace)
               depth   == Len(calls)
    <2>1. i = 1 \/ i = 2 \/ i = 3 \/ i = 4
      OBVIOUS
    <2>2. /\ WalkWork  = <<walking, nodes, depth, ChildrenAhead>>
          /\ WalkWork' = <<walking', nodes', depth', ChildrenAhead'>>
      BY DEF WalkWork
    <2>3. /\ walking \in Nat /\ nodes \in Nat /\ depth \in Nat /\ ChildrenAhead \in Nat
          /\ walking' \in Nat /\ nodes' \in Nat /\ depth' \in Nat /\ ChildrenAhead' \in Nat
      BY DEF CallCounts, WorkCounts
    <2> HIDE DEF walking, nodes, depth
    <2> QED
      BY <2>1, <2>2, <2>3
  <1>3. /\ CallWork = Six(StagesAhead, WalkWork, ahead)
        /\ CallWork' = Six(StagesAhead', WalkWork', ahead')
    BY DEF CallWork, Six
  <1>4. \/ StagesAhead' < StagesAhead
        \/ StagesAhead' = StagesAhead /\ Below(WalkWork', WalkWork)
        \/ StagesAhead' = StagesAhead /\ WalkWork' = WalkWork /\ ahead' < ahead
    <2>1. CASE Compile
      <3>1. /\ StagesAhead' = StagesAhead
            /\ WalkNext
        BY <2>1, HandlerWalks DEF Compile, StagesAhead
      <3> QED
        BY <3>1, WorkStep DEF CallCounts, Sound, TypeOK
    <2>2. CASE Initialize \/ Refuse \/ ReadsNoType \/ NoTarget \/ Begin \/ CompileFails \/ CompileReturns \/ Link
      BY <2>2 DEF Initialize, Refuse, ReadsNoType, NoTarget, Begin, CompileFails,
                  CompileReturns, Link, Ends,
                  StagesAhead, Undefined
    <2>3. CASE Call \/ RunTrap \/ RunRet
      BY <2>3 DEF Call, RunTrap, RunRet, Running, Ends, StagesAhead, Undefined
    <2>4. CASE RunAlloca \/ RunStore \/ RunLoad \/ RunOperation
      <3>1. /\ StagesAhead' = StagesAhead /\ UNCHANGED vars /\ pc' = pc + 1
        BY <2>4 DEF RunAlloca, RunStore, RunLoad, RunOperation, Running, Advance, StagesAhead
      <3>2. WalkWork' = WalkWork /\ block' = block
        BY <3>1 DEF vars, walkerVars, visitorVars, WalkWork, ChildrenAhead, Top
      <3>3. ahead' < ahead
        BY <3>1, <3>2 DEF RunnerTypeOK, TypeOK
      <3> QED
        BY <3>1, <3>2, <3>3
    <2> QED
      BY <2>1, <2>2, <2>3, <2>4 DEF RunnerNext, CallGoesOn, Execute
  <1> HIDE DEF ahead
  <1> QED
    BY <1>1, <1>2, <1>3, <1>4, BelowSix

(***************************************************************************)
(* For every expression, each step of a call leaves less to do: the        *)
(* compilation is bounded by the tree, and running the code, which has no  *)
(* jumps, by the number of its instructions.                               *)
(***************************************************************************)
THEOREM CallIsBounded == RunnerSafety => CallShrinks
  <1>1. Sound => WorkCounts
    BY WorkIsCounted DEF TypeOK, Sound
  <1>2. /\ Sound /\ RunnerTypeOK /\ CallCounts /\ CallCounts' /\ [RunnerNext]_runnerVars
        => [Below(CallWork', CallWork)]_runnerVars
    BY CallStep
  <1> QED
    BY <1>1, <1>2, CallIsCounted, CallIsSound, RunnerTypeCorrect, PTL
       DEF RunnerSafety, CallShrinks

=============================================================================
