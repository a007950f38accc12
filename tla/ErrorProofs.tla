---------------------------- MODULE ErrorProofs ----------------------------
(***************************************************************************)
(* Proofs about the errors of a compilation, for every set of Modules and  *)
(* with or without LLAST_DEBUG: none is missed, and none is invented.      *)
(***************************************************************************)
EXTENDS CodeGenProofs

-----------------------------------------------------------------------------
(* The inductive invariant                                                 *)

(***************************************************************************)
(* What visitingX has looked at, and what visitedX or visitX has.          *)
(***************************************************************************)
EnteredSound(n) ==
    /\ ast[n].kind = "Function" => HasLlvmType(ast[n].dataType)
    /\ ast[n].kind = "Block" =>
          /\ ~ast[n].lacks /\ ~Repeating(n)
          /\ \A x \in DOMAIN ast[n].scope : HasLlvmType(ast[n].scope[x])

LeftSound(n) ==
    /\ ~Unbound(n)
    /\ ast[n].kind \in {"VariableRef", "AssignVariable"} => ~ast[n].lacks
    /\ ~Mismatched(n)
    /\ ast[n].kind = "Binary" => ast[n].dataType \in Arithmetic

(***************************************************************************)
(* The nodes visited so far have none of the defects they were looked at   *)
(* for.                                                                    *)
(***************************************************************************)
VisitedSound ==
    outcome \in {"walking", "done"} =>
       \A n \in 1 .. Len(trace) : EnteredSound(n) /\ (n \notin Open => LeftSound(n))

(***************************************************************************)
(* The facts about the walk and the scopes this rests on.                  *)
(***************************************************************************)
Known == TypeOK /\ InDocument /\ LeftBehind /\ ScopesAreOpenBlocks

LEMMA SameNode ==
    ast' = ast =>
       \A n : /\ EnteredSound(n)' <=> EnteredSound(n)
              /\ LeftSound(n)' <=> LeftSound(n)
              /\ Unbound(n)' <=> Unbound(n)
              /\ Repeating(n)' <=> Repeating(n)
              /\ Mismatched(n)' <=> Mismatched(n)
              /\ Unsupported(n)' <=> Unsupported(n)
  BY DEF EnteredSound, LeftSound, Unbound, Repeating, Mismatched, Unsupported

-----------------------------------------------------------------------------
(* Names                                                                   *)

(***************************************************************************)
(* A name lookupVariable finds is bound in the tree; one it does not find  *)
(* is not.                                                                 *)
(***************************************************************************)
LEMMA FoundNotUnbound ==
    ASSUME Known, outcome = "walking", NEW n \in DOMAIN ast,
           \A b \in DOMAIN ast : ast[b].kind = "Block" => (Encloses(ast, b, n) <=> b \in Open),
           NEW i \in DOMAIN allocaScopeStack, Finds(ast[n].name, i)
    PROVE  ~Unbound(n)
  <1>1. /\ allocaScopeStack[i].block \in DOMAIN ast
        /\ Binds(ast, n, ast[n].name, allocaScopeStack[i].block)
    BY FoundIsBound DEF Known
  <1> QED
    BY <1>1 DEF Unbound

LEMMA UndeclaredIsUnbound ==
    ASSUME Known, outcome = "walking", NEW n \in DOMAIN ast,
           \A b \in DOMAIN ast : ast[b].kind = "Block" => (Encloses(ast, b, n) <=> b \in Open),
           ast[n].kind \in {"VariableRef", "AssignVariable"}, Undeclared(ast[n].name)
    PROVE  Unbound(n)
  <1>1. ASSUME NEW b \in DOMAIN ast, Binds(ast, n, ast[n].name, b)
        PROVE  FALSE
    <2>1. ast[b].kind = "Block" /\ ast[n].name \in DOMAIN ast[b].scope /\ b \in Open
      BY <1>1 DEF Binds, Declares
    <2>2. PICK i \in DOMAIN allocaScopeStack : allocaScopeStack[i].block = b
      BY <2>1 DEF Known, ScopesAreOpenBlocks
    <2>3. DOMAIN allocaScopeStack[i].vars = DOMAIN ast[b].scope
      BY <2>2 DEF Known, ScopesAreOpenBlocks
    <2> QED
      BY <2>1, <2>3 DEF Undeclared
  <1> QED
    BY <1>1 DEF Unbound

LEMMA LeafSound ==
    ASSUME Known, NEW n \in DOMAIN ast, VisitLeaf(n),
           ast[n].kind = "VariableRef" => VisitVariableRef(n)
    PROVE  EnteredSound(n) /\ LeftSound(n)
  <1>1. /\ outcome = "walking" /\ Calling /\ n = Argument /\ Argument # Null
        /\ ast[n].kind \in LeafKind /\ WalkTypeOK
    BY DEF VisitLeaf, Calling, Known, TypeOK
  <1>2. \A b \in DOMAIN ast : ast[b].kind = "Block" => (Encloses(ast, b, n) <=> b \in Open)
    BY <1>1, AroundNext DEF Known
  <1>3. ~Unbound(n)
    <2>1. CASE ast[n].kind = "VariableRef"
      <3>1. PICK i \in DOMAIN allocaScopeStack : Finds(ast[n].name, i)
        BY <2>1 DEF VisitVariableRef
      <3> QED
        BY <1>1, <1>2, <3>1, FoundNotUnbound
    <2>2. CASE ast[n].kind # "VariableRef"
      BY <1>1, <2>2 DEF Unbound, LeafKind
    <2> QED
      BY <2>1, <2>2
  <1> QED
    BY <1>1, <1>3 DEF EnteredSound, LeftSound, Mismatched, LeafKind, VisitVariableRef

LEMMA LeaveSound ==
    ASSUME Known, WalkTypeOK', NEW n \in DOMAIN ast, Leave(n), ast[n].kind # "VariableRef",
           ast[n].kind = "AssignVariable" => VisitedAssignVariable(n),
           ast[n].kind = "Binary" => SameTypes(n) /\ ast[n].dataType \in Arithmetic
    PROVE  LeftSound(n)
  <1>1. outcome = "walking" /\ WalkTypeOK
    BY DEF Leave, Leaving, Known, TypeOK
  <1>2. ASSUME ast[n].kind = "AssignVariable"
        PROVE  ~Unbound(n)
    <2>1. PICK i \in DOMAIN allocaScopeStack : Finds(ast[n].name, i)
      BY <1>2 DEF VisitedAssignVariable
    <2>2. \A b \in DOMAIN ast : ast[b].kind = "Block" => (Encloses(ast, b, n) <=> b \in Open)
      BY <1>1, <1>2, AroundTop DEF Known, Leave
    <2> QED
      BY <1>1, <2>1, <2>2, FoundNotUnbound
  <1>3. ~Unbound(n)
    BY <1>2 DEF Unbound
  <1> QED
    BY <1>3 DEF LeftSound, Mismatched, SameTypes, VisitedAssignVariable

-----------------------------------------------------------------------------
(* What each handler says about its node                                   *)

LEMMA VisitingJudges ==
    ASSUME NEW n \in DOMAIN ast, Visiting(n)
    PROVE  \/ Enter(n) /\ EnteredSound(n)
           \/ VisitLeaf(n) /\ (ast[n].kind = "VariableRef" => VisitVariableRef(n))
           \/ FailEntering(n, "UnhandledSwitchCase") /\ Unsupported(n)
           \/ FailEntering(n, "InvalidStateException") /\ Repeating(n)
           \/ /\ FailEntering(n, "InvalidStateException")
              /\ ast[n].kind = "VariableRef" /\ Undeclared(ast[n].name)
           \/ FailEntering(n, Undefined)
  <1>1. CASE VisitingModule(n) \/ VisitingFunction(n) \/ VisitingBlock(n) \/ VisitingOther(n)
    BY <1>1 DEF VisitingModule, VisitingFunction, VisitingBlock, VisitingOther, EnteredSound,
                Repeating
  <1>2. CASE \/ VisitingFunctionThrows(n) \/ VisitingBlockThrows(n)
             \/ VisitingBlockRepeats(n) \/ VisitingUndefined(n)
    BY <1>2 DEF VisitingFunctionThrows, VisitingBlockThrows, VisitingBlockRepeats,
                VisitingUndefined, Unsupported, Repeating
  <1>3. CASE VisitLiteral(n) \/ VisitVariableRef(n) \/ VisitVariableRefThrows(n)
    <2>1. CASE VisitLiteral(n)
      BY <2>1 DEF VisitLiteral
    <2>2. CASE VisitVariableRef(n)
      <3>1. VisitLeaf(n)
        BY <2>2 DEF VisitVariableRef
      <3> QED
        BY <2>2, <3>1
    <2>3. CASE VisitVariableRefThrows(n)
      BY <2>3 DEF VisitVariableRefThrows
    <2> QED
      BY <1>3, <2>1, <2>2, <2>3
  <1> QED
    BY <1>1, <1>2, <1>3 DEF Visiting

LEMMA VisitedJudges ==
    ASSUME NEW n \in DOMAIN ast, Visited(n)
    PROVE  \/ /\ Leave(n) /\ ast[n].kind # "VariableRef"
              /\ ast[n].kind = "AssignVariable" => VisitedAssignVariable(n)
              /\ ast[n].kind = "Binary" => SameTypes(n) /\ ast[n].dataType \in Arithmetic
           \/ FailLeaving(n, "CompileException") /\ Mismatched(n)
           \/ FailLeaving(n, "UnhandledSwitchCase") /\ Unsupported(n)
           \/ /\ FailLeaving(n, "InvalidStateException")
              /\ ast[n].kind = "AssignVariable" /\ Undeclared(ast[n].name)
           \/ \E e \in {"DebugAssertionFailedException", Undefined} : FailLeaving(n, e)
  <1>1. CASE VisitedModule(n) \/ VisitedBlock(n) \/ VisitedOther(n) \/ VisitedReturn(n)
    BY <1>1 DEF VisitedModule, VisitedBlock, VisitedOther, VisitedReturn
  <1>2. CASE VisitedAssignVariable(n)
    <2>1. Leave(n) /\ ast[n].kind = "AssignVariable"
      BY <1>2 DEF VisitedAssignVariable
    <2> QED
      BY <1>2, <2>1
  <1>3. CASE VisitedBinary(n)
    BY <1>3 DEF VisitedBinary
  <1>4. CASE VisitedModuleAsserts(n) \/ VisitedReturnAsserts(n) \/ VisitedUndefined(n)
    BY <1>4 DEF VisitedModuleAsserts, VisitedReturnAsserts, VisitedUndefined
  <1>5. CASE VisitedAssignVariableThrows(n)
    BY <1>5 DEF VisitedAssignVariableThrows
  <1>6. CASE VisitedBinaryMismatch(n) \/ VisitedBinaryThrows(n)
    BY <1>6 DEF VisitedBinaryMismatch, VisitedBinaryThrows, SameTypes, Mismatched, Unsupported
  <1> QED
    BY <1>1, <1>2, <1>3, <1>4, <1>5, <1>6 DEF Visited

-----------------------------------------------------------------------------
(* No error is missed                                                      *)

LEMMA VisitedSoundStep ==
    ASSUME Known, WalkTypeOK', VisitedSound, [Next]_vars
    PROVE  VisitedSound'
  <1> USE DEF VisitedSound
  <1>0. /\ WalkTypeOK /\ Len(trace) \in Nat /\ trace \in Seq(Nat)
    BY DEF Known, TypeOK, WalkTypeOK
  <1>1. SUFFICES ASSUME outcome' \in {"walking", "done"}
                 PROVE  VisitedSound'
    OBVIOUS
  <1>2. outcome' \notin {"UnhandledSwitchCase", "InvalidStateException", "CompileException",
                         "DebugAssertionFailedException", Undefined}
    BY <1>1 DEF Undefined
  <1>3. ASSUME NEW n \in DOMAIN ast, Visiting(n)
        PROVE  VisitedSound'
    <2>1. \/ Enter(n) /\ EnteredSound(n)
          \/ VisitLeaf(n) /\ (ast[n].kind = "VariableRef" => VisitVariableRef(n))
      BY <1>2, <1>3, VisitingJudges DEF FailEntering, Fail
    <2>2. /\ Calling /\ n = Argument /\ Argument # Null /\ outcome = "walking"
          /\ trace' = Append(trace, n) /\ ast' = ast
      BY <2>1 DEF Enter, VisitLeaf, Calling
    <2>3. n = Len(trace) + 1 /\ n \in Nat /\ Len(trace') = n
      BY <1>0, <2>2, NextNode DEF Known
    <2>4. Open' = IF Enter(n) THEN Open \cup {n} ELSE Open
      BY <1>0, <2>1, EnterOpen, ReturnedOpen DEF VisitLeaf
    <2>5. EnteredSound(n) /\ (n \notin Open' => LeftSound(n))
      BY <2>1, <2>4, LeafSound
    <2>6. \A m \in 1 .. Len(trace) : EnteredSound(m) /\ (m \notin Open' => LeftSound(m))
      BY <2>2, <2>4
    <2> QED
      BY <1>0, <2>2, <2>3, <2>5, <2>6, SameNode
  <1>4. ASSUME NEW n \in DOMAIN ast, Visited(n)
        PROVE  VisitedSound'
    <2>1. /\ Leave(n) /\ ast[n].kind # "VariableRef"
          /\ ast[n].kind = "AssignVariable" => VisitedAssignVariable(n)
          /\ ast[n].kind = "Binary" => SameTypes(n) /\ ast[n].dataType \in Arithmetic
      BY <1>2, <1>4, VisitedJudges DEF FailLeaving, Fail
    <2>2. LeftSound(n)
      BY <2>1, LeaveSound
    <2>3. /\ ast' = ast /\ trace' = trace /\ outcome = "walking" /\ Open' = Open \ {n}
      BY <1>0, <2>1, LeaveOpen DEF Leave, Leaving, Known
    <2> QED
      BY <2>2, <2>3, SameNode
  <1>5. CASE WalkerAlone \/ UNCHANGED vars
    <2>1. /\ ast' = ast /\ trace' = trace /\ outcome \in {"walking", "done"}
          /\ calls' = calls \/ calls' = Returned(calls)
      BY <1>1, <1>5, AloneOutcome
         DEF SkipBranch, CleanUp, vars, walkerVars, Calling
    <2>2. Open' = Open
      BY <1>0, <2>1, ReturnedOpen DEF Open
    <2> QED
      BY <2>1, <2>2, SameNode
  <1> QED
    BY <1>3, <1>4, <1>5 DEF Next

LEMMA NothingMissed ==
    ASSUME TypeOK, InDocument, WalkedComplete, VisitedSound
    PROVE  NoErrorMissed
  <1> SUFFICES ASSUME outcome = "done", NEW n \in DOMAIN ast
               PROVE  /\ ~Unbound(n) /\ ~Repeating(n) /\ ~Mismatched(n) /\ ~Unsupported(n)
                      /\ ~Incomplete(n) /\ ~ast[n].lacks
    BY DEF NoErrorMissed
  <1>1. Open = {} /\ n \in 1 .. Len(trace)
    BY DEF InDocument, Open, TypeOK, WalkTypeOK, IsTree
  <1>2. /\ EnteredSound(n) /\ LeftSound(n)
        /\ ast[n].kind \notin ClientKind /\ ~Incomplete(n)
    BY <1>1 DEF VisitedSound, WalkedComplete
  <1>3. Members(ast, n)
    BY DEF TypeOK, WalkTypeOK, IsTree
  <1> QED
    BY <1>2, <1>3 DEF EnteredSound, LeftSound, Unsupported, Repeating, Members

(***************************************************************************)
(* compile() succeeds only for trees without a defect, for every tree: all *)
(* names are declared, once in a Block; no operand, Variable or Scope is   *)
(* missing; operands are of one arithmetic type; and every node is of a    *)
(* kind and every Variable of a type it can handle.                        *)
(***************************************************************************)
THEOREM ErrorsAreFound == Safety => []NoErrorMissed
  <1>1. Init => VisitedSound
    BY DEF Init, WalkInit, VisitedSound
  <1>2. TypeOK => WalkTypeOK
    BY DEF TypeOK
  <1>3. TypeOK /\ InDocument /\ LeftBehind /\ ScopesAreOpenBlocks /\ VisitedSound
          /\ WalkTypeOK' /\ [Next]_vars => VisitedSound'
    BY VisitedSoundStep DEF Known
  <1>4. TypeOK /\ InDocument /\ WalkedComplete /\ VisitedSound => NoErrorMissed
    BY NothingMissed
  <1>5. Safety => [](TypeOK /\ InDocument /\ LeftBehind /\ ScopesAreOpenBlocks)
    BY TypeCorrect, ScopesCorrect, CompilationStaysInDocument, PTL
  <1>6. Safety => []WalkedComplete
    BY CompilationIsWalk, WalkMissesNothing, PTL
  <1> QED
    BY <1>1, <1>2, <1>3, <1>4, <1>5, <1>6, PTL DEF Safety

-----------------------------------------------------------------------------
(* No error is invented                                                    *)

LEMMA FalseErrorKept ==
    ASSUME NoFalseError, ast' = ast,
           outcome' = outcome \/ outcome' \in {"done", "DebugAssertionFailedException", Undefined}
    PROVE  NoFalseError'
  BY SameNode, SameIncomplete DEF NoFalseError, Undefined

LEMMA JustError ==
    ASSUME ast' = ast, NEW n \in DOMAIN ast,
           \/ outcome' = "InvalidStateException" /\ (Unbound(n) \/ Repeating(n))
           \/ outcome' = "CompileException" /\ Mismatched(n)
           \/ outcome' = "UnhandledSwitchCase" /\ Unsupported(n)
           \/ outcome' = "InvalidArgumentException" /\ Incomplete(n)
    PROVE  NoFalseError'
  BY SameNode, SameIncomplete DEF NoFalseError

LEMMA FalseErrorStep ==
    ASSUME Known, WalkTypeOK', NoFalseError, [Next]_vars
    PROVE  NoFalseError'
  <1>0. WalkTypeOK
    BY DEF Known, TypeOK
  <1>1. ASSUME NEW n \in DOMAIN ast, Visiting(n)
        PROVE  NoFalseError'
    <2>1. CASE Enter(n) \/ VisitLeaf(n)
      BY <2>1, FalseErrorKept DEF Enter, VisitLeaf
    <2>2. CASE FailEntering(n, "UnhandledSwitchCase") /\ Unsupported(n)
      BY <2>2, JustError DEF FailEntering, Fail
    <2>3. CASE FailEntering(n, "InvalidStateException") /\ Repeating(n)
      BY <2>3, JustError DEF FailEntering, Fail
    <2>4. CASE FailEntering(n, Undefined)
      BY <2>4, FalseErrorKept DEF FailEntering, Fail
    <2>5. CASE /\ FailEntering(n, "InvalidStateException")
               /\ ast[n].kind = "VariableRef" /\ Undeclared(ast[n].name)
      <3>1. /\ Calling /\ n = Argument /\ Argument # Null /\ outcome = "walking"
            /\ ast' = ast /\ outcome' = "InvalidStateException"
        BY <2>5 DEF FailEntering, Fail, Calling
      <3>2. \A b \in DOMAIN ast : ast[b].kind = "Block" => (Encloses(ast, b, n) <=> b \in Open)
        BY <1>0, <3>1, AroundNext DEF Known
      <3>3. Unbound(n)
        BY <2>5, <3>1, <3>2, UndeclaredIsUnbound
      <3> QED
        BY <3>1, <3>3, JustError
    <2> QED
      BY <1>1, <2>1, <2>2, <2>3, <2>4, <2>5, VisitingJudges
  <1>2. ASSUME NEW n \in DOMAIN ast, Visited(n)
        PROVE  NoFalseError'
    <2>1. CASE Leave(n)
      BY <2>1, FalseErrorKept DEF Leave
    <2>2. CASE FailLeaving(n, "CompileException") /\ Mismatched(n)
      BY <2>2, JustError DEF FailLeaving, Fail
    <2>3. CASE FailLeaving(n, "UnhandledSwitchCase") /\ Unsupported(n)
      BY <2>3, JustError DEF FailLeaving, Fail
    <2>4. CASE /\ FailLeaving(n, "InvalidStateException")
               /\ ast[n].kind = "AssignVariable" /\ Undeclared(ast[n].name)
      <3>1. Leaving(n) /\ outcome = "walking" /\ ast' = ast
            /\ outcome' = "InvalidStateException"
        BY <2>4 DEF FailLeaving, Fail, Leaving
      <3>2. \A b \in DOMAIN ast : ast[b].kind = "Block" => (Encloses(ast, b, n) <=> b \in Open)
        BY <1>0, <2>4, <3>1, AroundTop DEF Known
      <3>3. Unbound(n)
        BY <2>4, <3>1, <3>2, UndeclaredIsUnbound
      <3> QED
        BY <3>1, <3>3, JustError
    <2>5. CASE \E e \in {"DebugAssertionFailedException", Undefined} : FailLeaving(n, e)
      BY <2>5, FalseErrorKept DEF FailLeaving, Fail
    <2> QED
      BY <1>2, <2>1, <2>2, <2>3, <2>4, <2>5, VisitedJudges
  <1>3. CASE WalkerAlone
    <2>1. CASE SkipBranch \/ CleanUp
      BY <2>1, FalseErrorKept DEF SkipBranch, CleanUp
    <2>2. CASE NullChild
      <3>1. \E n \in DOMAIN ast : Incomplete(n)
        BY <1>0, <2>2, NullIsMissing DEF NullChild, Known
      <3> QED
        BY <2>2, <3>1, JustError DEF NullChild, Fail
    <2>3. CASE UnhandledKind
      <3>1. Argument \in DOMAIN ast /\ Unsupported(Argument)
        BY <1>0, <2>3, NextNode DEF UnhandledKind, Unsupported, Known
      <3> QED
        BY <2>3, <3>1, JustError DEF UnhandledKind, Fail
    <2> QED
      BY <1>3, <2>1, <2>2, <2>3 DEF WalkerAlone
  <1>4. CASE UNCHANGED vars
    BY <1>4, FalseErrorKept DEF vars, walkerVars
  <1> QED
    BY <1>1, <1>2, <1>3, <1>4 DEF Next

(***************************************************************************)
(* Every exception has its cause in the tree, for every tree: it is thrown *)
(* only for a defect of its own kind.                                      *)
(***************************************************************************)
THEOREM ErrorsAreReal == Safety => []NoFalseError
  <1>1. Init => NoFalseError
    BY DEF Init, WalkInit, NoFalseError
  <1>2. TypeOK => WalkTypeOK
    BY DEF TypeOK
  <1>3. TypeOK /\ InDocument /\ LeftBehind /\ ScopesAreOpenBlocks /\ NoFalseError
          /\ WalkTypeOK' /\ [Next]_vars => NoFalseError'
    BY FalseErrorStep DEF Known
  <1>4. Safety => [](TypeOK /\ InDocument /\ LeftBehind /\ ScopesAreOpenBlocks)
    BY TypeCorrect, ScopesCorrect, CompilationStaysInDocument, PTL
  <1> QED
    BY <1>1, <1>2, <1>3, <1>4, PTL DEF Safety

=============================================================================
