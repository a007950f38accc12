----------------------------- MODULE ExprRunner -----------------------------
(***************************************************************************)
(* ExprRunner, ExecutionContext and SimpleJIT (src/src/ExprRunner.cpp):    *)
(* one call of compile, runInt32Expr or runFloatExpr, from init() and the  *)
(* type test through the compilation of module CodeGen to the execution of *)
(* the instructions.  The Module built around the expression, the          *)
(* ExecutionContext and the JIT live as long as one call; only LLVM's      *)
(* target registry, filled by init(), is older.                            *)
(*                                                                         *)
(* LLVM is external: Link says which code it gives a meaning to, the       *)
(* actions after Call what that meaning is.  No verifier is run, so code   *)
(* LLVM has no meaning for is undefined behaviour, not an error.           *)
(***************************************************************************)
EXTENDS CodeGen, RunValues

(***************************************************************************)
(* compile, runInt32Expr and runFloatExpr wrap the expression, which may   *)
(* be null, in the Block of the only Function of a Module; the Function    *)
(* has the expression's type, if that can be told.                         *)
(***************************************************************************)
Func == 2
Body == 3
Expr == 4

TypeOfExpr(p) == TypeAt(p, p[Body].kids[1])

IsWrapped(p) ==
    /\ Len(p) >= Body
    /\ p[Root].kids = <<Func>> /\ p[Func].kids = <<Body>> /\ p[Body].kids \in {<<Expr>>, <<Null>>}
    /\ p[Func].kind = "Function" /\ p[Body].kind = "Block"
    /\ p[Body].scope = [x \in {} |-> "Void"] /\ ~p[Body].lacks
    /\ TypeOfExpr(p) # Undefined => p[Func].dataType = TypeOfExpr(p)

ASSUME WrappedAssumption == \A p \in Programs : IsWrapped(p)

VARIABLES
    api,            \* the function called
    initialized,    \* has init() registered the native target?
    stage,          \* how far the call has got
    literals,       \* the values of the tree's LiteralInt32 nodes
    memory,         \* the values stored in allocas
    registers,      \* the results of the instructions, by node
    pc,             \* the next instruction
    result          \* the value returned

runVars == <<literals, memory, registers, pc, result>>

runnerVars == <<vars, api, initialized, stage, runVars>>

Api == {"compile", "runInt32Expr", "runFloatExpr"}

Stage == {"start", "compiling", "linked", "running", "returned", "threw", Undefined}

Final == {"returned", "threw", Undefined}

-----------------------------------------------------------------------------
(* Values                                                                  *)

IntLiterals == {n \in DOMAIN ast : ast[n].kind = "LiteralInt32"}

LiteralOf(n) ==
    IF ast[n].kind = "LiteralInt32" THEN Int32Value(literals[n]) ELSE FloatValue(n)

IntOps == {"add", "sub", "mul", "sdiv"}
FloatOps == {"fadd", "fsub", "fmul", "fdiv"}

OperationOf ==                           \* what an instruction computes
    [add  |-> "Add", sub  |-> "Sub", mul  |-> "Mul", sdiv |-> "Div",
     fadd |-> "Add", fsub |-> "Sub", fmul |-> "Mul", fdiv |-> "Div"]

Compute(op, a, b) ==
    IF op \in IntOps THEN IntResult(OperationOf[op], a, b)
                     ELSE FloatResult(OperationOf[op], a, b)

Operand(v) ==
    IF ast[v.from].kind \in {"LiteralInt32", "LiteralFloat"} THEN LiteralOf(v.from)
                                                             ELSE registers[v.from]

-----------------------------------------------------------------------------
(* The call, up to the machine code                                        *)

(***************************************************************************)
(* init().                                                                 *)
(***************************************************************************)
Initialize ==
    /\ stage = "start" /\ ~initialized
    /\ initialized' = TRUE
    /\ UNCHANGED <<vars, api, stage, runVars>>

(***************************************************************************)
(* The test at the head of runInt32Expr and runFloatExpr; compile has      *)
(* none, and reads the type for its FunctionBuilder.                       *)
(***************************************************************************)
AcceptsAnyType ==                        \* a mutant of TypeAccepted
    TypeOfExpr(ast) # Undefined

TypeAccepted ==
    /\ TypeOfExpr(ast) # Undefined
    /\ api = "runInt32Expr" => TypeOfExpr(ast) = "Int32"
    /\ api = "runFloatExpr" => TypeOfExpr(ast) = "Float"

Ends(s) ==
    /\ stage' = s
    /\ UNCHANGED <<vars, api, initialized, runVars>>

Refuse ==
    /\ stage = "start" /\ ~TypeAccepted /\ TypeOfExpr(ast) # Undefined
    /\ Ends("threw")

(***************************************************************************)
(* The expression is null, or its dataType() is undefined behaviour.       *)
(***************************************************************************)
ReadsNoType ==
    /\ stage = "start" /\ TypeOfExpr(ast) = Undefined
    /\ Ends(Undefined)

(***************************************************************************)
(* Without init(), selectTarget() finds no target and returns null, which  *)
(* is dereferenced: by compile() when the data layout of its module is     *)
(* set, by the others in the constructor of SimpleJIT.                     *)
(***************************************************************************)
NoTarget ==
    /\ stage = "start" /\ TypeAccepted /\ ~initialized
    /\ Ends(Undefined)

Begin ==
    /\ stage = "start" /\ TypeAccepted /\ initialized
    /\ Ends("compiling")

Compile ==
    /\ stage = "compiling"
    /\ Next
    /\ UNCHANGED <<api, initialized, stage, runVars>>

CompileFails ==
    /\ stage = "compiling" /\ outcome \in Failure
    /\ Ends(IF outcome = Undefined THEN Undefined ELSE "threw")

CompileReturns ==
    /\ stage = "compiling" /\ outcome = "done" /\ api = "compile"
    /\ Ends("returned")

(***************************************************************************)
(* Code LLVM gives a meaning to: the basic block ends with its only        *)
(* terminator, no alloca is of type void, and operands have the types      *)
(* their instruction requires.                                             *)
(***************************************************************************)
SlotType(s) == TypeFor(ast[s.block].scope[s.name])

OperandTypesFit(i) ==
    /\ i.op \in IntOps   => \A a \in DOMAIN i.args : i.args[a].type = "i32"
    /\ i.op \in FloatOps => \A a \in DOMAIN i.args : i.args[a].type = "float"
    /\ i.op = "store"    => \A s \in i.slots : i.args[1].type = SlotType(s)
    /\ i.op = "alloca"   => \A s \in i.slots : SlotType(s) # "void"
    /\ i.op = "ret"      => i.args[1].type = returnType

EndsInRet == \A k \in DOMAIN block : block[k].op = "ret" <=> k = Len(block)

WellFormed == EndsInRet /\ \A k \in DOMAIN block : OperandTypesFit(block[k])

(***************************************************************************)
(* ExecutionContext::addModule hands the module to the JIT, and            *)
(* getSymbolAddress finds the function under the name it was given.        *)
(***************************************************************************)
Link ==
    /\ stage = "compiling" /\ outcome = "done" /\ api # "compile"
    /\ Ends(IF WellFormed THEN "linked" ELSE Undefined)

-----------------------------------------------------------------------------
(* The execution of the function                                           *)

(***************************************************************************)
(* funcPtr().  The values of literals are chosen only now: nothing before  *)
(* depends on them.                                                        *)
(***************************************************************************)
Call ==
    /\ stage = "linked"
    /\ stage' = "running"
    /\ literals' \in [IntLiterals -> Word]
    /\ pc' = 1
    /\ UNCHANGED <<vars, api, initialized, memory, registers, result>>

Running(ops) == stage = "running" /\ pc \in DOMAIN block /\ block[pc].op \in ops

(***************************************************************************)
(* Common to the instructions that do not end the function.                *)
(***************************************************************************)
Advance ==
    /\ pc' = pc + 1
    /\ UNCHANGED <<vars, api, initialized, stage, literals, result>>

With(f, x, v) == [y \in DOMAIN f \cup {x} |-> IF y = x THEN v ELSE f[y]]

RunAlloca ==
    /\ Running({"alloca"})
    /\ Advance
    /\ UNCHANGED <<memory, registers>>

RunStore ==
    /\ Running({"store"})
    /\ Advance
    /\ \E s \in block[pc].slots : memory' = With(memory, s, Operand(block[pc].args[1]))
    /\ UNCHANGED registers

RunLoad ==
    /\ Running({"load"})
    /\ Advance
    /\ \E s \in block[pc].slots :
          \E v \in (IF s \in DOMAIN memory THEN {memory[s]} ELSE Unset(block[pc].type)) :
             registers' = With(registers, block[pc].from, v)
    /\ UNCHANGED memory

RunOperation ==
    LET i == block[pc] IN
    /\ Running(IntOps \cup FloatOps)
    /\ i.op \in IntOps => ~Traps(OperationOf[i.op], Operand(i.args[1]), Operand(i.args[2]))
    /\ Advance
    /\ registers' = With(registers, i.from,
                         Compute(i.op, Operand(i.args[1]), Operand(i.args[2])))
    /\ UNCHANGED memory

(***************************************************************************)
(* sdiv by zero, or of the least integer by -1.                            *)
(***************************************************************************)
RunTrap ==
    LET i == block[pc] IN
    /\ Running(IntOps)
    /\ Traps(OperationOf[i.op], Operand(i.args[1]), Operand(i.args[2]))
    /\ Ends(Undefined)

RunRet ==
    /\ Running({"ret"})
    /\ stage' = "returned"
    /\ result' = Operand(block[pc].args[1])
    /\ pc' = pc + 1
    /\ UNCHANGED <<vars, api, initialized, literals, memory, registers>>

-----------------------------------------------------------------------------
RunnerInit ==
    /\ Init
    /\ api \in Api
    /\ initialized = FALSE
    /\ stage = "start"
    /\ literals = [n \in {} |-> 0]
    /\ memory = [s \in {} |-> <<>>]
    /\ registers = [n \in {} |-> <<>>]
    /\ pc = 1
    /\ result = <<>>

Execute ==
    Call \/ RunAlloca \/ RunStore \/ RunLoad \/ RunOperation \/ RunTrap \/ RunRet

CallGoesOn == Compile \/ CompileFails \/ CompileReturns \/ Link \/ Execute

RunnerNext ==
    Initialize \/ Refuse \/ ReadsNoType \/ NoTarget \/ Begin \/ CallGoesOn

RunnerSafety == RunnerInit /\ [][RunnerNext]_runnerVars

(***************************************************************************)
(* The client may or may not call; a call, once made, runs on its thread   *)
(* and waits for nothing.                                                  *)
(***************************************************************************)
RunnerSpec == RunnerSafety /\ WF_runnerVars(CallGoesOn)

-----------------------------------------------------------------------------
(* Properties                                                              *)

(***************************************************************************)
(* The trees whose runs are promised a meaning: straight-line code in      *)
(* nested Blocks, no Variable or Scope null, names used at their declared  *)
(* types, an expression that has a type, and one Return, of that type, at  *)
(* the very end.                                                           *)
(***************************************************************************)
EndsInReturn ==
    \E r \in DOMAIN ast :
       /\ ast[r].kind = "Return" /\ ast[r].last = Len(ast)
       /\ ast[r].dataType = ast[Func].dataType
       /\ \A n \in DOMAIN ast : ast[n].kind = "Return" => n = r

Straight ==
    \A n \in DOMAIN ast :
       /\ ast[n].kind # "Conditional"
       /\ ast[n].kind = "Block" => \A x \in DOMAIN ast[n].scope : ast[n].scope[x] # "Void"

Runnable ==
    /\ TypedTree /\ NothingLacks /\ EndsInReturn /\ Straight
    /\ TypeOfExpr(ast) # Undefined

(***************************************************************************)
(* The state of a call has the types of the values it stands for.          *)
(***************************************************************************)
RunnerTypeOK ==
    /\ TypeOK
    /\ api \in Api
    /\ initialized \in BOOLEAN
    /\ stage \in Stage
    /\ DOMAIN literals \subseteq DOMAIN ast
    /\ \A n \in DOMAIN literals : literals[n] \in Word
    /\ DOMAIN memory \subseteq Slot
    /\ DOMAIN registers \subseteq DOMAIN ast
    /\ pc \in 1 .. (Len(block) + 1)

(***************************************************************************)
(* A function is called through a pointer of its own type, and after       *)
(* init(), whatever the expression: the type test, the type the            *)
(* FunctionBuilder was given and the one CodeGenVisitor made agree.        *)
(***************************************************************************)
CalledAsDeclared ==
    stage \in {"linked", "running"} =>
       /\ initialized
       /\ api # "compile"
       /\ returnType = IF api = "runInt32Expr" THEN "i32" ELSE "float"

(***************************************************************************)
(* A run of such a tree, after init(), is undefined only at a division     *)
(* that has no result: the code generated is code LLVM has a meaning for.  *)
(***************************************************************************)
DefinedRun ==
    Runnable /\ initialized /\ stage = Undefined =>
       /\ pc \in DOMAIN block /\ block[pc].op = "sdiv"
       /\ Traps("Div", Operand(block[pc].args[1]), Operand(block[pc].args[2]))

(***************************************************************************)
(* Executing the instructions implements the evaluation of the tree.       *)
(***************************************************************************)
Executed == {block[k].from : k \in {k \in 1 .. (pc - 1) : block[k].op # "alloca"}}

Meaning == INSTANCE Evaluation
    WITH promised <- Runnable, value <- registers, store <- memory,
         done <- Executed, answer <- result,
         status <- IF stage \in Final THEN stage ELSE "pending"

EvaluationSpec == Meaning!Spec

(***************************************************************************)
(* Whatever is computed by the registers and stored in the allocas, at any *)
(* time, is what the tree means: each result is that of its own operands,  *)
(* and what a reference finds was put there by the last assignment before  *)
(* it, in closing order, to the variable its name stands for.  A value is  *)
(* returned when everything has been computed.                             *)
(***************************************************************************)
ComputesMeaning == Runnable => Meaning!Means

(***************************************************************************)
(* Nor can a step of a call be repeated for ever: the call gets to another *)
(* stage, or the walk has less to do, or fewer instructions are left.      *)
(***************************************************************************)
StagesAhead ==
    CASE stage = "start"     -> IF initialized THEN 4 ELSE 5
      [] stage = "compiling" -> 3
      [] stage = "linked"    -> 2
      [] stage = "running"   -> 1
      [] OTHER               -> 0

CallWork ==
    LET w == WalkWork IN <<StagesAhead, w[1], w[2], w[3], w[4], Len(block) + 1 - pc>>

CallShrinks == [][Below(CallWork', CallWork)]_runnerVars

(***************************************************************************)
(* Every call that gets past its type test ends.                           *)
(***************************************************************************)
CallEnds == stage = "compiling" ~> stage \in Final

-----------------------------------------------------------------------------
(* What a comment says, and the code does not do                           *)

(***************************************************************************)
(* "Can be the basis of an if-then-else or ternary operator."              *)
(* (src/src/AST.hpp:329): of the two branches of a Conditional, at most    *)
(* one is executed.                                                        *)
(***************************************************************************)
OneBranch ==
    \A c \in DOMAIN ast :
       ast[c].kind = "Conditional" =>
          ~\A i \in {2, 3} : \E n \in Executed :
               LET branch == ast[c].kids[i] IN
               branch # Null /\ branch <= n /\ n <= ast[branch].last

=============================================================================
