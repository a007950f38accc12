----------------------------- MODULE Evaluation -----------------------------
(***************************************************************************)
(* What a call of runInt32Expr or runFloatExpr promises, said of the tree  *)
(* alone: it is evaluated node by node, operands before the operation, a   *)
(* name stands for the variable of the innermost Block that declares it,   *)
(* int arithmetic wraps, and the answer is the operand of the Return.      *)
(* There are no instructions, registers or stacks.                         *)
(*                                                                         *)
(* The promise covers the trees for which promised holds, and calls made   *)
(* after init().  Before anything is evaluated the call may throw.         *)
(***************************************************************************)
EXTENDS Ast, RunValues

VARIABLES
    ast,            \* the Module around the expression
    api,            \* the function called
    promised,       \* is this tree one of those the promise covers?
    initialized,    \* has init() been called?
    literals,       \* the values of LiteralInt32 nodes
    value,          \* the values of the nodes evaluated
    store,          \* the values of variables, by Block and name
    done,           \* the nodes evaluated
    status,         \* "pending", "returned", "threw" or undefined
    answer

vars == <<ast, api, promised, initialized, literals, value, store, done, status, answer>>

Evaluated == {"Binary", "VariableRef", "AssignVariable", "Return"}

IntLiterals == {n \in DOMAIN ast : ast[n].kind = "LiteralInt32"}

Init ==
    /\ IsTree(ast)
    /\ promised \in BOOLEAN
    /\ initialized = FALSE
    /\ DOMAIN literals = {} /\ DOMAIN value = {} /\ DOMAIN store = {}
    /\ done = {}
    /\ status = "pending"
    /\ answer = <<>>

(***************************************************************************)
(* Node n is the next one: it closes after all that have been evaluated,   *)
(* and what closes before it has been.                                     *)
(***************************************************************************)
IsNext(n) ==
    /\ status = "pending"
    /\ DOMAIN literals = IntLiterals
    /\ n \notin done
    /\ \A m \in DOMAIN ast :
          ast[m].kind \in Evaluated => (ClosesBefore(ast, m, n) <=> m \in done)

ValueOf(n) ==
    CASE ast[n].kind = "LiteralInt32" -> Int32Value(literals[n])
      [] ast[n].kind = "LiteralFloat" -> FloatValue(n)
      [] OTHER                        -> value[n]

Operand(n, i) == ValueOf(ast[n].kids[i])

Sets(f, x, v) == [y \in DOMAIN f \cup {x} |-> IF y = x THEN v ELSE f[y]]

TypeName(dt) ==
    CASE dt = "Int32" -> "i32" [] dt = "Float" -> "float" [] dt = "Bool" -> "i8"
      [] OTHER -> "double"

EvaluateRef(n) ==
    /\ ast[n].kind = "VariableRef"
    /\ \E b \in DOMAIN ast :
          LET variable == [block |-> b, name |-> ast[n].name] IN
          /\ Binds(ast, n, ast[n].name, b)
          /\ \E v \in (IF variable \in DOMAIN store THEN {store[variable]}
                       ELSE Unset(TypeName(ast[n].dataType))) :
                value' = Sets(value, n, v)
    /\ UNCHANGED <<store, status, answer>>

EvaluateAssign(n) ==
    /\ ast[n].kind = "AssignVariable"
    /\ \E b \in DOMAIN ast :
          /\ Binds(ast, n, ast[n].name, b)
          /\ store' = Sets(store, [block |-> b, name |-> ast[n].name], Operand(n, 1))
    /\ UNCHANGED <<value, status, answer>>

EvaluateInt(n) ==
    /\ ast[n].kind = "Binary" /\ ast[n].dataType = "Int32"
    /\ ~Traps(ast[n].operation, Operand(n, 1), Operand(n, 2))
    /\ value' = Sets(value, n, IntResult(ast[n].operation, Operand(n, 1), Operand(n, 2)))
    /\ UNCHANGED <<store, status, answer>>

EvaluateFloat(n) ==
    /\ ast[n].kind = "Binary" /\ ast[n].dataType = "Float"
    /\ value' = Sets(value, n, FloatResult(ast[n].operation, Operand(n, 1), Operand(n, 2)))
    /\ UNCHANGED <<store, status, answer>>

EvaluateReturn(n) ==
    /\ ast[n].kind = "Return"
    /\ answer' = Operand(n, 1)
    /\ status' = "returned"
    /\ UNCHANGED <<value, store>>

Evaluate(n) ==
    /\ IsNext(n)
    /\ done' = done \cup {n}
    /\ \/ EvaluateRef(n) \/ EvaluateAssign(n) \/ EvaluateInt(n) \/ EvaluateFloat(n)
       \/ EvaluateReturn(n)
    /\ UNCHANGED <<ast, api, promised, initialized, literals>>

(***************************************************************************)
(* A division without result: nothing is said about what follows.          *)
(***************************************************************************)
DivideUndefined(n) ==
    /\ IsNext(n)
    /\ ast[n].kind = "Binary" /\ ast[n].dataType = "Int32"
    /\ Traps(ast[n].operation, Operand(n, 1), Operand(n, 2))
    /\ status' = Undefined
    /\ UNCHANGED <<ast, api, promised, initialized, literals, value, store, done, answer>>

Initialize ==
    /\ initialized' = TRUE
    /\ UNCHANGED <<ast, api, promised, literals, value, store, done, status, answer>>

GiveLiterals ==
    /\ done = {} /\ status = "pending" /\ DOMAIN literals = {}
    /\ DOMAIN literals' = IntLiterals
    /\ \A n \in DOMAIN literals' : literals'[n] \in Word
    /\ UNCHANGED <<ast, api, promised, initialized, value, store, done, status, answer>>

(***************************************************************************)
(* Before the evaluation: an exception, the end of compile(), or undefined *)
(* behaviour when init() was not called.                                   *)
(***************************************************************************)
EndEarly ==
    /\ status = "pending" /\ done = {}
    /\ \/ status' = "threw"
       \/ status' = "returned" /\ api = "compile"
       \/ status' = Undefined /\ ~initialized
    /\ UNCHANGED <<ast, api, promised, initialized, literals, value, store, done, answer>>

Next ==
    \/ ~promised
    \/ \E n \in DOMAIN ast : Evaluate(n) \/ DivideUndefined(n)
    \/ Initialize \/ GiveLiterals \/ EndEarly

Spec == Init /\ [][Next]_vars

-----------------------------------------------------------------------------
(* What an evaluation comes to, without its steps                          *)

(***************************************************************************)
(* The assignments to the variable x of Block b, and those of them that    *)
(* close before node n, wherever in the tree they are.                     *)
(***************************************************************************)
Assigns(a, b, x) ==
    /\ ast[a].kind = "AssignVariable"
    /\ ast[a].name = x
    /\ Binds(ast, a, x, b)

Earlier(n, b, x) == {a \in DOMAIN ast : Assigns(a, b, x) /\ ClosesBefore(ast, a, n)}

LatestIn(S, a) == a \in S /\ \A c \in S : c = a \/ ClosesBefore(ast, c, a)

RefMeans(n) ==
    \E b \in DOMAIN ast :
       /\ Binds(ast, n, ast[n].name, b)
       /\ LET before == Earlier(n, b, ast[n].name) IN
          \/ before = {} /\ value[n] \in Unset(TypeName(ast[n].dataType))
          \/ \E a \in before : LatestIn(before, a) /\ value[n] = Operand(a, 1)

BinaryMeans(n) ==
    LET op == ast[n].operation IN
    /\ ast[n].dataType = "Int32" =>
          /\ ~Traps(op, Operand(n, 1), Operand(n, 2))
          /\ value[n] = IntResult(op, Operand(n, 1), Operand(n, 2))
    /\ ast[n].dataType = "Float" => value[n] = FloatResult(op, Operand(n, 1), Operand(n, 2))

(***************************************************************************)
(* At any time the values agree with each other as the tree says: an       *)
(* operation with its operands, a reference with the last assignment       *)
(* before it to the same variable, not to one that shadows it or is        *)
(* shadowed by it.  An answer is given when nothing is left to evaluate,   *)
(* and it is the value of the operand of a Return.                         *)
(***************************************************************************)
NodeMeans(n) ==
    /\ ast[n].kind = "VariableRef" => RefMeans(n)
    /\ ast[n].kind = "Binary" => BinaryMeans(n)

AnswerMeans ==
    /\ {n \in DOMAIN ast : ast[n].kind \in Evaluated} \subseteq done
    /\ \E r \in DOMAIN ast : ast[r].kind = "Return" /\ answer = Operand(r, 1)

Means ==
    /\ \A n \in done : NodeMeans(n)
    /\ status = "returned" /\ api # "compile" => AnswerMeans

=============================================================================
