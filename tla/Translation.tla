----------------------------- MODULE Translation -----------------------------
(***************************************************************************)
(* What the code generator promises, said of the tree alone: compilation   *)
(* is a syntax-directed translation.  Each node that needs an instruction  *)
(* gets one, when its turn comes, and what the instruction says can be     *)
(* read off the node, its children and the Blocks around it.  There are no *)
(* stacks, and there is no walk.                                           *)
(*                                                                         *)
(* The promise covers the trees for which promised holds.                  *)
(***************************************************************************)
EXTENDS Ast

VARIABLES
    ast,            \* the Module to compile
    promised,       \* is this tree one of those the promise covers?
    code,           \* the instructions
    status          \* "walking", "done", or the exception thrown

vars == <<ast, promised, code, status>>

Translates == {"Block", "VariableRef", "AssignVariable", "Binary", "Return"}

Translated == {i.node : i \in code}

Init ==
    /\ IsTree(ast)
    /\ promised \in BOOLEAN
    /\ code = {}
    /\ status = "walking"

(***************************************************************************)
(* A Block's variables are allocated before what is in the Block, so its   *)
(* turn comes when it opens; that of another node comes when it closes.    *)
(***************************************************************************)
AtOpening(n) == ast[n].kind = "Block"

Precedes(m, n) ==
    \/ AtOpening(m)  /\ AtOpening(n)  /\ m < n
    \/ AtOpening(m)  /\ ~AtOpening(n) /\ m <= ast[n].last
    \/ ~AtOpening(m) /\ AtOpening(n)  /\ ast[m].last < n
    \/ ~AtOpening(m) /\ ~AtOpening(n) /\ ClosesBefore(ast, m, n)

IsNext(n) ==
    \A m \in DOMAIN ast :
       ast[m].kind \in Translates => (m \in Translated <=> Precedes(m, n))

Adds(n, op, args, slots) ==
    code' = code \cup {[node |-> n, op |-> op, args |-> args, slots |-> slots]}

(***************************************************************************)
(* The variable a name stands for is that of the innermost Block around    *)
(* the node that declares it.                                              *)
(***************************************************************************)
AddsAccess(n, op, args) ==
    \E b \in DOMAIN ast :
       /\ Binds(ast, n, ast[n].name, b)
       /\ Adds(n, op, args, {[block |-> b, name |-> ast[n].name]})

(***************************************************************************)
(* Arithmetic is on operands of one type, int or float.                    *)
(***************************************************************************)
OpcodeOf ==
    [Int32 |-> [Add |-> "add",  Sub |-> "sub",  Mul |-> "mul",  Div |-> "sdiv"],
     Float |-> [Add |-> "fadd", Sub |-> "fsub", Mul |-> "fmul", Div |-> "fdiv"]]

AddsOperation(n) ==
    LET type == ast[n].dataType IN
    /\ type \in DOMAIN OpcodeOf
    /\ \A i \in DOMAIN ast[n].kids : TypeAt(ast, ast[n].kids[i]) = type
    /\ Adds(n, OpcodeOf[type][ast[n].operation], ast[n].kids, {})

Translate(n) ==
    /\ status = "walking"
    /\ IsNext(n)
    /\ \/ /\ ast[n].kind = "Block"
          /\ Adds(n, "alloca", <<>>, {[block |-> n, name |-> x] : x \in DOMAIN ast[n].scope})
       \/ ast[n].kind = "VariableRef" /\ AddsAccess(n, "load", <<>>)
       \/ ast[n].kind = "AssignVariable" /\ AddsAccess(n, "store", ast[n].kids)
       \/ ast[n].kind = "Binary" /\ AddsOperation(n)
       \/ ast[n].kind = "Return" /\ Adds(n, "ret", ast[n].kids, {})
    /\ UNCHANGED <<ast, promised, status>>

Finish ==
    /\ status = "walking"
    /\ \A n \in DOMAIN ast : ast[n].kind \in Translates => n \in Translated
    /\ status' = "done"
    /\ UNCHANGED <<ast, promised, code>>

(***************************************************************************)
(* The code of a compilation that throws is of no use to anyone.           *)
(***************************************************************************)
Throw ==
    /\ status = "walking"
    /\ status' \notin {"walking", "done", Undefined}
    /\ UNCHANGED <<ast, promised>>

Next ==
    \/ ~promised
    \/ \E n \in DOMAIN ast : Translate(n)
    \/ Finish \/ Throw

Spec == Init /\ [][Next]_vars

=============================================================================
