---------------------------- MODULE TreeWalker ----------------------------
(***************************************************************************)
(* ExpressionTreeWalker (src/src/ExpressionTreeWalker.hpp): the recursive  *)
(* walk over a Module, with the C++ call stack made explicit.  A frame is  *)
(* one activation of walkBlock, walkBinary, ...: the node it was given and *)
(* which of the node's children it walks next.                             *)
(*                                                                         *)
(* The walker calls back into a visitor it knows nothing about, so here    *)
(* every callback may throw or end in undefined behaviour; a module that   *)
(* models one visitor conjoins its handlers with Enter, VisitLeaf, Leave   *)
(* and Fail.                                                               *)
(***************************************************************************)
EXTENDS Ast

CONSTANT Programs                        \* the Modules that may be walked

ASSUME ProgramsAssumption == \A p \in Programs : IsTree(p)

VARIABLES
    ast,        \* the Module given to walkTree; nodes never change
    calls,      \* the activations of the walk functions, outermost first
    outcome,    \* "walking", "done", or how the walk ended early
    trace       \* history: the nodes for which visitingNode was called

walkerVars == <<ast, calls, outcome, trace>>

(***************************************************************************)
(* The exceptions of Exception.hpp that a walk can end in, and undefined   *)
(* behaviour, after which nothing is said about the process.               *)
(***************************************************************************)
Exception == {"InvalidArgumentException", "InvalidStateException",
              "UnhandledSwitchCase", "CompileException",
              "DebugAssertionFailedException"}

Failure == Exception \cup {Undefined}

Frame == [node : Nat \ {Null}, next : Nat \ {0}]

Top == calls[Len(calls)]

-----------------------------------------------------------------------------
(***************************************************************************)
(* walk() is about to be called, with Argument: by walkTree when nothing   *)
(* has run, else by the innermost activation for its next child.           *)
(***************************************************************************)
Calling ==
    /\ outcome = "walking"
    /\ IF calls = <<>> THEN trace = <<>>
                       ELSE Top.next <= Len(ast[Top.node].kids)

RightmostFirst ==                        \* a mutant of Argument
    IF calls = <<>> THEN Root
    ELSE LET kids == ast[Top.node].kids IN kids[Len(kids) + 1 - Top.next]

Argument == IF calls = <<>> THEN Root ELSE ast[Top.node].kids[Top.next]

(***************************************************************************)
(* The call for a child has returned: its caller goes on to the next one.  *)
(***************************************************************************)
ReturnedToSame(cs) == cs                 \* a mutant of Returned

ReturnedTwice(cs) ==                     \* a mutant of Returned
    IF cs = <<>> THEN cs ELSE [cs EXCEPT ![Len(cs)].next = @ + 2]

Returned(cs) == IF cs = <<>> THEN cs ELSE [cs EXCEPT ![Len(cs)].next = @ + 1]

WalkInit ==
    /\ ast \in Programs
    /\ calls = <<>>
    /\ outcome = "walking"
    /\ trace = <<>>

(***************************************************************************)
(* walkModule, walkFunction, walkBlock, ...: visitingNode, visitingX.      *)
(***************************************************************************)
EnterFromZero(n) ==                      \* a mutant of Enter
    /\ Calling
    /\ n = Argument /\ n # Null
    /\ ast[n].kind \in InnerKind
    /\ calls' = Append(calls, [node |-> n, next |-> 0])
    /\ trace' = Append(trace, n)
    /\ UNCHANGED <<ast, outcome>>

Enter(n) ==
    /\ Calling
    /\ n = Argument /\ n # Null
    /\ ast[n].kind \in InnerKind
    /\ calls' = Append(calls, [node |-> n, next |-> 1])
    /\ trace' = Append(trace, n)
    /\ UNCHANGED <<ast, outcome>>

(***************************************************************************)
(* walkLiteralInt32, walkLiteralFloat, walkVariableRef: visitingNode,      *)
(* visitX and visitedNode in one call.                                     *)
(***************************************************************************)
VisitLeaf(n) ==
    /\ Calling
    /\ n = Argument /\ n # Null
    /\ ast[n].kind \in LeafKind
    /\ calls' = Returned(calls)
    /\ trace' = Append(trace, n)
    /\ UNCHANGED <<ast, outcome>>

(***************************************************************************)
(* A Conditional's branch that is null is not walked.                      *)
(***************************************************************************)
AnyNullChild == calls # <<>> /\ Argument = Null   \* a mutant of NullBranch

NullBranch == calls # <<>> /\ ast[Top.node].kind = "Conditional" /\ Argument = Null

SkipForever ==                           \* a mutant of SkipBranch
    /\ Calling
    /\ NullBranch
    /\ UNCHANGED walkerVars

SkipBranch ==
    /\ Calling
    /\ NullBranch
    /\ calls' = Returned(calls)
    /\ UNCHANGED <<ast, outcome, trace>>

(***************************************************************************)
(* The children are done: visitedX, visitedNode, and return.               *)
(***************************************************************************)
LeavingEarly(n) ==                       \* a mutant of Leaving
    /\ outcome = "walking"
    /\ calls # <<>>
    /\ n = Top.node
    /\ Top.next >= Len(ast[n].kids)

Leaving(n) ==
    /\ outcome = "walking"
    /\ calls # <<>>
    /\ n = Top.node
    /\ Top.next > Len(ast[n].kids)

Leave(n) ==
    /\ Leaving(n)
    /\ calls' = Returned(SubSeq(calls, 1, Len(calls) - 1))
    /\ UNCHANGED <<ast, outcome, trace>>

(***************************************************************************)
(* walkModule returned: cleanUp().                                         *)
(***************************************************************************)
CleanUp ==
    /\ outcome = "walking"
    /\ calls = <<>>
    /\ trace # <<>>
    /\ outcome' = "done"
    /\ UNCHANGED <<ast, calls, trace>>

(***************************************************************************)
(* An exception unwinds every activation, and nothing more is called.     *)
(***************************************************************************)
Fail(e) ==
    /\ outcome' = e
    /\ calls' = <<>>
    /\ UNCHANGED ast

(***************************************************************************)
(* ARG_NOT_NULL(node) and the default case of the switch in walk(), both   *)
(* before any callback.                                                    *)
(***************************************************************************)
NullChild ==
    /\ Calling
    /\ Argument = Null /\ ~NullBranch
    /\ Fail("InvalidArgumentException")
    /\ UNCHANGED trace

UnhandledKind ==
    /\ Calling
    /\ Argument # Null /\ ast[Argument].kind \in ClientKind
    /\ Fail("UnhandledSwitchCase")
    /\ UNCHANGED trace

(***************************************************************************)
(* The visitor fails in visitingX or visitX (after visitingNode), or in    *)
(* visitedX or visitedNode.                                                *)
(***************************************************************************)
FailEntering(n, e) ==
    /\ Calling
    /\ n = Argument /\ n # Null
    /\ ast[n].kind \notin ClientKind
    /\ trace' = Append(trace, n)
    /\ Fail(e)

FailLeaving(n, e) ==
    /\ Leaving(n)
    /\ Fail(e)
    /\ UNCHANGED trace

(***************************************************************************)
(* The visitor fails in initialize(), before the Module is walked, or in   *)
(* cleanUp(), after it.                                                    *)
(***************************************************************************)
FailOutside(e) ==
    /\ outcome = "walking"
    /\ calls = <<>>
    /\ Fail(e)
    /\ UNCHANGED trace

-----------------------------------------------------------------------------
WalkNext ==
    \/ \E n \in DOMAIN ast :
          \/ Enter(n) \/ VisitLeaf(n) \/ Leave(n)
          \/ \E e \in Failure : FailEntering(n, e) \/ FailLeaving(n, e)
    \/ \E e \in Failure : FailOutside(e)
    \/ SkipBranch \/ NullChild \/ UnhandledKind \/ CleanUp

(***************************************************************************)
(* walkTree runs on one thread, without waiting for anything.              *)
(***************************************************************************)
WalkSafety == WalkInit /\ [][WalkNext]_walkerVars

WalkSpec == WalkSafety /\ WF_walkerVars(WalkNext)

-----------------------------------------------------------------------------
(***************************************************************************)
(* The walker's state has the types its members and locals have.           *)
(***************************************************************************)
WalkTypeOK ==
    /\ IsTree(ast)
    /\ calls \in Seq(Frame)
    /\ outcome \in {"walking", "done"} \cup Failure
    /\ trace \in Seq(Nat)

(***************************************************************************)
(* The call stack is a path down from the Module, along the child each     *)
(* activation is walking; the nodes visited so far are the first of the    *)
(* document, and end where the innermost activation has got to; an outer   *)
(* activation has got to just before the node of the next inner one.       *)
(***************************************************************************)
OnPath(i) ==
    /\ calls[i].node \in DOMAIN ast
    /\ calls[i].next \in 1 .. (Len(ast[calls[i].node].kids) + 1)
    /\ i < Len(calls) =>
          /\ calls[i].next <= Len(ast[calls[i].node].kids)
          /\ ast[calls[i].node].kids[calls[i].next] = calls[i + 1].node

Nested(i, j) ==
    /\ calls[i].node < calls[j].node
    /\ ast[calls[j].node].last <= ast[calls[i].node].last

Reached(i) ==
    /\ i < Len(calls) =>
          IsLastCovered(ast, calls[i].node, calls[i].next, calls[i + 1].node - 1)
    /\ i = Len(calls) =>
          IsLastCovered(ast, calls[i].node, calls[i].next, Len(trace))

InDocument ==
    /\ calls # <<>> => calls[1].node = Root
    /\ \A i \in DOMAIN calls : OnPath(i) /\ Reached(i)
    /\ \A i, j \in DOMAIN calls : i < j => Nested(i, j)
    /\ trace = [i \in 1 .. Len(trace) |-> i] /\ Len(trace) <= Len(ast)
    /\ calls = <<>> /\ outcome = "walking" => trace = <<>> \/ Len(trace) = Len(ast)
    /\ outcome # "walking" => calls = <<>>
    /\ outcome = "done" => Len(trace) = Len(ast)

(***************************************************************************)
(* A node the walk has left is behind it as a whole: what it contains has  *)
(* been visited, and no node that is open now lies inside it.              *)
(***************************************************************************)
Open == {calls[i].node : i \in DOMAIN calls}

LeftBehind ==
    outcome = "walking" =>
       \A b \in 1 .. Len(trace) :
          b \notin Open =>
             /\ ast[b].last <= Len(trace)
             /\ \A m \in Open : b < m => ast[b].last < m

(***************************************************************************)
(* A walk that is not cut short finds every child in its place: the nodes  *)
(* behind it are of kinds it knows, and miss no child.                     *)
(***************************************************************************)
Incomplete(n) ==
    \E i \in DOMAIN ast[n].kids :
       ast[n].kids[i] = Null /\ ast[n].kind # "Conditional"

WalkedComplete ==
    outcome \in {"walking", "done"} =>
       \A n \in 1 .. Len(trace) :
          ast[n].kind \notin ClientKind /\ (n \notin Open => ~Incomplete(n))

(***************************************************************************)
(* What a visitor is promised: the callbacks come in document order, each  *)
(* node once, and visitedNode closes the most recent open node.            *)
(***************************************************************************)
Order == INSTANCE DocumentOrder WITH open <- Open

DocumentOrderSpec == Order!Spec

(***************************************************************************)
(* No step of a walk can be repeated for ever: each one, whatever the      *)
(* visitor does, leaves less to do, which is counted in natural numbers    *)
(* and compared from the first that differs.                               *)
(***************************************************************************)
ChildrenAhead == IF calls = <<>> THEN 0 ELSE Len(ast[Top.node].kids) + 1 - Top.next

WalkWork ==
    <<IF outcome = "walking" THEN 1 ELSE 0, Len(ast) - Len(trace), Len(calls), ChildrenAhead>>

Below(v, w) ==
    /\ \A i \in DOMAIN w : v[i] \in Nat
    /\ \E i \in DOMAIN w : v[i] < w[i] /\ \A j \in 1 .. (i - 1) : v[j] = w[j]

WalkShrinks == [][Below(WalkWork', WalkWork)]_walkerVars

(***************************************************************************)
(* Every walk returns, whatever the visitor does.                          *)
(***************************************************************************)
WalkTerminates == <>(outcome # "walking")

=============================================================================
