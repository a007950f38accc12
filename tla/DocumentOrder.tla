--------------------------- MODULE DocumentOrder ---------------------------
(***************************************************************************)
(* What ExpressionTreeVisitor (src/src/ExpressionTreeVisitor.hpp) may rely *)
(* on, without a call stack or child positions: the nodes are visited in   *)
(* document order, each exactly once; a node is opened before and closed   *)
(* after everything inside it; the walk may fail at any point, and a walk  *)
(* that succeeds has visited the whole tree.                               *)
(***************************************************************************)
EXTENDS Ast

VARIABLES
    ast,        \* the tree
    open,       \* nodes announced by visitingNode and not yet by visitedNode
    outcome,    \* "walking", "done", or how the walk failed
    trace       \* the nodes announced so far

vars == <<ast, open, outcome, trace>>

Init ==
    /\ IsTree(ast)
    /\ open = {}
    /\ outcome = "walking"
    /\ trace = <<>>

(***************************************************************************)
(* The next node of the document is announced inside every open node.      *)
(***************************************************************************)
Announce(n) ==
    /\ outcome = "walking"
    /\ n = Len(trace) + 1 /\ n <= Len(ast)
    /\ \A m \in open : Encloses(ast, m, n)
    /\ trace' = Append(trace, n)

Begin(n) ==
    /\ Announce(n)
    /\ open' = open \cup {n}
    /\ UNCHANGED <<ast, outcome>>

Visit(n) ==
    /\ Announce(n)
    /\ ast[n].last = n
    /\ UNCHANGED <<ast, open, outcome>>

End(n) ==
    /\ outcome = "walking"
    /\ n \in open
    /\ \A m \in open : m <= n
    /\ ast[n].last = Len(trace)
    /\ open' = open \ {n}
    /\ UNCHANGED <<ast, outcome, trace>>

Finish ==
    /\ outcome = "walking"
    /\ open = {}
    /\ Len(trace) = Len(ast)
    /\ outcome' = "done"
    /\ UNCHANGED <<ast, open, trace>>

Fail ==
    /\ outcome = "walking"
    /\ outcome' \notin {"walking", "done"}
    /\ open' = {}
    /\ \/ UNCHANGED trace
       \/ \E n \in DOMAIN ast : Announce(n)
    /\ UNCHANGED ast

Next ==
    \/ \E n \in DOMAIN ast : Begin(n) \/ Visit(n) \/ End(n)
    \/ Finish
    \/ Fail

Spec == Init /\ [][Next]_vars

=============================================================================
