---------------------------- MODULE PrettyPrinter ----------------------------
(***************************************************************************)
(* PrettyPrinterVisitor (src/src/PrettyPrinter.hpp), driven by TreeWalker: *)
(* the indentation it keeps and the lines it writes, one for each node.    *)
(* Of a line only the number of tabs is kept, and whether what follows     *)
(* them could be written at all.                                           *)
(*                                                                         *)
(* A printer may be given to one walk after the other; nothing resets it   *)
(* in between, whether the walk before came to its end or not.             *)
(***************************************************************************)
EXTENDS TreeWalker

CONSTANT MaxWalks                        \* a bound on the walks of a printer

ASSUME MaxWalksAssumption == MaxWalks \in Nat \ {0}

VARIABLES
    indent,     \* indent_
    written,    \* the tabs before each line of this walk
    base,       \* history: the indentation when this walk began
    failed,     \* history: has an earlier walk ended in an exception?
    walks       \* history: the walks begun

lineVars == <<indent, written>>

historyVars == <<base, failed, walks>>

vars == <<walkerVars, lineVars, historyVars>>

-----------------------------------------------------------------------------
(***************************************************************************)
(* writeTabs; the loop writes none while indent_ is negative.              *)
(***************************************************************************)
Tabs(i) == IF i > 0 THEN i ELSE 0

(***************************************************************************)
(* to_string(DataType), which throws for Double.                           *)
(***************************************************************************)
Printable(dt) == dt # "Double"

PrintsScope(n) ==
    ast[n].kind = "Block" =>
       \A x \in DOMAIN ast[n].scope : Printable(ast[n].scope[x])

(***************************************************************************)
(* visitingNode.                                                           *)
(***************************************************************************)
WritesBeforeIndenting ==                 \* a mutant of VisitingNode
    /\ written' = Append(written, Tabs(indent))
    /\ indent' = indent + 1

VisitingNode ==
    /\ indent' = indent + 1
    /\ written' = Append(written, Tabs(indent'))

VisitingInner(n) ==
    /\ PrintsScope(n) /\ ~ast[n].lacks
    /\ Enter(n)
    /\ VisitingNode
    /\ UNCHANGED historyVars

(***************************************************************************)
(* writeScopeVariables meets a Variable whose type has no name; by then it *)
(* has looked at every Variable, to sort them.                             *)
(***************************************************************************)
VisitingBlockThrows(n) ==
    /\ ~PrintsScope(n) /\ ~ast[n].lacks
    /\ FailEntering(n, "UnhandledSwitchCase")
    /\ VisitingNode
    /\ UNCHANGED historyVars

(***************************************************************************)
(* A null Scope is read, or a null Variable's name or type.                *)
(***************************************************************************)
VisitingUndefined(n) ==
    /\ ast[n].lacks
    /\ FailEntering(n, Undefined)
    /\ VisitingNode
    /\ UNCHANGED historyVars

(***************************************************************************)
(* The printer's part in a leaf: visitingNode, visitX, visitedNode.        *)
(***************************************************************************)
ClosesLeafTwice(n) ==                    \* a mutant of VisitedLeaf
    /\ VisitLeaf(n)
    /\ written' = Append(written, Tabs(indent + 1))
    /\ indent' = indent - 1
    /\ UNCHANGED historyVars

VisitedLeaf(n) ==
    /\ ~ast[n].lacks
    /\ VisitLeaf(n)
    /\ written' = Append(written, Tabs(indent + 1))
    /\ UNCHANGED <<indent, historyVars>>

(***************************************************************************)
(* visitedNode.                                                            *)
(***************************************************************************)
NeverDedents(n) ==                       \* a mutant of VisitedInner
    /\ Leave(n)
    /\ UNCHANGED <<lineVars, historyVars>>

VisitedInner(n) ==
    /\ Leave(n)
    /\ indent' = indent - 1
    /\ UNCHANGED <<written, historyVars>>

(***************************************************************************)
(* cleanUp() only ends the last line.                                      *)
(***************************************************************************)
WalkerAlone ==
    /\ SkipBranch \/ NullChild \/ UnhandledKind \/ CleanUp
    /\ UNCHANGED <<lineVars, historyVars>>

(***************************************************************************)
(* The client walks a Module with the same printer again.                  *)
(***************************************************************************)
WalkAgain ==
    /\ outcome \in {"done"} \cup Exception
    /\ walks < MaxWalks
    /\ ast' \in Programs
    /\ calls' = <<>> /\ outcome' = "walking" /\ trace' = <<>>
    /\ written' = <<>>
    /\ base' = indent
    /\ failed' = (failed \/ outcome \in Exception)
    /\ walks' = walks + 1
    /\ UNCHANGED indent

-----------------------------------------------------------------------------
Init ==
    /\ WalkInit
    /\ indent = -1
    /\ written = <<>>
    /\ base = -1
    /\ failed = FALSE
    /\ walks = 1

Visit(n) ==
    \/ VisitingInner(n) \/ VisitingBlockThrows(n) \/ VisitingUndefined(n)
    \/ VisitedLeaf(n) \/ VisitedInner(n)

GoesOn == (\E n \in DOMAIN ast : Visit(n)) \/ WalkerAlone

Next == GoesOn \/ WalkAgain

Safety == Init /\ [][Next]_vars

(***************************************************************************)
(* A walk waits for nothing; whether there is another is for the client to *)
(* decide.                                                                 *)
(***************************************************************************)
Spec == Safety /\ WF_vars(GoesOn)

-----------------------------------------------------------------------------
(* Properties                                                              *)

(***************************************************************************)
(* The printer's members and output have the types they are declared with, *)
(* and indent_ does not fall below its initial value.                      *)
(***************************************************************************)
TypeOK ==
    /\ WalkTypeOK
    /\ indent \in Nat \cup {-1}
    /\ written \in Seq(Nat)
    /\ base \in Nat \cup {-1}
    /\ failed \in BOOLEAN
    /\ walks \in 1 .. MaxWalks

(***************************************************************************)
(* The lines are an outline of the tree, from which it can be read back:   *)
(* the parent of a node is on the last line above the node's own with      *)
(* fewer tabs, and has one tab less; also in what was written before an    *)
(* exception, and by a printer whose earlier walks failed.                 *)
(***************************************************************************)
ParentLine(p, m) ==
    /\ p < m
    /\ written[p] = written[m] - 1
    /\ \A k \in (p + 1) .. (m - 1) : written[k] >= written[m]

OutlineReadsBack ==
    /\ Len(written) = Len(trace)
    /\ \A m \in DOMAIN written, p \in DOMAIN ast : \A i \in DOMAIN ast[p].kids :
          ast[p].kids[i] = m => ParentLine(p, m)

(***************************************************************************)
(* A walk that comes to its end gives the indentation back.  One that      *)
(* throws leaves some of it behind, wherever it threw, and nothing takes   *)
(* that away again: a walk starts at the left margin just if none of the   *)
(* printer's walks before it threw.                                        *)
(***************************************************************************)
IndentRestored ==
    /\ outcome = "done" => indent = base
    /\ outcome \in Exception => indent > base
    /\ failed <=> base > -1

(***************************************************************************)
(* Printing succeeds only if the tree has no Variable of a type without a  *)
(* name, no node of a kind the walker does not know, and no child, Scope   *)
(* or Variable missing; each exception is thrown for its own defect, and   *)
(* behaviour is undefined only if a Scope or Variable is null.             *)
(***************************************************************************)
Unprintable(n) == ast[n].kind \in ClientKind \/ ~PrintsScope(n)

PrintsOrThrows ==
    /\ outcome = "done" =>
          ~\E n \in DOMAIN ast : Unprintable(n) \/ Incomplete(n) \/ ast[n].lacks
    /\ outcome = "UnhandledSwitchCase" => \E n \in DOMAIN ast : Unprintable(n)
    /\ outcome = "InvalidArgumentException" => \E n \in DOMAIN ast : Incomplete(n)
    /\ outcome = Undefined => \E n \in DOMAIN ast : ast[n].lacks
    /\ outcome \in {"walking", "done", "UnhandledSwitchCase", "InvalidArgumentException",
                    Undefined}

(***************************************************************************)
(* Every walk of a printer ends.                                           *)
(***************************************************************************)
WalksEnd == outcome = "walking" ~> outcome # "walking"

=============================================================================
