--------------------------- MODULE PrinterProofs ---------------------------
(***************************************************************************)
(* Proofs about the pretty printer, for every set of Modules and however   *)
(* often a printer is used: what it writes is an outline of the tree, a    *)
(* walk that ends gives the indentation back, and printing fails exactly   *)
(* for the trees that cannot be printed.                                   *)
(***************************************************************************)
EXTENDS PrettyPrinter, TreeWalkerProofs

-----------------------------------------------------------------------------
(* The inductive invariant                                                 *)

WalkInv == WalkTypeOK /\ InDocument /\ LeftBehind /\ WalkedInv

(***************************************************************************)
(* The indentation counts the open nodes.                                  *)
(***************************************************************************)
Margin ==
    /\ indent \in Int /\ base \in Int /\ failed \in BOOLEAN /\ walks \in 1 .. MaxWalks
    /\ -1 <= base /\ base <= indent
    /\ outcome = "walking" => indent = base + Len(calls)
    /\ outcome = "done" => indent = base
    /\ outcome \in Exception => indent > base
    /\ failed <=> base > -1

(***************************************************************************)
(* Behind the line of an open node all lines are indented further.         *)
(***************************************************************************)
Deeper ==
    \A i \in DOMAIN calls :
       /\ written[calls[i].node] = base + i
       /\ \A k \in (calls[i].node + 1) .. Len(written) : written[k] > base + i

Lines ==
    /\ written \in Seq(Nat) /\ Len(written) = Len(trace)
    /\ Deeper
    /\ OutlineReadsBack

Printed ==
    /\ outcome \in {"walking", "done"} =>
          \A n \in 1 .. Len(trace) : PrintsScope(n) /\ ~ast[n].lacks
    /\ PrintsOrThrows

PrinterInv == WalkInv /\ Margin /\ Lines /\ Printed

-----------------------------------------------------------------------------
(* The walk                                                                *)

LEMMA StepWalks == GoesOn \/ UNCHANGED vars => [WalkNext]_walkerVars
  <1>1. ASSUME NEW n \in DOMAIN ast, Visit(n)
        PROVE  WalkNext
    <2>1. "UnhandledSwitchCase" \in Failure /\ Undefined \in Failure
      BY DEF Failure, Exception
    <2> QED
      BY <1>1, <2>1 DEF Visit, VisitingInner, VisitingBlockThrows, VisitingUndefined,
                        VisitedLeaf, VisitedInner, WalkNext
  <1>2. CASE WalkerAlone
    BY <1>2 DEF WalkerAlone, WalkNext
  <1>3. CASE UNCHANGED vars
    BY <1>3 DEF vars, walkerVars
  <1> QED
    BY <1>1, <1>2, <1>3 DEF GoesOn

LEMMA WalkInvInit == WalkInit => WalkInv
  <1> SUFFICES ASSUME WalkInit
               PROVE  WalkInv
    OBVIOUS
  <1>1. WalkTypeOK
    BY ProgramsAssumption DEF WalkInit, WalkTypeOK
  <1>2. InDocument /\ LeftBehind /\ WalkedInv
    BY DEF WalkInit, InDocument, LeftBehind, WalkedInv, WalkedComplete, ChildrenWalked
  <1> QED
    BY <1>1, <1>2 DEF WalkInv

LEMMA WalkInvAgain == WalkAgain => WalkInv'
  <1> SUFFICES ASSUME WalkAgain
               PROVE  WalkInv'
    OBVIOUS
  <1>1. ast' \in Programs /\ calls' = <<>> /\ outcome' = "walking" /\ trace' = <<>>
    BY DEF WalkAgain
  <1>2. WalkTypeOK'
    BY <1>1, ProgramsAssumption DEF WalkTypeOK
  <1>3. InDocument' /\ LeftBehind' /\ WalkedInv'
    BY <1>1 DEF InDocument, LeftBehind, WalkedInv, WalkedComplete, ChildrenWalked
  <1> QED
    BY <1>2, <1>3 DEF WalkInv

LEMMA WalkInvStep ==
    ASSUME WalkInv, [Next]_vars
    PROVE  WalkInv'
  <1>1. CASE WalkAgain
    BY <1>1, WalkInvAgain
  <1>2. CASE GoesOn \/ UNCHANGED vars
    <2>1. [WalkNext]_walkerVars
      BY <1>2, StepWalks
    <2>2. WalkTypeOK' /\ InDocument'
      BY <2>1, WalkTypeStep, InDocumentStep DEF WalkInv
    <2>3. LeftBehind' /\ WalkedInv'
      BY <2>1, <2>2, LeftBehindStep, WalkedStep DEF WalkInv
    <2> QED
      BY <2>2, <2>3 DEF WalkInv
  <1> QED
    BY <1>1, <1>2 DEF Next

-----------------------------------------------------------------------------
(* The lines                                                               *)

LEMMA SameOutline ==
    ASSUME ast' = ast, trace' = trace, written' = written, OutlineReadsBack
    PROVE  OutlineReadsBack'
  BY DEF OutlineReadsBack, ParentLine

(***************************************************************************)
(* A line for the next node of the document, one tab further in than the   *)
(* innermost open node.                                                    *)
(***************************************************************************)
LEMMA LineAdded ==
    ASSUME WalkInv, Margin, Lines, Calling, Argument # Null,
           ast' = ast, base' = base, trace' = Append(trace, Argument),
           written' = Append(written, Tabs(indent + 1))
    PROVE  /\ written' \in Seq(Nat) /\ Len(written') = Len(trace')
           /\ Len(written') = Argument /\ Argument = Len(written) + 1
           /\ written'[Argument] = base + Len(calls) + 1
           /\ \A k \in 1 .. Len(written) : written'[k] = written[k]
           /\ OutlineReadsBack'
  <1>1. /\ Argument \in DOMAIN ast /\ Argument = Len(trace) + 1
        /\ calls \in Seq(Frame) /\ Len(calls) \in Nat /\ DOMAIN calls = 1 .. Len(calls)
        /\ trace \in Seq(Nat) /\ Len(trace) \in Nat /\ Argument \in Nat
    BY NextNode, NodeType DEF WalkInv, WalkTypeOK
  <1>2. Tabs(indent + 1) = base + Len(calls) + 1 /\ Tabs(indent + 1) \in Nat
    BY <1>1 DEF Tabs, Margin, Calling
  <1>3. /\ written' \in Seq(Nat) /\ Len(written') = Len(trace')
        /\ Len(written') = Argument /\ Argument = Len(written) + 1
        /\ written'[Argument] = base + Len(calls) + 1
        /\ \A k \in 1 .. Len(written) : written'[k] = written[k]
        /\ DOMAIN written' = 1 .. Argument /\ DOMAIN written = 1 .. Len(written)
    BY <1>1, <1>2 DEF Lines
  <1>4. ASSUME NEW m \in DOMAIN written', NEW p \in DOMAIN ast,
               NEW i \in DOMAIN ast[p].kids, ast[p].kids[i] = m
        PROVE  ParentLine(p, m)'
    <2>1. p < m /\ p \in Nat /\ m \in Nat
      <3>1. m # Null /\ m \in Nat
        BY <1>1, <1>3 DEF Null
      <3> QED
        BY <1>4, <3>1, ChildInside, NodeType DEF WalkInv, WalkTypeOK
    <2>2. CASE m \in DOMAIN written
      <3>1. ParentLine(p, m)
        BY <1>4, <2>2 DEF Lines, OutlineReadsBack
      <3>2. p >= 1
        BY NodeType DEF WalkInv, WalkTypeOK
      <3>3. \A k \in p .. m : k \in 1 .. Len(written) /\ written'[k] = written[k]
        BY <1>1, <1>3, <2>1, <2>2, <3>2
      <3>4. p \in p .. m /\ m \in p .. m
        BY <2>1
      <3>5. \A k \in (p + 1) .. (m - 1) : k \in p .. m
        BY <2>1
      <3> QED
        BY <3>1, <3>3, <3>4, <3>5 DEF ParentLine
    <2>3. CASE m \notin DOMAIN written
      <3>1. m = Argument
        BY <1>1, <1>3, <2>1, <2>3
      <3>2. calls # <<>> /\ p = Top.node
        BY <1>4, <3>1, ParentOfNext DEF WalkInv
      <3>3. Len(calls) \in DOMAIN calls
        BY <1>1, <3>2, EmptySeq
      <3>4. /\ written[p] = base + Len(calls)
            /\ \A k \in (p + 1) .. Len(written) : written[k] > base + Len(calls)
        BY <3>2, <3>3 DEF Lines, Deeper, Top
      <3>5. p \in 1 .. Len(written)
        BY <1>1, <1>3, <2>1, <3>1, NodeType DEF WalkInv, WalkTypeOK
      <3>6. \A k \in (p + 1) .. (m - 1) : k \in 1 .. Len(written) /\ written[k] \in Nat
        BY <1>1, <1>3, <2>1, <3>1, <3>5, SMTT(30) DEF Lines
      <3>7. base \in Int
        BY DEF Margin
      <3> QED
        BY <1>1, <1>3, <2>1, <3>1, <3>4, <3>5, <3>6, <3>7, SMTT(30) DEF ParentLine
    <2> QED
      BY <2>2, <2>3
  <1>5. OutlineReadsBack'
    BY <1>3, <1>4 DEF OutlineReadsBack
  <1> QED
    BY <1>3, <1>5

(***************************************************************************)
(* The lines of the nodes that stay open.                                  *)
(***************************************************************************)
LEMMA DeeperAdded ==
    ASSUME WalkInv, Margin, Lines, Calling, Argument # Null,
           ast' = ast, base' = base, trace' = Append(trace, Argument),
           written' = Append(written, Tabs(indent + 1)),
           NEW i \in DOMAIN calls
    PROVE  /\ written'[calls[i].node] = base + i
           /\ \A k \in (calls[i].node + 1) .. Len(written') : written'[k] > base + i
  <1>1. /\ Len(written') = Argument /\ Argument = Len(written) + 1
        /\ written'[Argument] = base + Len(calls) + 1
        /\ \A k \in 1 .. Len(written) : written'[k] = written[k]
    BY LineAdded
  <1>2. /\ calls[i].node \in DOMAIN ast /\ calls[i].node < Argument /\ Argument \in DOMAIN ast
    BY NextNode DEF WalkInv, InDocument, OnPath
  <1>3. /\ calls[i].node \in 1 .. Len(written) /\ Argument \in Nat /\ Len(written) \in Nat
        /\ i \in 1 .. Len(calls) /\ Len(calls) \in Nat
    BY <1>1, <1>2, NodeType DEF WalkInv, WalkTypeOK, Lines
  <1>4. /\ written[calls[i].node] = base + i
        /\ \A k \in (calls[i].node + 1) .. Len(written) : written[k] > base + i
    BY DEF Lines, Deeper
  <1>5. base \in Int
    BY DEF Margin
  <1>6. ASSUME NEW k \in (calls[i].node + 1) .. Len(written')
        PROVE  written'[k] > base + i
    <2>1. k = Argument \/ k \in (calls[i].node + 1) .. Len(written)
      BY <1>1, <1>3
    <2> QED
      BY <1>1, <1>3, <1>4, <1>5, <2>1, SMTT(30)
  <1> QED
    BY <1>1, <1>3, <1>4, <1>6

-----------------------------------------------------------------------------
(* The handlers                                                            *)

LEMMA SameScopes == ast' = ast => \A n : PrintsScope(n)' <=> PrintsScope(n)
  BY DEF PrintsScope

LEMMA SameDefects ==
    ast' = ast => \A n : Unprintable(n)' <=> Unprintable(n)
  BY SameScopes DEF Unprintable

LEMMA VisitingInnerStep ==
    ASSUME PrinterInv, NEW n \in DOMAIN ast, VisitingInner(n)
    PROVE  Margin' /\ Lines' /\ Printed'
  <1> USE DEF PrinterInv
  <1>1. /\ Calling /\ n = Argument /\ Argument # Null /\ outcome = "walking"
        /\ ast' = ast /\ outcome' = outcome /\ trace' = Append(trace, Argument)
        /\ calls' = Append(calls, [node |-> n, next |-> 1])
        /\ base' = base /\ failed' = failed /\ walks' = walks
        /\ indent' = indent + 1 /\ written' = Append(written, Tabs(indent + 1))
        /\ PrintsScope(n) /\ ~ast[n].lacks
    BY DEF VisitingInner, Enter, VisitingNode, historyVars, Calling
  <1>2. /\ written' \in Seq(Nat) /\ Len(written') = Len(trace')
        /\ Len(written') = Argument /\ Argument = Len(written) + 1
        /\ written'[Argument] = base + Len(calls) + 1
        /\ OutlineReadsBack'
    BY <1>1, LineAdded
  <1>3. /\ calls \in Seq(Frame) /\ Len(calls) \in Nat /\ DOMAIN calls = 1 .. Len(calls)
        /\ n \in Nat /\ n >= 1
    BY NodeType DEF WalkInv, WalkTypeOK
  <1>4. [node |-> n, next |-> 1] \in Frame /\ [node |-> n, next |-> 1].node = n
    BY <1>3 DEF Frame, Null
  <1>5. /\ Len(calls') = Len(calls) + 1 /\ DOMAIN calls' = 1 .. (Len(calls) + 1)
        /\ \A i \in DOMAIN calls : calls'[i] = calls[i]
        /\ calls'[Len(calls) + 1].node = n
    BY <1>1, <1>3, <1>4
  <1>6. Margin'
    BY <1>1, <1>3, <1>5 DEF Margin, Exception
  <1>7. Deeper'
    <2> SUFFICES ASSUME NEW i \in DOMAIN calls'
                 PROVE  /\ written'[calls'[i].node] = base' + i
                        /\ \A k \in (calls'[i].node + 1) .. Len(written') :
                              written'[k] > base' + i
      BY DEF Deeper
    <2>1. CASE i \in DOMAIN calls
      BY <1>1, <1>5, <2>1, DeeperAdded
    <2>2. CASE i = Len(calls) + 1
      <3>1. base \in Int
        BY DEF Margin
      <3>2. (n + 1) .. Len(written') = {}
        BY <1>1, <1>2, <1>3
      <3> QED
        BY <1>1, <1>2, <1>3, <1>5, <2>2, <3>1, <3>2
    <2> QED
      BY <1>3, <1>5, <2>1, <2>2
  <1>8. Printed'
    <2>1. \A m \in 1 .. Len(trace') : m = n \/ m \in 1 .. Len(trace)
      BY <1>1, <1>2, <1>3 DEF Lines
    <2>2. \A m \in 1 .. Len(trace') : PrintsScope(m)' /\ ~ast'[m].lacks
      BY <1>1, <2>1, SameScopes DEF Printed
    <2> QED
      BY <1>1, <2>2 DEF Printed, PrintsOrThrows
  <1> QED
    BY <1>2, <1>6, <1>7, <1>8 DEF Lines

LEMMA VisitedLeafStep ==
    ASSUME PrinterInv, NEW n \in DOMAIN ast, VisitedLeaf(n)
    PROVE  Margin' /\ Lines' /\ Printed'
  <1> USE DEF PrinterInv
  <1>1. /\ Calling /\ n = Argument /\ Argument # Null /\ outcome = "walking"
        /\ ast' = ast /\ outcome' = outcome /\ trace' = Append(trace, Argument)
        /\ calls' = Returned(calls) /\ ast[n].kind \in LeafKind /\ ~ast[n].lacks
        /\ base' = base /\ failed' = failed /\ walks' = walks
        /\ indent' = indent /\ written' = Append(written, Tabs(indent + 1))
    BY DEF VisitedLeaf, VisitLeaf, historyVars, Calling
  <1>2. /\ written' \in Seq(Nat) /\ Len(written') = Len(trace')
        /\ Len(written') = Argument /\ Argument = Len(written) + 1
        /\ OutlineReadsBack'
    BY <1>1, LineAdded
  <1>3. calls \in Seq(Frame) /\ n \in Nat
    BY NodeType DEF WalkInv, WalkTypeOK
  <1>4. /\ Len(calls') = Len(calls) /\ DOMAIN calls' = DOMAIN calls
        /\ \A i \in DOMAIN calls : calls'[i].node = calls[i].node
    BY <1>1, <1>3, ReturnedFrames, ReturnedNodes
  <1>5. Margin'
    BY <1>1, <1>4 DEF Margin, Exception
  <1>6. Deeper'
    BY <1>1, <1>4, DeeperAdded DEF Deeper
  <1>7. Printed'
    <2>1. PrintsScope(n)
      BY <1>1 DEF PrintsScope, LeafKind
    <2>2. \A m \in 1 .. Len(trace') : m = n \/ m \in 1 .. Len(trace)
      BY <1>1, <1>2, <1>3 DEF Lines
    <2>3. \A m \in 1 .. Len(trace') : PrintsScope(m)' /\ ~ast'[m].lacks
      BY <1>1, <2>1, <2>2, SameScopes DEF Printed
    <2> QED
      BY <1>1, <2>3 DEF Printed, PrintsOrThrows
  <1> QED
    BY <1>2, <1>5, <1>6, <1>7 DEF Lines

LEMMA VisitedInnerStep ==
    ASSUME PrinterInv, NEW n \in DOMAIN ast, VisitedInner(n)
    PROVE  Margin' /\ Lines' /\ Printed'
  <1> USE DEF PrinterInv
  <1> DEFINE cs == SubSeq(calls, 1, Len(calls) - 1)
  <1>1. /\ calls # <<>> /\ outcome = "walking" /\ ast' = ast /\ outcome' = outcome
        /\ trace' = trace /\ calls' = Returned(cs)
        /\ base' = base /\ failed' = failed /\ walks' = walks
        /\ indent' = indent - 1 /\ written' = written
    BY DEF VisitedInner, Leave, Leaving, historyVars
  <1>2. /\ calls \in Seq(Frame) /\ cs \in Seq(Frame) /\ Len(cs) = Len(calls) - 1
        /\ Len(calls) \in Nat /\ Len(calls) > 0 /\ DOMAIN calls = 1 .. Len(calls)
        /\ \A i \in 1 .. (Len(calls) - 1) : cs[i] = calls[i]
    BY <1>1, PoppedFrames, EmptySeq DEF WalkInv, WalkTypeOK
  <1> HIDE DEF cs
  <1>3. /\ Len(calls') = Len(calls) - 1 /\ DOMAIN calls' = 1 .. (Len(calls) - 1)
        /\ \A i \in 1 .. (Len(calls) - 1) : calls'[i].node = calls[i].node
    BY <1>1, <1>2, ReturnedFrames, ReturnedNodes
  <1>4. Margin'
    BY <1>1, <1>2, <1>3 DEF Margin, Exception
  <1>5. \A i \in DOMAIN calls' : i \in DOMAIN calls /\ calls'[i].node = calls[i].node
    BY <1>2, <1>3
  <1>6. Deeper'
    BY <1>1, <1>5 DEF Lines, Deeper
  <1>7. Lines' /\ Printed'
    BY <1>1, <1>6, SameOutline, SameScopes DEF Lines, Printed, PrintsOrThrows
  <1> QED
    BY <1>4, <1>7

(***************************************************************************)
(* The printer throws, or follows a null pointer, on the way down.         *)
(***************************************************************************)
LEMMA VisitingFailsStep ==
    ASSUME PrinterInv, NEW n \in DOMAIN ast, VisitingBlockThrows(n) \/ VisitingUndefined(n)
    PROVE  Margin' /\ Lines' /\ Printed'
  <1> USE DEF PrinterInv
  <1>1. /\ Calling /\ n = Argument /\ Argument # Null /\ outcome = "walking"
        /\ ast' = ast /\ trace' = Append(trace, Argument)
        /\ calls' = <<>>
        /\ base' = base /\ failed' = failed /\ walks' = walks
        /\ indent' = indent + 1 /\ written' = Append(written, Tabs(indent + 1))
    BY DEF VisitingBlockThrows, VisitingUndefined, FailEntering, Fail, VisitingNode,
           historyVars,
           Calling
  <1>2. \/ outcome' = "UnhandledSwitchCase" /\ ~PrintsScope(n)
        \/ outcome' = Undefined /\ ast[n].lacks
    BY DEF VisitingBlockThrows, VisitingUndefined, FailEntering, Fail
  <1>3. /\ written' \in Seq(Nat) /\ Len(written') = Len(trace') /\ OutlineReadsBack'
    BY <1>1, LineAdded
  <1>4. Len(calls) \in Nat
    BY DEF WalkInv, WalkTypeOK
  <1>5. Margin'
    BY <1>1, <1>2, <1>4 DEF Margin, Undefined
  <1>6. Lines'
    BY <1>1, <1>3 DEF Lines, Deeper
  <1>7. Printed'
    BY <1>1, <1>2, SameDefects DEF Printed, PrintsOrThrows, Unprintable, Undefined
  <1> QED
    BY <1>5, <1>6, <1>7

LEMMA WalkerAloneStep ==
    ASSUME PrinterInv, WalkInv', WalkerAlone
    PROVE  Margin' /\ Lines' /\ Printed'
  <1> USE DEF PrinterInv
  <1>1. /\ ast' = ast /\ trace' = trace /\ base' = base /\ failed' = failed
        /\ walks' = walks /\ indent' = indent /\ written' = written
    BY DEF WalkerAlone, SkipBranch, NullChild, UnhandledKind, CleanUp, Fail, lineVars,
           historyVars
  <1>2. CASE SkipBranch
    <2>1. outcome' = outcome /\ calls' = Returned(calls) /\ calls \in Seq(Frame)
      BY <1>2 DEF SkipBranch, WalkInv, WalkTypeOK
    <2>2. /\ Len(calls') = Len(calls) /\ DOMAIN calls' = DOMAIN calls
          /\ \A i \in DOMAIN calls : calls'[i].node = calls[i].node
      BY <2>1, ReturnedFrames, ReturnedNodes
    <2>3. Deeper'
      BY <1>1, <2>2 DEF Lines, Deeper
    <2>4. Margin'
      BY <1>1, <2>1, <2>2 DEF Margin
    <2>5. Lines'
      BY <1>1, <2>3, SameOutline DEF Lines
    <2>6. outcome = "walking"
      BY <1>2 DEF SkipBranch, Calling
    <2>7. Printed'
      BY <1>1, <2>1, <2>6, SameScopes DEF Printed, PrintsOrThrows
    <2> QED
      BY <2>4, <2>5, <2>7
  <1>3. CASE NullChild \/ UnhandledKind
    <2>1. /\ calls' = <<>> /\ Calling
          /\ \/ /\ outcome' = "InvalidArgumentException"
                /\ Argument = Null /\ ~NullBranch
             \/ /\ outcome' = "UnhandledSwitchCase"
                /\ Argument # Null /\ ast[Argument].kind \in ClientKind
      BY <1>3 DEF NullChild, UnhandledKind, Fail
    <2>2. calls # <<>>
      BY <2>1 DEF Argument, Null, Root, WalkInv, WalkTypeOK, IsTree, Members, ClientKind
    <2>3. indent > base
      BY <2>1, <2>2 DEF Margin, Calling, WalkInv, WalkTypeOK
    <2>4. Lines' /\ Margin'
      BY <1>1, <2>1, <2>3, SameOutline DEF Lines, Deeper, Margin
    <2>5. ASSUME Argument = Null, ~NullBranch
          PROVE  \E n \in DOMAIN ast : Incomplete(n)
      BY <2>1, <2>5, NullIsMissing DEF WalkInv
    <2>6. ASSUME Argument # Null, ast[Argument].kind \in ClientKind
          PROVE  \E n \in DOMAIN ast : Unprintable(n)
      BY <2>1, <2>6, NextNode DEF WalkInv, Unprintable
    <2>7. Printed'
      BY <1>1, <2>1, <2>5, <2>6, SameDefects, SameIncomplete
         DEF Printed, PrintsOrThrows, Undefined
    <2> QED
      BY <2>4, <2>7
  <1>4. CASE CleanUp
    <2>1. outcome = "walking" /\ outcome' = "done" /\ calls' = calls /\ calls = <<>>
      BY <1>4 DEF CleanUp
    <2>2. Margin' /\ Lines'
      BY <1>1, <2>1, SameOutline DEF Margin, Lines, Deeper, Exception
    <2>3. /\ Len(trace) = Len(ast) /\ Open' = {} /\ DOMAIN ast = 1 .. Len(ast)
      <3>1. Len(trace') = Len(ast')
        BY <2>1 DEF WalkInv, InDocument
      <3> QED
        BY <1>1, <2>1, <3>1 DEF Open, WalkInv, WalkTypeOK, IsTree
    <2>4. \A n \in DOMAIN ast : ast[n].kind \notin ClientKind /\ ~Incomplete(n)
      BY <1>1, <2>1, <2>3, SameIncomplete DEF WalkInv, WalkedInv, WalkedComplete
    <2>5. \A n \in DOMAIN ast : ~Unprintable(n) /\ ~ast[n].lacks
      BY <2>1, <2>3, <2>4 DEF Printed, Unprintable
    <2> QED
      BY <1>1, <2>1, <2>2, <2>4, <2>5, SameScopes, SameDefects, SameIncomplete
         DEF Printed, PrintsOrThrows, Undefined
  <1> QED
    BY <1>2, <1>3, <1>4 DEF WalkerAlone

LEMMA WalkAgainStep ==
    ASSUME PrinterInv, WalkAgain
    PROVE  Margin' /\ Lines' /\ Printed'
  <1> USE DEF PrinterInv
  <1>1. /\ walks < MaxWalks /\ calls' = <<>>
        /\ outcome' = "walking" /\ trace' = <<>> /\ written' = <<>> /\ base' = indent
        /\ failed' = (failed \/ outcome \in Exception) /\ walks' = walks + 1
        /\ indent' = indent
    BY DEF WalkAgain
  <1>2. outcome \in Exception \/ outcome = "done"
    BY DEF WalkAgain
  <1>3. Margin'
    <2>1. failed' \in BOOLEAN
      BY <1>1
    <2>2. failed' <=> failed \/ outcome \in Exception
      BY <1>1
    <2>3. failed' <=> base' > -1
      <3>1. outcome \in Exception => indent > -1
        BY DEF Margin
      <3>2. failed => indent > -1
        BY DEF Margin
      <3>3. outcome = "done" /\ ~failed => ~(indent > -1)
        BY DEF Margin
      <3> QED
        BY <1>1, <1>2, <2>2, <3>1, <3>2, <3>3
    <2>4. walks' \in 1 .. MaxWalks
      BY <1>1, MaxWalksAssumption DEF Margin
    <2>5. /\ indent' \in Int /\ base' \in Int /\ -1 <= base' /\ base' <= indent'
          /\ Len(calls') = 0 /\ indent' = base' + 0
      BY <1>1 DEF Margin
    <2> QED
      BY <1>1, <2>1, <2>3, <2>4, <2>5 DEF Margin, Exception
  <1>4. <<>> \in Seq(Nat) /\ Len(<<>>) = 0 /\ DOMAIN <<>> = {}
    OBVIOUS
  <1>5. Lines'
    BY <1>1, <1>4 DEF Lines, Deeper, OutlineReadsBack
  <1>6. Printed'
    BY <1>1, <1>4 DEF Printed, PrintsOrThrows, Undefined
  <1> QED
    BY <1>3, <1>5, <1>6

LEMMA PrinterStep == PrinterInv /\ [Next]_vars => PrinterInv'
  <1> SUFFICES ASSUME PrinterInv, [Next]_vars
               PROVE  PrinterInv'
    OBVIOUS
  <1>1. WalkInv'
    BY WalkInvStep DEF PrinterInv
  <1>2. CASE GoesOn
    BY <1>1, <1>2, VisitingInnerStep, VisitingFailsStep, VisitedLeafStep,
       VisitedInnerStep, WalkerAloneStep
       DEF GoesOn, Visit, PrinterInv
  <1>3. CASE WalkAgain
    BY <1>1, <1>3, WalkAgainStep DEF PrinterInv
  <1>4. CASE UNCHANGED vars
    BY <1>1, <1>4, SameOutline, SameScopes, SameDefects, SameIncomplete
       DEF vars, walkerVars, lineVars, historyVars, PrinterInv, Margin, Lines, Deeper,
           Printed, PrintsOrThrows
  <1> QED
    BY <1>2, <1>3, <1>4 DEF Next

LEMMA PrinterInit == Init => PrinterInv
  <1> SUFFICES ASSUME Init
               PROVE  PrinterInv
    OBVIOUS
  <1>1. WalkInv
    BY WalkInvInit DEF Init
  <1>2. Margin
    <2>1. failed \in BOOLEAN /\ (failed <=> base > -1)
      <3>1. ~failed /\ failed \in BOOLEAN /\ base = -1
        BY DEF Init
      <3>2. ~(base > -1)
        BY <3>1
      <3> QED
        BY <3>1, <3>2
    <2>2. 1 \in 1 .. MaxWalks
      BY MaxWalksAssumption
    <2>3. Len(calls) = 0
      BY DEF Init, WalkInit
    <2> QED
      BY <2>1, <2>2, <2>3 DEF Init, WalkInit, Margin, Exception
  <1>3. Lines /\ Printed
    BY DEF Init, WalkInit, Lines, Deeper, OutlineReadsBack, Printed, PrintsOrThrows, Undefined
  <1> QED
    BY <1>1, <1>2, <1>3 DEF PrinterInv

-----------------------------------------------------------------------------
(* The theorems                                                            *)

THEOREM PrinterInvariant == Safety => []PrinterInv
  BY PrinterInit, PrinterStep, PTL DEF Safety

(***************************************************************************)
(* The printer's state has its types; indent_ never falls below -1.        *)
(***************************************************************************)
THEOREM PrinterTypeCorrect == Safety => []TypeOK
  <1>1. PrinterInv => TypeOK
    BY DEF PrinterInv, WalkInv, Margin, Lines, TypeOK
  <1> QED
    BY <1>1, PrinterInvariant, PTL

(***************************************************************************)
(* Whatever is printed, and after whatever failures, is an outline from    *)
(* which the tree can be read.                                             *)
(***************************************************************************)
THEOREM OutlineCorrect == Safety => []OutlineReadsBack
  <1>1. PrinterInv => OutlineReadsBack
    BY DEF PrinterInv, Lines
  <1> QED
    BY <1>1, PrinterInvariant, PTL

(***************************************************************************)
(* Walks that succeed give back the indentation they took, walks that      *)
(* throw keep some of it, and nothing else moves the left margin.          *)
(***************************************************************************)
THEOREM IndentationCorrect == Safety => []IndentRestored
  <1>1. PrinterInv => IndentRestored
    BY DEF PrinterInv, Margin, IndentRestored
  <1> QED
    BY <1>1, PrinterInvariant, PTL

(***************************************************************************)
(* Printing succeeds exactly for printable trees.                          *)
(***************************************************************************)
THEOREM PrintingErrorsCorrect == Safety => []PrintsOrThrows
  <1>1. PrinterInv => PrintsOrThrows
    BY DEF PrinterInv, Printed
  <1> QED
    BY <1>1, PrinterInvariant, PTL

=============================================================================
