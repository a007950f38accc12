-------------------------- MODULE TreeWalkerProofs --------------------------
(***************************************************************************)
(* Proofs about the walker, for every set of Modules: its type invariant,  *)
(* the invariant that ties the call stack to the numbering of the tree,    *)
(* that the walk implements DocumentOrder, and that it is bounded.         *)
(***************************************************************************)
EXTENDS TreeWalker, SequenceTheorems, TLAPS

-----------------------------------------------------------------------------
(* The tree                                                                *)

(***************************************************************************)
(* A node's fields have the types AST.hpp gives them.                      *)
(***************************************************************************)
LEMMA NodeType ==
    ASSUME NEW a, IsTree(a), NEW n \in DOMAIN a
    PROVE  /\ n \in Nat /\ n >= 1 /\ n <= Len(a) /\ Len(a) \in Nat
           /\ a[n].last \in Nat /\ n <= a[n].last /\ a[n].last <= Len(a)
           /\ a[n].kids \in Seq(Nat) /\ Len(a[n].kids) \in Nat
           /\ DOMAIN a[n].kids = 1 .. Len(a[n].kids)
           /\ \A i \in 1 .. Len(a[n].kids) : a[n].kids[i] \in Nat
           /\ a[n].kind \in NodeKind
  <1>1. a \in Seq(Node) /\ Numbered(a, n)
    BY DEF IsTree
  <1>2. a[n] \in Node /\ n \in 1 .. Len(a) /\ Len(a) \in Nat
    BY <1>1
  <1>3. a[n].last \in Nat /\ a[n].kids \in Seq(Nat) /\ a[n].kind \in NodeKind
    BY <1>2 DEF Node
  <1> QED
    BY <1>1, <1>2, <1>3 DEF Numbered

(***************************************************************************)
(* A child comes behind its parent and ends no later.                      *)
(***************************************************************************)
LEMMA ChildInside ==
    ASSUME NEW a, IsTree(a), NEW n \in DOMAIN a,
           NEW i \in 1 .. Len(a[n].kids), a[n].kids[i] # Null
    PROVE  /\ a[n].kids[i] \in DOMAIN a
           /\ n < a[n].kids[i]
           /\ a[a[n].kids[i]].last <= a[n].last
  <1>1. Numbered(a, n) /\ a \in Seq(Node)
    BY DEF IsTree
  <1>2. i \in DOMAIN a[n].kids /\ a[n].kids[i] \in Nat /\ n \in Nat
    BY NodeType
  <1>3. n < a[n].kids[i] /\ a[n].kids[i] <= Len(a)
        /\ a[a[n].kids[i]].last <= a[n].last
    BY <1>1, <1>2 DEF Numbered
  <1>4. a[n].kids[i] \in 1 .. Len(a)
    BY <1>2, <1>3, NodeType
  <1> QED
    BY <1>1, <1>3, <1>4

(***************************************************************************)
(* The next child is numbered right behind what is covered so far.         *)
(***************************************************************************)
LEMMA ChildNumber ==
    ASSUME NEW a, IsTree(a), NEW n \in DOMAIN a,
           NEW i \in 1 .. Len(a[n].kids), a[n].kids[i] # Null,
           NEW c, IsLastCovered(a, n, i, c)
    PROVE  a[n].kids[i] = c + 1
  <1>1. Numbered(a, n) /\ c \in Covered(a, n, i)
    BY DEF IsTree, IsLastCovered
  <1> QED
    BY <1>1, NodeType DEF Numbered

(***************************************************************************)
(* A node ends where its last child does.                                  *)
(***************************************************************************)
LEMMA LastNumber ==
    ASSUME NEW a, IsTree(a), NEW n \in DOMAIN a,
           NEW c, IsLastCovered(a, n, Len(a[n].kids) + 1, c)
    PROVE  a[n].last = c
  BY DEF IsTree, IsLastCovered, Numbered

(***************************************************************************)
(* What is covered before the children are looked at, and by one more.     *)
(***************************************************************************)
LEMMA CoveredFirst ==
    ASSUME NEW a, IsTree(a), NEW n \in DOMAIN a
    PROVE  IsLastCovered(a, n, 1, n)
  <1>1. Covered(a, n, 1) = {n}
    BY NodeType DEF Covered
  <1> QED
    BY <1>1, NodeType DEF IsLastCovered

LEMMA CoveredStep ==
    ASSUME NEW a, IsTree(a), NEW n \in DOMAIN a, NEW i \in 1 .. Len(a[n].kids)
    PROVE  /\ a[n].kids[i] = Null => Covered(a, n, i + 1) = Covered(a, n, i)
           /\ a[n].kids[i] # Null =>
                 Covered(a, n, i + 1) = Covered(a, n, i) \cup {a[a[n].kids[i]].last}
  <1>1. DOMAIN a[n].kids = 1 .. Len(a[n].kids) /\ Len(a[n].kids) \in Nat
    BY NodeType
  <1> DEFINE J(k) == {j \in DOMAIN a[n].kids : j < k /\ a[n].kids[j] # Null}
  <1>2. /\ a[n].kids[i] = Null => J(i + 1) = J(i)
        /\ a[n].kids[i] # Null => J(i + 1) = J(i) \cup {i}
    BY <1>1
  <1>3. \A k : Covered(a, n, k) = {n} \cup {a[a[n].kids[j]].last : j \in J(k)}
    BY DEF Covered
  <1>4. ASSUME a[n].kids[i] # Null
        PROVE  Covered(a, n, i + 1) = Covered(a, n, i) \cup {a[a[n].kids[i]].last}
    <2> HIDE DEF J
    <2>1. {a[a[n].kids[j]].last : j \in J(i) \cup {i}}
            = {a[a[n].kids[j]].last : j \in J(i)} \cup {a[a[n].kids[i]].last}
      OBVIOUS
    <2> QED
      BY <1>2, <1>3, <1>4, <2>1
  <1>5. ASSUME a[n].kids[i] = Null
        PROVE  Covered(a, n, i + 1) = Covered(a, n, i)
    <2> HIDE DEF J
    <2> QED
      BY <1>2, <1>3, <1>5
  <1> QED
    BY <1>4, <1>5

(***************************************************************************)
(* A null child covers nothing; any other covers up to its last.           *)
(***************************************************************************)
LEMMA CoveredNull ==
    ASSUME NEW a, IsTree(a), NEW n \in DOMAIN a, NEW i \in 1 .. Len(a[n].kids),
           NEW c, IsLastCovered(a, n, i, c), a[n].kids[i] = Null
    PROVE  IsLastCovered(a, n, i + 1, c)
  BY CoveredStep DEF IsLastCovered

LEMMA CoveredChild ==
    ASSUME NEW a, IsTree(a), NEW n \in DOMAIN a, NEW i \in 1 .. Len(a[n].kids),
           NEW c, IsLastCovered(a, n, i, c), a[n].kids[i] # Null
    PROVE  IsLastCovered(a, n, i + 1, a[a[n].kids[i]].last)
  <1> DEFINE k == a[n].kids[i]
  <1>1. k = c + 1 /\ k \in DOMAIN a
    BY ChildNumber, ChildInside
  <1>2. k <= a[k].last /\ a[k].last \in Nat /\ k \in Nat
    BY <1>1, NodeType
  <1>3. \A d \in Covered(a, n, i) : d \in Nat
    <2>1. \A j \in DOMAIN a[n].kids :
             a[n].kids[j] # Null => a[a[n].kids[j]].last \in Nat
      BY ChildInside, NodeType
    <2> QED
      BY <2>1, NodeType DEF Covered
  <1>4. Covered(a, n, i + 1) = Covered(a, n, i) \cup {a[k].last}
    BY CoveredStep
  <1>5. c \in Nat /\ \A d \in Covered(a, n, i) : d <= c
    BY <1>3 DEF IsLastCovered
  <1>6. \A d \in Covered(a, n, i) : d <= a[k].last
    BY <1>1, <1>2, <1>3, <1>5
  <1> QED
    BY <1>2, <1>4, <1>6 DEF IsLastCovered

(***************************************************************************)
(* All that is covered before a child is numbered before it.               *)
(***************************************************************************)
LEMMA CoveredBefore ==
    ASSUME NEW a, IsTree(a), NEW n \in DOMAIN a, NEW i \in 1 .. Len(a[n].kids),
           a[n].kids[i] # Null
    PROVE  \A d \in Covered(a, n, i) : d < a[n].kids[i]
  BY NodeType DEF IsTree, Numbered

-----------------------------------------------------------------------------
(* The call stack                                                          *)

LEMMA Prefix ==
    ASSUME NEW S, NEW s \in Seq(S), NEW k \in Nat, k <= Len(s)
    PROVE  /\ SubSeq(s, 1, k) \in Seq(S)
           /\ Len(SubSeq(s, 1, k)) = k
           /\ \A i \in 1 .. k : SubSeq(s, 1, k)[i] = s[i]
  BY SMT

LEMMA ReturnedFrames ==
    ASSUME NEW cs \in Seq(Frame)
    PROVE  /\ Returned(cs) \in Seq(Frame)
           /\ Len(Returned(cs)) = Len(cs)
           /\ \A i \in 1 .. Len(cs) :
                 /\ Returned(cs)[i].node = cs[i].node
                 /\ Returned(cs)[i].next = IF i = Len(cs) THEN cs[i].next + 1
                                                          ELSE cs[i].next
  <1>1. CASE cs = <<>>
    BY <1>1 DEF Returned
  <1>2. CASE cs # <<>>
    <2> DEFINE f == [node |-> cs[Len(cs)].node, next |-> cs[Len(cs)].next + 1]
    <2>1. Len(cs) \in 1 .. Len(cs) /\ Len(cs) \in Nat
      BY <1>2
    <2>0. cs[Len(cs)] \in Frame
      BY <2>1
    <2>2. f \in Frame /\ f.node = cs[Len(cs)].node /\ f.next = cs[Len(cs)].next + 1
      BY <2>0 DEF Frame
    <2>3. [cs[Len(cs)] EXCEPT !.next = cs[Len(cs)].next + 1] = f
      BY <2>0 DEF Frame
    <2>30. Returned(cs) = [cs EXCEPT ![Len(cs)] = f]
      BY <1>2, <2>3 DEF Returned
    <2> HIDE DEF f
    <2>4. /\ Returned(cs) \in Seq(Frame)
          /\ Len(Returned(cs)) = Len(cs)
          /\ \A i \in 1 .. Len(cs) : Returned(cs)[i] = IF i = Len(cs) THEN f ELSE cs[i]
      BY <2>1, <2>2, <2>30, ExceptSeq
    <2> QED
      BY <2>2, <2>4
  <1> QED
    BY <1>1, <1>2

LEMMA ReturnedNodes ==
    ASSUME NEW cs \in Seq(Frame)
    PROVE  /\ DOMAIN Returned(cs) = DOMAIN cs
           /\ \A i \in DOMAIN cs : Returned(cs)[i].node = cs[i].node
  <1>1. Returned(cs) \in Seq(Frame) /\ Len(Returned(cs)) = Len(cs)
    BY ReturnedFrames
  <1>2. DOMAIN cs = 1 .. Len(cs) /\ DOMAIN Returned(cs) = 1 .. Len(Returned(cs))
    BY <1>1
  <1> QED
    BY <1>1, <1>2, ReturnedFrames

LEMMA PoppedFrames ==
    ASSUME NEW cs \in Seq(Frame), cs # <<>>
    PROVE  /\ SubSeq(cs, 1, Len(cs) - 1) \in Seq(Frame)
           /\ Len(SubSeq(cs, 1, Len(cs) - 1)) = Len(cs) - 1
           /\ \A i \in 1 .. Len(cs) - 1 : SubSeq(cs, 1, Len(cs) - 1)[i] = cs[i]
  <1>1. Len(cs) - 1 \in Nat /\ Len(cs) - 1 <= Len(cs)
    BY EmptySeq
  <1> QED
    BY <1>1, Prefix

(***************************************************************************)
(* The members of the walker keep their types in every step.               *)
(***************************************************************************)
LEMMA WalkTypeStep ==
    WalkTypeOK /\ [WalkNext]_walkerVars => WalkTypeOK'
  <1> SUFFICES ASSUME WalkTypeOK, [WalkNext]_walkerVars
               PROVE  WalkTypeOK'
    OBVIOUS
  <1> USE DEF WalkTypeOK
  <1>0. <<>> \in Seq(Frame)
    OBVIOUS
  <1>1. Returned(calls) \in Seq(Frame)
    BY ReturnedFrames
  <1>2. DOMAIN ast \subseteq Nat \ {0}
    BY NodeType
  <1>3. ASSUME NEW n \in DOMAIN ast, Enter(n)
        PROVE  WalkTypeOK'
    <2>1. [node |-> n, next |-> 1] \in Frame
      BY <1>2 DEF Frame, Null
    <2> QED
      BY <1>2, <1>3, <2>1 DEF Enter
  <1>4. ASSUME NEW n \in DOMAIN ast, VisitLeaf(n)
        PROVE  WalkTypeOK'
    BY <1>1, <1>2, <1>4 DEF VisitLeaf
  <1>5. ASSUME NEW n \in DOMAIN ast, Leave(n)
        PROVE  WalkTypeOK'
    <2>1. SubSeq(calls, 1, Len(calls) - 1) \in Seq(Frame)
      BY <1>5, PoppedFrames DEF Leave, Leaving
    <2>2. calls' \in Seq(Frame)
      BY <1>5, <2>1, ReturnedFrames DEF Leave
    <2> QED
      BY <1>5, <2>2 DEF Leave
  <1>6. ASSUME NEW n \in DOMAIN ast, NEW e \in Failure,
               FailEntering(n, e) \/ FailLeaving(n, e)
        PROVE  WalkTypeOK'
    <2>1. ast' = ast /\ calls' = <<>> /\ outcome' = e
      BY <1>6 DEF FailEntering, FailLeaving, Fail
    <2>2. trace' = trace \/ trace' = Append(trace, n)
      BY <1>6 DEF FailEntering, FailLeaving
    <2>3. trace' \in Seq(Nat)
      BY <1>2, <2>2, SMTT(30)
    <2> QED
      BY <1>0, <2>1, <2>3
  <1>7. CASE SkipBranch
    BY <1>1, <1>7 DEF SkipBranch
  <1>8. CASE NullChild \/ UnhandledKind
    BY <1>0, <1>8 DEF NullChild, UnhandledKind, Fail, Failure, Exception
  <1>9. CASE CleanUp
    BY <1>9 DEF CleanUp
  <1>10. CASE UNCHANGED walkerVars
    BY <1>10 DEF walkerVars
  <1>11. ASSUME NEW e \in Failure, FailOutside(e)
         PROVE  WalkTypeOK'
    BY <1>0, <1>11 DEF FailOutside, Fail
  <1> QED
    BY <1>3, <1>4, <1>5, <1>6, <1>7, <1>8, <1>9, <1>10, <1>11 DEF WalkNext

(***************************************************************************)
(* The walker's state always has its types, and ast stays a tree.          *)
(***************************************************************************)
THEOREM WalkTypeCorrect == WalkSafety => []WalkTypeOK
  <1>1. WalkInit => WalkTypeOK
    BY ProgramsAssumption DEF WalkInit, WalkTypeOK
  <1> QED
    BY <1>1, WalkTypeStep, PTL DEF WalkSafety

-----------------------------------------------------------------------------
(* The walk follows the document                                           *)

(***************************************************************************)
(* The node a call of walk() is given is the next one of the document, and *)
(* lies inside everything that is open.                                    *)
(***************************************************************************)
LEMMA NextNode ==
    ASSUME WalkTypeOK, InDocument, Calling, Argument # Null
    PROVE  /\ Argument \in DOMAIN ast
           /\ Argument = Len(trace) + 1
           /\ Argument <= Len(ast)
           /\ \A i \in DOMAIN calls : /\ calls[i].node < Argument
                                      /\ ast[Argument].last <= ast[calls[i].node].last
  <1> USE DEF WalkTypeOK
  <1>1. CASE calls = <<>>
    <2>1. trace = <<>> /\ Argument = 1
      BY <1>1 DEF Calling, Argument, Root
    <2>2. ast # <<>> /\ ast \in Seq(Node)
      BY DEF IsTree
    <2>3. 1 \in DOMAIN ast /\ 1 <= Len(ast)
      BY <2>2
    <2> QED
      BY <1>1, <2>1, <2>3
  <1>2. CASE calls # <<>>
    <2> DEFINE L == Len(calls)
               p == calls[L]
    <2>1. L \in DOMAIN calls /\ L \in Nat /\ p \in Frame
      BY <1>2
    <2>2. p.node \in DOMAIN ast /\ p.next \in 1 .. Len(ast[p.node].kids)
      <3>1. p.node \in DOMAIN ast /\ p.next \in 1 .. (Len(ast[p.node].kids) + 1)
        BY <2>1 DEF InDocument, OnPath
      <3>2. p.next <= Len(ast[p.node].kids)
        BY <1>2 DEF Calling, Top
      <3> QED
        BY <3>1, <3>2, NodeType
    <2>3. Argument = ast[p.node].kids[p.next]
      BY <1>2 DEF Argument, Top
    <2>4. IsLastCovered(ast, p.node, p.next, Len(trace))
      BY <2>1 DEF InDocument, Reached
    <2>5. Argument = Len(trace) + 1
      BY <2>2, <2>3, <2>4, ChildNumber
    <2>6. /\ Argument \in DOMAIN ast
          /\ p.node < Argument
          /\ ast[Argument].last <= ast[p.node].last
      BY <2>2, <2>3, ChildInside
    <2>7. Argument <= Len(ast)
      BY <2>6, NodeType
    <2>8. ASSUME NEW i \in DOMAIN calls
          PROVE  /\ calls[i].node < Argument
                 /\ ast[Argument].last <= ast[calls[i].node].last
      <3>1. CASE i = L
        BY <2>6, <3>1
      <3>2. CASE i # L
        <4>1. calls[i].node < p.node /\ ast[p.node].last <= ast[calls[i].node].last
          BY <2>1, <2>8, <3>2 DEF InDocument, Nested
        <4>2. calls[i].node \in DOMAIN ast
          BY <2>8 DEF InDocument, OnPath
        <4> HIDE DEF p
        <4>3. /\ calls[i].node \in Nat /\ ast[calls[i].node].last \in Nat
              /\ p.node \in Nat /\ ast[p.node].last \in Nat
              /\ Argument \in Nat /\ ast[Argument].last \in Nat
          BY <2>2, <2>6, <4>2, NodeType
        <4> QED
          BY <2>6, <4>1, <4>3
      <3> QED
        BY <3>1, <3>2
    <2> QED
      BY <2>5, <2>6, <2>7, <2>8
  <1> QED
    BY <1>1, <1>2

(***************************************************************************)
(* The nodes visited so far are the first Len(trace), and one more.        *)
(***************************************************************************)
LEMMA TraceGrows ==
    ASSUME NEW t \in Seq(Nat), t = [i \in 1 .. Len(t) |-> i]
    PROVE  LET u == Append(t, Len(t) + 1) IN
           u = [i \in 1 .. Len(u) |-> i] /\ Len(u) = Len(t) + 1
  OBVIOUS

(***************************************************************************)
(* A new activation keeps the call stack in the document.                  *)
(***************************************************************************)
LEMMA EnterInDocument ==
    ASSUME WalkTypeOK, InDocument, NEW n \in DOMAIN ast, Enter(n)
    PROVE  InDocument'
  <1> DEFINE L == Len(calls)
             f == [node |-> n, next |-> 1]
  <1>0. IsTree(ast) /\ calls \in Seq(Frame) /\ trace \in Seq(Nat)
    BY DEF WalkTypeOK
  <1>1. /\ Calling /\ n = Argument /\ n # Null /\ ast' = ast
        /\ calls' = Append(calls, f) /\ trace' = Append(trace, n)
        /\ outcome' = outcome /\ outcome = "walking"
    BY DEF Enter, Calling
  <1>2. /\ n = Len(trace) + 1 /\ n <= Len(ast)
        /\ \A i \in DOMAIN calls : /\ calls[i].node < n
                                   /\ ast[n].last <= ast[calls[i].node].last
    BY <1>1, NextNode
  <1>3. f \in Frame /\ n \in Nat
    BY <1>0, NodeType DEF Frame, Null
  <1>4. /\ Len(calls') = L + 1 /\ L \in Nat
        /\ \A i \in 1 .. L : calls'[i] = calls[i]
        /\ calls'[L + 1] = f
        /\ DOMAIN calls = 1 .. L /\ DOMAIN calls' = 1 .. (L + 1)
    BY <1>0, <1>1, <1>3
  <1>5. f.node = n /\ f.next = 1
    OBVIOUS
  <1> HIDE DEF f
  <1>14. L = Len(calls)
    OBVIOUS
  <1> HIDE DEF L
  <1>6. trace' = [i \in 1 .. Len(trace') |-> i] /\ Len(trace') = Len(trace) + 1
    BY <1>0, <1>1, <1>2, TraceGrows DEF InDocument
  <1>7. L > 0 => /\ calls[L].next <= Len(ast[calls[L].node].kids)
                 /\ ast[calls[L].node].kids[calls[L].next] = n
    <2>1. L > 0 => calls # <<>>
      BY <1>14
    <2>2. Top = calls[L]
      BY <1>14 DEF Top
    <2> QED
      BY <1>1, <2>1, <2>2 DEF Calling, Argument
  <1>8. calls'[1].node = Root
    <2>1. CASE L = 0
      BY <1>1, <1>4, <1>5, <1>14, <2>1 DEF Argument
    <2>2. CASE L # 0
      BY <1>4, <1>14, <2>2 DEF InDocument
    <2> QED
      BY <2>1, <2>2
  <1>9. ASSUME NEW i \in 1 .. (L + 1)
        PROVE  OnPath(i)' /\ Reached(i)'
    <2>1. CASE i < L
      <3>1. OnPath(i) /\ Reached(i)
        BY <1>4, <1>9, <2>1 DEF InDocument
      <3>2. /\ calls'[i] = calls[i] /\ calls'[i + 1] = calls[i + 1]
            /\ i < Len(calls) /\ i < Len(calls')
        BY <1>4, <1>9, <1>14, <2>1
      <3> QED
        BY <1>1, <3>1, <3>2 DEF OnPath, Reached
    <2>2. CASE i = L
      <3>1. i \in DOMAIN calls /\ i < Len(calls')
        BY <1>4, <1>9, <2>2
      <3>2. OnPath(i) /\ Reached(i)
        BY <3>1 DEF InDocument
      <3>3. calls'[i] = calls[i] /\ calls'[i + 1].node = n
        BY <1>4, <1>5, <2>2, <3>1
      <3>4. n - 1 = Len(trace)
        BY <1>2
      <3>5. OnPath(i)'
        BY <1>1, <1>7, <1>14, <2>2, <3>1, <3>2, <3>3 DEF OnPath
      <3>6. Reached(i)'
        BY <1>1, <1>14, <2>2, <3>1, <3>2, <3>3, <3>4 DEF Reached
      <3> QED
        BY <3>5, <3>6
    <2>3. CASE i = L + 1
      <3>1. calls'[i] = f /\ i = Len(calls')
        BY <1>4, <2>3
      <3>2. 1 \in 1 .. (Len(ast[n].kids) + 1)
        BY <1>0, NodeType
      <3>3. IsLastCovered(ast, n, 1, n) /\ Len(trace') = n
        BY <1>0, <1>2, <1>3, <1>6, CoveredFirst
      <3> QED
        BY <1>1, <1>5, <3>1, <3>2, <3>3 DEF OnPath, Reached
    <2>4. i < L \/ i = L \/ i = L + 1
      BY <1>4, <1>9
    <2> QED
      BY <2>1, <2>2, <2>3, <2>4
  <1>10. \A i, j \in 1 .. (L + 1) : i < j => Nested(i, j)'
    <2>1. ASSUME NEW i \in 1 .. (L + 1), NEW j \in 1 .. (L + 1), i < j
          PROVE  Nested(i, j)'
      <3>1. i \in 1 .. L /\ (j \in 1 .. L \/ j = L + 1)
        BY <1>4, <2>1
      <3>2. CASE j \in 1 .. L
        <4>1. Nested(i, j)
          BY <1>4, <2>1, <3>1, <3>2 DEF InDocument
        <4> QED
          BY <1>1, <1>4, <3>1, <3>2, <4>1 DEF Nested
      <3>3. CASE j = L + 1
        BY <1>1, <1>2, <1>4, <1>5, <3>1, <3>3 DEF Nested
      <3> QED
        BY <3>1, <3>2, <3>3
    <2> QED
      BY <2>1
  <1>11. /\ trace' = [i \in 1 .. Len(trace') |-> i] /\ Len(trace') <= Len(ast')
         /\ calls' # <<>> /\ outcome' = "walking"
    <2>1. calls' # <<>>
      BY <1>4
    <2> QED
      BY <1>1, <1>2, <1>6, <2>1
  <1>12. \A i \in DOMAIN calls' : OnPath(i)' /\ Reached(i)'
    BY <1>4, <1>9
  <1>13. \A i, j \in DOMAIN calls' : i < j => Nested(i, j)'
    BY <1>4, <1>10
  <1> QED
    BY <1>8, <1>11, <1>12, <1>13 DEF InDocument

(***************************************************************************)
(* So does returning to one: cs is what is left of the call stack, and the *)
(* innermost activation of cs goes on behind a child that is null, a leaf, *)
(* or walked to its end.                                                   *)
(***************************************************************************)
LEMMA AdvanceInDocument ==
    ASSUME WalkTypeOK, InDocument, WalkTypeOK',
           outcome = "walking", outcome' = outcome, ast' = ast,
           NEW cs \in Seq(Frame), Len(cs) <= Len(calls),
           \A i \in 1 .. Len(cs) : cs[i] = calls[i],
           calls' = Returned(cs),
           trace' = [i \in 1 .. Len(trace') |-> i], Len(trace') <= Len(ast),
           Len(cs) = 0 => Len(trace') = Len(ast),
           Len(cs) > 0 =>
              LET p == calls[Len(cs)] IN
              /\ p.next <= Len(ast[p.node].kids)
              /\ IsLastCovered(ast, p.node, p.next + 1, Len(trace'))
    PROVE  InDocument'
  <1> DEFINE L == Len(cs)
  <1>1. IsTree(ast) /\ calls \in Seq(Frame)
    BY DEF WalkTypeOK
  <1>2. /\ L \in Nat /\ DOMAIN calls' = 1 .. L /\ Len(calls') = L
        /\ \A i \in 1 .. L : i \in DOMAIN calls
        /\ calls' = <<>> => L = 0
    BY <1>1, ReturnedFrames
  <1>3. \A i \in 1 .. L : /\ calls'[i].node = calls[i].node
                          /\ i < L => calls'[i].next = calls[i].next
                          /\ i = L => calls'[i].next = calls[i].next + 1
    BY ReturnedFrames
  <1>4. L > 0 => /\ calls[L].next <= Len(ast[calls[L].node].kids)
                 /\ IsLastCovered(ast, calls[L].node, calls[L].next + 1, Len(trace'))
                 /\ calls[L].next \in Nat
    <2>1. L > 0 => calls[L] \in Frame
      BY <1>1, <1>2
    <2> QED
      BY <2>1 DEF Frame
  <1>5. L <= Len(calls) /\ Len(calls) \in Nat
    BY <1>1
  <1>6. L = 0 => Len(trace') = Len(ast)
    OBVIOUS
  <1> HIDE DEF L
  <1>7. ASSUME NEW i \in 1 .. L
        PROVE  OnPath(i)' /\ Reached(i)'
    <2>1. i \in DOMAIN calls /\ OnPath(i) /\ Reached(i)
      BY <1>2 DEF InDocument
    <2>2. calls[i].next \in Nat /\ Len(ast[calls[i].node].kids) \in Nat
      BY <1>1, <2>1, NodeType DEF OnPath
    <2>3. CASE i < L
      <3>1. /\ i + 1 \in 1 .. L /\ i < Len(calls) /\ i < Len(calls') /\ i # Len(calls')
        BY <1>2, <1>5, <2>3
      <3>2. /\ calls'[i].node = calls[i].node /\ calls'[i].next = calls[i].next
            /\ calls'[i + 1].node = calls[i + 1].node
        BY <1>3, <2>3, <3>1
      <3> QED
        BY <2>1, <3>1, <3>2 DEF OnPath, Reached
    <2>4. CASE i = L
      <3>1. /\ L > 0 /\ i = Len(calls') /\ ~(i < Len(calls'))
        BY <1>2, <2>4
      <3>2. calls'[i].node = calls[i].node /\ calls'[i].next = calls[i].next + 1
        BY <1>3, <2>4
      <3>3. calls[i].next + 1 \in 1 .. (Len(ast[calls[i].node].kids) + 1)
        <4> DEFINE next == calls[i].next
                   size == Len(ast[calls[i].node].kids)
        <4>1. next <= size
          BY <1>4, <2>4, <3>1
        <4>2. next \in Nat /\ size \in Nat
          BY <2>2
        <4> HIDE DEF next, size
        <4>3. next + 1 \in 1 .. (size + 1)
          BY <4>1, <4>2
        <4> QED
          BY <4>3 DEF next, size
      <3>4. OnPath(i)'
        BY <2>1, <3>1, <3>2, <3>3 DEF OnPath
      <3>5. Reached(i)'
        BY <1>4, <2>4, <3>1, <3>2 DEF Reached
      <3> QED
        BY <3>4, <3>5
    <2>5. i < L \/ i = L
      BY <1>2
    <2> QED
      BY <2>3, <2>4, <2>5
  <1>8. ASSUME NEW i \in 1 .. L, NEW j \in 1 .. L, i < j
        PROVE  Nested(i, j)'
    <2>1. Nested(i, j)
      BY <1>2, <1>8 DEF InDocument
    <2> QED
      BY <1>3, <2>1 DEF Nested
  <1>9. calls' # <<>> => calls'[1].node = Root
    <2>1. ASSUME calls' # <<>>
          PROVE  calls'[1].node = Root
      <3>1. 1 \in 1 .. L /\ calls # <<>>
        <4>1. Len(calls') # 0
          BY <2>1, ReturnedFrames, EmptySeq
        <4> QED
          BY <1>2, <1>5, <4>1
      <3> QED
        BY <1>3, <3>1 DEF InDocument
    <2> QED
      BY <2>1
  <1>10. \A i \in DOMAIN calls' : OnPath(i)' /\ Reached(i)'
    BY <1>2, <1>7
  <1>11. \A i, j \in DOMAIN calls' : i < j => Nested(i, j)'
    BY <1>2, <1>8
  <1>12. /\ outcome' = "walking" /\ Len(trace') <= Len(ast')
         /\ calls' = <<>> => Len(trace') = Len(ast')
    BY <1>2, <1>6
  <1> QED
    BY <1>9, <1>10, <1>11, <1>12 DEF InDocument

(***************************************************************************)
(* The innermost activation, when its turn has come to walk a child.       *)
(***************************************************************************)
LEMMA TopFrame ==
    ASSUME WalkTypeOK, InDocument, calls # <<>>
    PROVE  /\ Len(calls) \in DOMAIN calls /\ Len(calls) \in Nat /\ Len(calls) > 0
           /\ Top.node \in DOMAIN ast
           /\ Top.next \in 1 .. (Len(ast[Top.node].kids) + 1)
           /\ Top.next \in Nat /\ Len(ast[Top.node].kids) \in Nat
           /\ IsLastCovered(ast, Top.node, Top.next, Len(trace))
  <1>1. Len(calls) \in DOMAIN calls /\ Len(calls) \in Nat /\ Len(calls) > 0
    BY EmptySeq DEF WalkTypeOK
  <1>2. OnPath(Len(calls)) /\ Reached(Len(calls))
    BY <1>1 DEF InDocument
  <1>3. /\ Top.node \in DOMAIN ast
        /\ Top.next \in 1 .. (Len(ast[Top.node].kids) + 1)
    BY <1>2 DEF OnPath, Top
  <1>4. IsLastCovered(ast, Top.node, Top.next, Len(trace))
    BY <1>2 DEF Reached, Top
  <1>5. Len(ast[Top.node].kids) \in Nat
    BY <1>3, NodeType DEF WalkTypeOK
  <1> QED
    BY <1>1, <1>3, <1>4, <1>5

LEMMA VisitLeafInDocument ==
    ASSUME WalkTypeOK, InDocument, WalkTypeOK', NEW n \in DOMAIN ast, VisitLeaf(n)
    PROVE  InDocument' /\ ast[n].last = n
  <1>1. /\ Calling /\ n = Argument /\ n # Null /\ ast[n].kind \in LeafKind
        /\ calls' = Returned(calls) /\ trace' = Append(trace, n)
        /\ ast' = ast /\ outcome' = outcome /\ outcome = "walking"
    BY DEF VisitLeaf, Calling
  <1>2. IsTree(ast) /\ calls \in Seq(Frame) /\ trace \in Seq(Nat)
    BY DEF WalkTypeOK
  <1>3. n = Len(trace) + 1 /\ n <= Len(ast)
    BY <1>1, NextNode
  <1>4. trace' = [i \in 1 .. Len(trace') |-> i] /\ Len(trace') = n
    BY <1>1, <1>2, <1>3, TraceGrows DEF InDocument
  <1>5. ast[n].last = n
    <2>1. Members(ast, n)
      BY <1>2 DEF IsTree
    <2>2. Len(ast[n].kids) = 0
      BY <1>1, <2>1 DEF Members
    <2> QED
      BY <1>2, <2>2, CoveredFirst, LastNumber
  <1>6. calls # <<>>
    <2>1. n # Root
      BY <1>1, <1>2 DEF IsTree, Members, LeafKind
    <2> QED
      BY <1>1, <2>1 DEF Argument
  <1>7. /\ Len(calls) > 0
        /\ Top.next <= Len(ast[Top.node].kids)
        /\ IsLastCovered(ast, Top.node, Top.next + 1, n)
    <2>1. Top.next <= Len(ast[Top.node].kids) /\ ast[Top.node].kids[Top.next] = n
      BY <1>1, <1>6 DEF Calling, Argument
    <2>2. Top.next \in 1 .. Len(ast[Top.node].kids)
      BY <1>6, <2>1, TopFrame
    <2> QED
      BY <1>1, <1>2, <1>5, <1>6, <2>1, <2>2, TopFrame, CoveredChild
  <1>8. /\ Len(calls) <= Len(calls) /\ Len(calls) # 0
    BY <1>6, TopFrame
  <1> QED
    BY <1>1, <1>2, <1>3, <1>4, <1>5, <1>7, <1>8, AdvanceInDocument DEF Top

LEMMA SkipBranchInDocument ==
    ASSUME WalkTypeOK, InDocument, WalkTypeOK', SkipBranch
    PROVE  InDocument'
  <1>1. /\ Calling /\ calls # <<>> /\ Argument = Null
        /\ calls' = Returned(calls) /\ trace' = trace
        /\ ast' = ast /\ outcome' = outcome /\ outcome = "walking"
    BY DEF SkipBranch, NullBranch, Calling
  <1>2. IsTree(ast) /\ calls \in Seq(Frame)
    BY DEF WalkTypeOK
  <1>3. /\ Len(calls) > 0 /\ Len(calls) <= Len(calls) /\ Len(calls) # 0
        /\ Top.next <= Len(ast[Top.node].kids)
        /\ IsLastCovered(ast, Top.node, Top.next + 1, Len(trace))
    <2>1. Top.next <= Len(ast[Top.node].kids) /\ ast[Top.node].kids[Top.next] = Null
      BY <1>1 DEF Calling, Argument
    <2>2. Top.next \in 1 .. Len(ast[Top.node].kids)
      BY <1>1, <2>1, TopFrame
    <2> QED
      BY <1>1, <1>2, <2>1, <2>2, TopFrame, CoveredNull
  <1>4. trace' = [i \in 1 .. Len(trace') |-> i] /\ Len(trace') <= Len(ast)
    BY <1>1 DEF InDocument
  <1> QED
    BY <1>1, <1>2, <1>3, <1>4, AdvanceInDocument DEF Top

LEMMA LeaveInDocument ==
    ASSUME WalkTypeOK, InDocument, WalkTypeOK', NEW n \in DOMAIN ast, Leave(n)
    PROVE  InDocument' /\ ast[n].last = Len(trace)
  <1> DEFINE L  == Len(calls)
             cs == SubSeq(calls, 1, L - 1)
  <1>1. /\ calls # <<>> /\ n = Top.node /\ Top.next > Len(ast[n].kids)
        /\ calls' = Returned(cs) /\ trace' = trace
        /\ ast' = ast /\ outcome' = outcome /\ outcome = "walking"
    BY DEF Leave, Leaving
  <1>2. IsTree(ast) /\ calls \in Seq(Frame)
    BY DEF WalkTypeOK
  <1>3. ast[n].last = Len(trace)
    <2>1. Top.next = Len(ast[n].kids) + 1
      BY <1>1, TopFrame
    <2> QED
      BY <1>1, <1>2, <2>1, TopFrame, LastNumber
  <1>4. /\ cs \in Seq(Frame) /\ Len(cs) = L - 1 /\ L \in Nat /\ L > 0
        /\ \A i \in 1 .. Len(cs) : cs[i] = calls[i]
    BY <1>1, <1>2, PoppedFrames, TopFrame
  <1>5. n = calls[L].node
    BY <1>1 DEF Top
  <1> HIDE DEF cs
  <1>6. L - 1 = 0 => Len(trace) = Len(ast)
    <2>1. ASSUME L - 1 = 0
          PROVE  Len(trace) = Len(ast)
      <3>1. L = 1
        <4>1. L \in Nat
          BY <1>4
        <4> HIDE DEF L
        <4> QED
          BY <2>1, <4>1
      <3>2. n = Root
        BY <1>1, <1>5, <3>1 DEF InDocument
      <3> QED
        BY <1>2, <1>3, <3>2 DEF IsTree
    <2> QED
      BY <2>1
  <1>7. L - 1 > 0 => LET p == calls[L - 1] IN
                     /\ p.next <= Len(ast[p.node].kids)
                     /\ IsLastCovered(ast, p.node, p.next + 1, Len(trace))
    <2>1. ASSUME L - 1 > 0
          PROVE  LET p == calls[L - 1] IN
                 /\ p.next <= Len(ast[p.node].kids)
                 /\ IsLastCovered(ast, p.node, p.next + 1, Len(trace))
      <3> DEFINE p == calls[L - 1]
      <3>1. /\ L - 1 \in DOMAIN calls /\ L - 1 < L /\ (L - 1) + 1 = L
        BY <1>2, <1>4, <2>1
      <3>2. OnPath(L - 1) /\ Reached(L - 1)
        BY <3>1 DEF InDocument
      <3>3. /\ p.node \in DOMAIN ast
            /\ p.next \in 1 .. (Len(ast[p.node].kids) + 1)
            /\ p.next <= Len(ast[p.node].kids)
            /\ ast[p.node].kids[p.next] = n
            /\ IsLastCovered(ast, p.node, p.next, n - 1)
        BY <1>5, <3>1, <3>2 DEF OnPath, Reached
      <3> HIDE DEF p
      <3>4. p.next \in 1 .. Len(ast[p.node].kids) /\ n # Null
        BY <1>2, <3>3, NodeType DEF Null
      <3>5. IsLastCovered(ast, p.node, p.next + 1, ast[n].last)
        BY <1>2, <3>3, <3>4, CoveredChild
      <3> QED
        BY <1>3, <3>3, <3>5 DEF p
    <2> QED
      BY <2>1
  <1>8. trace' = [i \in 1 .. Len(trace') |-> i] /\ Len(trace') <= Len(ast)
    BY <1>1 DEF InDocument
  <1>9. Len(cs) <= Len(calls)
    BY <1>4
  <1>10. InDocument'
    BY <1>1, <1>4, <1>6, <1>7, <1>8, <1>9, AdvanceInDocument
  <1> QED
    BY <1>3, <1>10

(***************************************************************************)
(* A walk that fails has visited a part of the document, and so has one    *)
(* that is done: the whole of it.                                          *)
(***************************************************************************)
LEMMA FailInDocument ==
    ASSUME WalkTypeOK, InDocument, NEW e \in Failure,
           Fail(e), UNCHANGED trace
    PROVE  InDocument'
  <1>1. /\ calls' = <<>> /\ outcome' = e /\ ast' = ast /\ trace' = trace
        /\ e # "walking" /\ e # "done"
    BY DEF Fail, Failure, Exception, Undefined
  <1>2. DOMAIN calls' = {}
    BY <1>1
  <1> QED
    BY <1>1, <1>2 DEF InDocument

LEMMA FailEnteringInDocument ==
    ASSUME WalkTypeOK, InDocument, NEW n \in DOMAIN ast, NEW e \in Failure,
           FailEntering(n, e)
    PROVE  InDocument'
  <1>1. /\ calls' = <<>> /\ outcome' = e /\ ast' = ast /\ trace' = Append(trace, n)
        /\ Calling /\ n = Argument /\ n # Null
        /\ e # "walking" /\ e # "done"
    BY DEF FailEntering, Fail, Failure, Exception, Undefined
  <1>2. n = Len(trace) + 1 /\ n <= Len(ast)
    BY <1>1, NextNode
  <1>3. trace' = [i \in 1 .. Len(trace') |-> i] /\ Len(trace') = n
    BY <1>1, <1>2, TraceGrows DEF InDocument, WalkTypeOK
  <1>4. DOMAIN calls' = {}
    BY <1>1
  <1> QED
    BY <1>1, <1>2, <1>3, <1>4 DEF InDocument

LEMMA InDocumentStep ==
    WalkTypeOK /\ InDocument /\ [WalkNext]_walkerVars => InDocument'
  <1> SUFFICES ASSUME WalkTypeOK, InDocument, [WalkNext]_walkerVars
               PROVE  InDocument'
    OBVIOUS
  <1>0. WalkTypeOK'
    BY WalkTypeStep
  <1>1. ASSUME NEW n \in DOMAIN ast, Enter(n)
        PROVE  InDocument'
    BY <1>1, EnterInDocument
  <1>2. ASSUME NEW n \in DOMAIN ast, VisitLeaf(n)
        PROVE  InDocument'
    BY <1>0, <1>2, VisitLeafInDocument
  <1>3. ASSUME NEW n \in DOMAIN ast, Leave(n)
        PROVE  InDocument'
    BY <1>0, <1>3, LeaveInDocument
  <1>4. ASSUME NEW n \in DOMAIN ast, NEW e \in Failure, FailEntering(n, e)
        PROVE  InDocument'
    BY <1>4, FailEnteringInDocument
  <1>5. ASSUME NEW n \in DOMAIN ast, NEW e \in Failure, FailLeaving(n, e)
        PROVE  InDocument'
    BY <1>5, FailInDocument DEF FailLeaving
  <1>6. CASE SkipBranch
    BY <1>0, <1>6, SkipBranchInDocument
  <1>7. CASE NullChild
    <2>1. "InvalidArgumentException" \in Failure
      BY DEF Failure, Exception
    <2> QED
      BY <1>7, <2>1, FailInDocument DEF NullChild
  <1>8. CASE UnhandledKind
    <2>1. "UnhandledSwitchCase" \in Failure
      BY DEF Failure, Exception
    <2> QED
      BY <1>8, <2>1, FailInDocument DEF UnhandledKind
  <1>9. CASE CleanUp
    BY <1>9 DEF CleanUp, InDocument, OnPath, Reached, Nested
  <1>10. CASE UNCHANGED walkerVars
    BY <1>10 DEF walkerVars, InDocument, OnPath, Reached, Nested
  <1>11. ASSUME NEW e \in Failure, FailOutside(e)
         PROVE  InDocument'
    BY <1>11, FailInDocument DEF FailOutside
  <1> QED
    BY <1>1, <1>2, <1>3, <1>4, <1>5, <1>6, <1>7, <1>8, <1>9, <1>10, <1>11 DEF WalkNext

(***************************************************************************)
(* The call stack is a path of the tree, and what has been visited is the  *)
(* part of the document the path leads to.                                 *)
(***************************************************************************)
THEOREM WalkStaysInDocument == WalkSafety => []InDocument
  <1>1. WalkInit => InDocument
    BY DEF WalkInit, InDocument
  <1>2. WalkInit => WalkTypeOK
    BY ProgramsAssumption DEF WalkInit, WalkTypeOK
  <1> QED
    BY <1>1, <1>2, WalkTypeStep, InDocumentStep, PTL DEF WalkSafety

-----------------------------------------------------------------------------
(* The walk implements DocumentOrder                                       *)

LEMMA OpenNodes ==
    ASSUME WalkTypeOK, InDocument
    PROVE  /\ \A m \in Open : \E i \in DOMAIN calls : m = calls[i].node
           /\ \A i \in DOMAIN calls : calls[i].node \in Open
  BY DEF Open

LEMMA AnnounceStep ==
    ASSUME WalkTypeOK, InDocument, Calling, Argument # Null,
           trace' = Append(trace, Argument)
    PROVE  Order!Announce(Argument)
  <1>1. /\ Argument = Len(trace) + 1 /\ Argument <= Len(ast)
        /\ \A i \in DOMAIN calls : /\ calls[i].node < Argument
                                   /\ ast[Argument].last <= ast[calls[i].node].last
        /\ Argument \in DOMAIN ast
    BY NextNode
  <1>2. /\ Argument \in Nat /\ ast[Argument].last \in Nat /\ Argument <= ast[Argument].last
    BY <1>1, NodeType DEF WalkTypeOK
  <1>3. ASSUME NEW m \in Open
        PROVE  m < Argument /\ Argument <= ast[m].last
    <2>1. PICK i \in DOMAIN calls : m = calls[i].node
      BY OpenNodes
    <2>2. m \in DOMAIN ast
      BY <2>1 DEF InDocument, OnPath
    <2>3. ast[m].last \in Nat
      BY <2>2, NodeType DEF WalkTypeOK
    <2> QED
      BY <1>1, <1>2, <2>1, <2>3
  <1>4. outcome = "walking"
    BY DEF Calling
  <1> QED
    BY <1>1, <1>3, <1>4 DEF Order!Announce, Order!Encloses

(***************************************************************************)
(* Returning to a caller leaves the same nodes open.                       *)
(***************************************************************************)
LEMMA ReturnedOpen ==
    ASSUME WalkTypeOK, calls' = Returned(calls)
    PROVE  Open' = Open
  <1>1. calls \in Seq(Frame)
    BY DEF WalkTypeOK
  <1>2. DOMAIN calls' = DOMAIN calls /\ \A i \in DOMAIN calls : calls'[i].node = calls[i].node
    BY <1>1, ReturnedFrames
  <1> QED
    BY <1>2 DEF Open

LEMMA EnterOpen ==
    ASSUME WalkTypeOK, NEW n \in DOMAIN ast, Enter(n)
    PROVE  Open' = Open \cup {n}
  <1> DEFINE f == [node |-> n, next |-> 1]
  <1>1. calls \in Seq(Frame) /\ n \in Nat /\ f.node = n
    BY NodeType DEF WalkTypeOK
  <1>2. f \in Frame /\ calls' = Append(calls, f)
    BY <1>1 DEF Frame, Enter
  <1> HIDE DEF f
  <1>3. /\ DOMAIN calls' = 1 .. (Len(calls) + 1) /\ Len(calls) \in Nat
        /\ DOMAIN calls = 1 .. Len(calls)
        /\ \A i \in 1 .. Len(calls) : calls'[i] = calls[i]
        /\ calls'[Len(calls) + 1] = f
    BY <1>1, <1>2
  <1>4. DOMAIN calls' = DOMAIN calls \cup {Len(calls) + 1}
    BY <1>3
  <1> QED
    BY <1>1, <1>3, <1>4 DEF Open

LEMMA LeaveOpen ==
    ASSUME WalkTypeOK, InDocument, NEW n \in DOMAIN ast, Leave(n)
    PROVE  /\ n \in Open /\ Open' = Open \ {n}
           /\ \A m \in Open : m <= n
  <1> DEFINE L  == Len(calls)
             cs == SubSeq(calls, 1, L - 1)
  <1>1. /\ calls # <<>> /\ n = calls[L].node /\ calls' = Returned(cs)
        /\ calls \in Seq(Frame)
    BY DEF Leave, Leaving, Top, WalkTypeOK
  <1>2. /\ cs \in Seq(Frame) /\ Len(cs) = L - 1 /\ L \in Nat /\ L \in DOMAIN calls
        /\ \A i \in 1 .. L - 1 : cs[i] = calls[i]
        /\ DOMAIN calls = 1 .. L
    BY <1>1, PoppedFrames, TopFrame
  <1> HIDE DEF cs
  <1>3. /\ DOMAIN calls' = 1 .. (L - 1)
        /\ \A i \in 1 .. (L - 1) : calls'[i].node = calls[i].node
    BY <1>1, <1>2, ReturnedFrames
  <1> HIDE DEF L
  <1>4. \A i \in 1 .. (L - 1) : i \in DOMAIN calls /\ i < L
    BY <1>2
  <1>5. DOMAIN calls = 1 .. (L - 1) \cup {L}
    BY <1>2
  <1>6. \A i \in 1 .. (L - 1) : calls[i].node < n /\ calls[i].node \in Nat
    <2>1. \A i \in 1 .. (L - 1) : calls[i].node < n /\ calls[i].node \in DOMAIN ast
      BY <1>1, <1>2, <1>4 DEF InDocument, Nested, OnPath
    <2> QED
      BY <2>1, NodeType DEF WalkTypeOK
  <1>7. n \in Nat
    BY NodeType DEF WalkTypeOK
  <1>8. n \in Open /\ \A m \in Open : m <= n
    BY <1>1, <1>2, <1>5, <1>6, <1>7 DEF Open
  <1>9. Open = {calls[i].node : i \in 1 .. (L - 1)} \cup {n}
    BY <1>1, <1>5 DEF Open
  <1>10. Open' = {calls[i].node : i \in 1 .. (L - 1)}
    BY <1>3 DEF Open
  <1>11. n \notin {calls[i].node : i \in 1 .. (L - 1)}
    BY <1>6, <1>7
  <1> QED
    BY <1>8, <1>9, <1>10, <1>11

LEMMA FailStep ==
    ASSUME Fail(outcome'), outcome = "walking", outcome' \in Failure,
           trace' = trace \/ \E n \in DOMAIN ast : Order!Announce(n)
    PROVE  Order!Fail
  <1>1. calls' = <<>> /\ ast' = ast
    BY DEF Fail
  <1>2. Open' = {}
    BY <1>1 DEF Open
  <1>3. outcome' \notin {"walking", "done"}
    BY DEF Failure, Exception, Undefined
  <1> QED
    BY <1>1, <1>2, <1>3 DEF Order!Fail

(***************************************************************************)
(* Every step of the walk is one of DocumentOrder or changes nothing there.*)
(***************************************************************************)
LEMMA OrderStep ==
    WalkTypeOK /\ InDocument /\ [WalkNext]_walkerVars => [Order!Next]_(Order!vars)
  <1> SUFFICES ASSUME WalkTypeOK, InDocument, [WalkNext]_walkerVars
               PROVE  [Order!Next]_(Order!vars)
    OBVIOUS
  <1>0. WalkTypeOK'
    BY WalkTypeStep
  <1>1. ASSUME NEW n \in DOMAIN ast, Enter(n)
        PROVE  Order!Begin(n)
    <2>1. Order!Announce(n)
      BY <1>1, AnnounceStep DEF Enter
    <2> QED
      BY <1>1, <2>1, EnterOpen DEF Order!Begin, Enter
  <1>2. ASSUME NEW n \in DOMAIN ast, VisitLeaf(n)
        PROVE  Order!Visit(n)
    <2>1. Order!Announce(n)
      BY <1>2, AnnounceStep DEF VisitLeaf
    <2>2. Open' = Open
      BY <1>2, ReturnedOpen DEF VisitLeaf
    <2>3. ast[n].last = n
      BY <1>0, <1>2, VisitLeafInDocument
    <2> QED
      BY <1>2, <2>1, <2>2, <2>3 DEF Order!Visit, VisitLeaf
  <1>3. ASSUME NEW n \in DOMAIN ast, Leave(n)
        PROVE  Order!End(n)
    <2>1. ast[n].last = Len(trace)
      BY <1>0, <1>3, LeaveInDocument
    <2>2. /\ n \in Open /\ Open' = Open \ {n}
          /\ \A m \in Open : m <= n
      BY <1>3, LeaveOpen
    <2> QED
      BY <1>3, <2>1, <2>2 DEF Order!End, Leave, Leaving
  <1>4. ASSUME NEW n \in DOMAIN ast, NEW e \in Failure, FailEntering(n, e)
        PROVE  Order!Fail
    <2>1. Order!Announce(n)
      BY <1>4, AnnounceStep DEF FailEntering
    <2> QED
      BY <1>4, <2>1, FailStep DEF FailEntering, Fail, Calling
  <1>5. ASSUME NEW n \in DOMAIN ast, NEW e \in Failure, FailLeaving(n, e)
        PROVE  Order!Fail
    BY <1>5, FailStep DEF FailLeaving, Leaving, Fail
  <1>6. CASE SkipBranch
    BY <1>6, ReturnedOpen DEF SkipBranch, Order!vars
  <1>7. ASSUME NullChild \/ UnhandledKind
        PROVE  Order!Fail
    BY <1>7, FailStep DEF NullChild, UnhandledKind, Calling, Fail, Failure, Exception
  <1>8. CASE CleanUp
    <2>1. Open' = Open /\ Open = {}
      BY <1>8 DEF CleanUp, Open
    <2>2. Len(trace) = Len(ast)
      BY <1>8 DEF CleanUp, InDocument
    <2> QED
      BY <1>8, <2>1, <2>2 DEF CleanUp, Order!Next, Order!Finish
  <1>9. CASE UNCHANGED walkerVars
    BY <1>9 DEF walkerVars, Open, Order!vars
  <1>10. ASSUME NEW e \in Failure, FailOutside(e)
         PROVE  Order!Fail
    BY <1>10, FailStep DEF FailOutside, Fail
  <1> QED
    BY <1>1, <1>2, <1>3, <1>4, <1>5, <1>6, <1>7, <1>8, <1>9, <1>10 DEF WalkNext, Order!Next

(***************************************************************************)
(* DocumentOrder's trees are the walker's.                                 *)
(***************************************************************************)
LEMMA SameTrees == ASSUME NEW a, IsTree(a) PROVE Order!IsTree(a)
  <1>1. Order!Node = Node
    BY DEF Node, NodeKind, DataType, Scope, OperationKind, Undefined,
           Order!Node, Order!NodeKind, Order!DataType, Order!Scope,
           Order!OperationKind, Order!Undefined
  <1>2. ASSUME NEW n \in DOMAIN a
        PROVE  Order!Members(a, n) /\ Order!DataTypeRule(a, n) /\ Order!Numbered(a, n)
    <2>1. Order!Members(a, n)
      <3>1. Members(a, n)
        BY DEF IsTree
      <3> QED
        BY <3>1 DEF Members, LeafKind, ClientKind, Null, Root,
                    Order!Members, Order!LeafKind, Order!ClientKind, Order!Null, Order!Root
    <2>2. Order!DataTypeRule(a, n)
      <3>1. DataTypeRule(a, n)
        BY DEF IsTree
      <3> QED
        BY <3>1 DEF DataTypeRule, TypeAt, ClientKind, DataType, Undefined, Null,
                    Order!DataTypeRule, Order!TypeAt, Order!ClientKind, Order!DataType,
                    Order!Undefined, Order!Null
    <2>3. Order!Numbered(a, n)
      <3>1. Numbered(a, n)
        BY DEF IsTree
      <3> QED
        BY <3>1 DEF Numbered, IsLastCovered, Covered, Null,
                    Order!Numbered, Order!IsLastCovered, Order!Covered, Order!Null
    <2> QED
      BY <2>1, <2>2, <2>3
  <1>3. a \in Seq(Order!Node) /\ a # <<>> /\ a[Order!Root].last = Len(a)
    BY <1>1 DEF IsTree, Root, Order!Root
  <1> QED
    BY <1>2, <1>3 DEF Order!IsTree

LEMMA OrderInit == WalkInit => Order!Init
  <1>1. ASSUME WalkInit
        PROVE  Order!Init
    <2>1. Open = {}
      BY <1>1 DEF WalkInit, Open
    <2>2. IsTree(ast)
      BY <1>1, ProgramsAssumption DEF WalkInit
    <2> QED
      BY <1>1, <2>1, <2>2, SameTrees DEF WalkInit, Order!Init
  <1> QED
    BY <1>1

(***************************************************************************)
(* What the visitor is promised holds for every Module: nodes in document  *)
(* order, each once, properly nested, and all of them when the walk ends   *)
(* without a failure.                                                      *)
(***************************************************************************)
THEOREM WalkInDocumentOrder == WalkSafety => DocumentOrderSpec
  <1>1. WalkInit => WalkTypeOK /\ InDocument
    BY ProgramsAssumption DEF WalkInit, WalkTypeOK, InDocument
  <1> QED
    BY <1>1, OrderInit, OrderStep, WalkTypeStep, InDocumentStep, PTL
       DEF WalkSafety, DocumentOrderSpec, Order!Spec

-----------------------------------------------------------------------------
(* The nodes the walk has left                                             *)

LEMMA OpenVisited ==
    ASSUME WalkTypeOK, InDocument
    PROVE  \A m \in Open : /\ m \in DOMAIN ast /\ m \in Nat /\ m >= 1
                           /\ m <= Len(ast) /\ ast[m].last \in Nat
  <1>1. Open \subseteq DOMAIN ast
    BY OpenNodes DEF InDocument, OnPath
  <1> QED
    BY <1>1, NodeType DEF WalkTypeOK

LEMMA LeftBehindStep ==
    WalkTypeOK /\ InDocument /\ LeftBehind /\ [WalkNext]_walkerVars => LeftBehind'
  <1> SUFFICES ASSUME WalkTypeOK, InDocument, LeftBehind, [WalkNext]_walkerVars,
                      outcome' = "walking",
                      NEW b \in 1 .. Len(trace'), b \notin Open'
               PROVE  /\ ast'[b].last <= Len(trace')
                      /\ \A m \in Open' : b < m => ast'[b].last < m
    BY DEF LeftBehind
  <1>0. /\ IsTree(ast) /\ WalkTypeOK' /\ trace \in Seq(Nat) /\ Len(trace) \in Nat
        /\ Len(trace) <= Len(ast) /\ b \in Nat
    BY WalkTypeStep DEF WalkTypeOK, InDocument
  <1>1. \A c \in DOMAIN ast : ast[c].last \in Nat /\ c \in Nat
    BY <1>0, NodeType
  <1>2. \A c \in 1 .. Len(trace) : c \in DOMAIN ast
    BY <1>0 DEF IsTree
  <1>3. outcome = "walking" =>
           \A c \in 1 .. Len(trace) : c \notin Open =>
              ast[c].last <= Len(trace) /\ \A m \in Open : c < m => ast[c].last < m
    BY DEF LeftBehind
  <1>4. ASSUME NEW n \in DOMAIN ast, Enter(n)
        PROVE  /\ ast'[b].last <= Len(trace')
               /\ \A m \in Open' : b < m => ast'[b].last < m
    <2>1. Open' = Open \cup {n} /\ ast' = ast /\ trace' = Append(trace, n) /\ outcome = "walking"
      BY <1>4, EnterOpen DEF Enter, Calling
    <2>2. n = Len(trace) + 1
      BY <1>4, NextNode DEF Enter
    <2>3. Len(trace') = Len(trace) + 1
      BY <1>0, <1>1, <2>1
    <2>4. b \in 1 .. Len(trace) /\ b \notin Open
      BY <1>0, <2>1, <2>2, <2>3
    <2>5. ast[b].last <= Len(trace) /\ \A m \in Open : b < m => ast[b].last < m
      BY <1>3, <2>1, <2>4
    <2>6. ast[b].last \in Nat
      BY <1>1, <1>2, <2>4
    <2> QED
      BY <1>0, <2>1, <2>2, <2>3, <2>5, <2>6
  <1>5. ASSUME NEW n \in DOMAIN ast, VisitLeaf(n)
        PROVE  /\ ast'[b].last <= Len(trace')
               /\ \A m \in Open' : b < m => ast'[b].last < m
    <2>1. Open' = Open /\ ast' = ast /\ trace' = Append(trace, n) /\ outcome = "walking"
      BY <1>5, ReturnedOpen DEF VisitLeaf, Calling
    <2>2. /\ n = Len(trace) + 1 /\ \A i \in DOMAIN calls : calls[i].node < n
      BY <1>5, NextNode DEF VisitLeaf
    <2>3. Len(trace') = Len(trace) + 1
      BY <1>0, <1>1, <2>1
    <2>4. CASE b = n
      <3>1. ast[n].last = n
        BY <1>0, <1>5, VisitLeafInDocument
      <3>2. \A m \in Open : m < n /\ m \in Nat
        BY <2>2, OpenNodes, OpenVisited
      <3> QED
        BY <1>0, <2>1, <2>2, <2>3, <2>4, <3>1, <3>2
    <2>5. CASE b # n
      <3>1. b \in 1 .. Len(trace)
        BY <1>0, <2>2, <2>3, <2>5
      <3>2. ast[b].last <= Len(trace) /\ \A m \in Open : b < m => ast[b].last < m
        BY <1>3, <2>1, <3>1
      <3>3. ast[b].last \in Nat
        BY <1>1, <1>2, <3>1
      <3> QED
        BY <1>0, <2>1, <2>3, <3>2, <3>3
    <2> QED
      BY <2>4, <2>5
  <1>6. ASSUME NEW n \in DOMAIN ast, Leave(n)
        PROVE  /\ ast'[b].last <= Len(trace')
               /\ \A m \in Open' : b < m => ast'[b].last < m
    <2>1. Open' = Open \ {n} /\ ast' = ast /\ trace' = trace /\ outcome = "walking"
      BY <1>6, LeaveOpen DEF Leave, Leaving
    <2>2. CASE b = n
      <3>1. ast[n].last = Len(trace)
        BY <1>0, <1>6, LeaveInDocument
      <3>2. \A m \in Open : m <= n /\ m \in Nat
        BY <1>6, LeaveOpen, OpenVisited
      <3> QED
        BY <1>0, <1>1, <2>1, <2>2, <3>1, <3>2
    <2>3. CASE b # n
      BY <1>3, <2>1, <2>3
    <2> QED
      BY <2>2, <2>3
  <1>7. CASE SkipBranch
    <2>1. Open' = Open /\ ast' = ast /\ trace' = trace /\ outcome = "walking"
      BY <1>7, ReturnedOpen DEF SkipBranch, Calling
    <2> QED
      BY <1>3, <2>1
  <1>8. ASSUME \/ \E n \in DOMAIN ast, e \in Failure : FailEntering(n, e) \/ FailLeaving(n, e)
               \/ \E e \in Failure : FailOutside(e)
               \/ NullChild \/ UnhandledKind \/ CleanUp
        PROVE  FALSE
    BY <1>8 DEF FailEntering, FailLeaving, FailOutside, NullChild, UnhandledKind, CleanUp, Fail,
                Failure, Exception, Undefined
  <1>9. CASE UNCHANGED walkerVars
    <2>1. Open' = Open /\ ast' = ast /\ trace' = trace /\ outcome = "walking"
      BY <1>9 DEF walkerVars, Open
    <2> QED
      BY <1>3, <2>1
  <1> QED
    BY <1>4, <1>5, <1>6, <1>7, <1>8, <1>9 DEF WalkNext

(***************************************************************************)
(* A node that is not open any more lies entirely behind the walk.         *)
(***************************************************************************)
THEOREM WalkLeavesBehind == WalkSafety => []LeftBehind
  <1>1. WalkInit => WalkTypeOK /\ InDocument /\ LeftBehind
    BY ProgramsAssumption DEF WalkInit, WalkTypeOK, InDocument, LeftBehind
  <1> QED
    BY <1>1, WalkTypeStep, InDocumentStep, LeftBehindStep, PTL DEF WalkSafety

(***************************************************************************)
(* So the nodes around the next node of the document, and around the node  *)
(* about to be left, are the open ones.                                    *)
(***************************************************************************)
LEMMA AroundNext ==
    ASSUME WalkTypeOK, InDocument, LeftBehind, Calling, Argument # Null,
           NEW b \in DOMAIN ast
    PROVE  Encloses(ast, b, Argument) <=> b \in Open
  <1>1. /\ Argument = Len(trace) + 1 /\ outcome = "walking"
        /\ \A i \in DOMAIN calls : /\ calls[i].node < Argument
                                   /\ ast[Argument].last <= ast[calls[i].node].last
        /\ Argument \in DOMAIN ast
    BY NextNode DEF Calling
  <1>2. /\ b \in Nat /\ b >= 1 /\ ast[b].last \in Nat /\ Len(trace) \in Nat
        /\ ast[Argument].last \in Nat /\ Argument <= ast[Argument].last
    BY <1>1, NodeType DEF WalkTypeOK
  <1>3. ASSUME b \in Open
        PROVE  Encloses(ast, b, Argument)
    BY <1>1, <1>2, <1>3, OpenNodes DEF Encloses
  <1>4. ASSUME Encloses(ast, b, Argument), b \notin Open
        PROVE  FALSE
    <2>1. b \in 1 .. Len(trace) /\ Argument <= ast[b].last
      BY <1>1, <1>2, <1>4 DEF Encloses
    <2>2. ast[b].last <= Len(trace)
      BY <1>1, <1>4, <2>1 DEF LeftBehind
    <2> QED
      BY <1>1, <1>2, <2>1, <2>2
  <1> QED
    BY <1>3, <1>4

LEMMA AroundTop ==
    ASSUME WalkTypeOK, InDocument, LeftBehind,
           NEW n \in DOMAIN ast, Leaving(n), NEW b \in DOMAIN ast
    PROVE  Encloses(ast, b, n) <=> b \in Open \ {n}
  <1>0. /\ outcome = "walking" /\ calls # <<>> /\ n = Top.node
        /\ Len(calls) \in DOMAIN calls /\ DOMAIN calls = 1 .. Len(calls)
        /\ Len(calls) \in Nat /\ n = calls[Len(calls)].node
    BY TopFrame DEF Leaving, Top, WalkTypeOK
  <1>1. n \in Open
    BY <1>0 DEF Open
  <1>2. ast[n].last = Len(trace)
    <2>1. Top.next = Len(ast[n].kids) + 1
      BY <1>0, TopFrame DEF Leaving
    <2> QED
      BY <1>0, <2>1, TopFrame, LastNumber DEF WalkTypeOK
  <1>3. /\ b \in Nat /\ b >= 1 /\ ast[b].last \in Nat /\ n \in Nat
        /\ n <= ast[n].last /\ ast[n].last \in Nat
    BY NodeType DEF WalkTypeOK
  <1>4. ASSUME b \in Open, b # n
        PROVE  Encloses(ast, b, n)
    <2>1. PICK i \in DOMAIN calls : b = calls[i].node
      BY <1>4, OpenNodes
    <2>2. i < Len(calls)
      BY <1>0, <1>4, <2>1
    <2>3. b < n /\ ast[n].last <= ast[b].last
      BY <1>0, <2>1, <2>2 DEF InDocument, Nested
    <2> QED
      BY <1>3, <2>3 DEF Encloses
  <1>5. ASSUME Encloses(ast, b, n), b \notin Open
        PROVE  FALSE
    <2>1. b \in 1 .. Len(trace) /\ b < n /\ n <= ast[b].last
      BY <1>2, <1>3, <1>5 DEF Encloses
    <2>2. ast[b].last < n
      BY <1>0, <1>1, <1>5, <2>1 DEF LeftBehind
    <2> QED
      BY <1>3, <2>1, <2>2
  <1>6. Encloses(ast, b, n) => b # n
    BY <1>3 DEF Encloses
  <1> QED
    BY <1>4, <1>5, <1>6

(***************************************************************************)
(* A node has one parent: whoever has the next node of the document as a   *)
(* child is the innermost open node.                                       *)
(***************************************************************************)
LEMMA ParentOfNext ==
    ASSUME WalkTypeOK, InDocument, LeftBehind, Calling, Argument # Null,
           NEW p \in DOMAIN ast, NEW i \in DOMAIN ast[p].kids, ast[p].kids[i] = Argument
    PROVE  calls # <<>> /\ p = Top.node
  <1>1. /\ p < Argument /\ ast[Argument].last <= ast[p].last /\ Argument \in DOMAIN ast
        /\ i \in 1 .. Len(ast[p].kids)
    BY ChildInside, NodeType DEF WalkTypeOK
  <1>2. /\ p \in Nat /\ Argument \in Nat /\ ast[Argument].last \in Nat
        /\ ast[p].last \in Nat /\ Argument <= ast[Argument].last /\ i \in Nat
    BY <1>1, NodeType DEF WalkTypeOK
  <1>3. Encloses(ast, p, Argument)
    BY <1>1, <1>2 DEF Encloses
  <1>4. PICK j \in DOMAIN calls : p = calls[j].node
    BY <1>3, AroundNext, OpenNodes
  <1>5. calls # <<>> /\ Len(calls) \in DOMAIN calls /\ j \in Nat /\ Len(calls) \in Nat
        /\ DOMAIN calls = 1 .. Len(calls)
    BY <1>4, EmptySeq DEF WalkTypeOK
  <1>6. ASSUME j < Len(calls)
        PROVE  FALSE
    <2> DEFINE q == calls[j].next
               k == calls[j + 1].node
    <2>1. /\ q \in 1 .. Len(ast[p].kids) /\ ast[p].kids[q] = k /\ j + 1 \in DOMAIN calls
          /\ IsLastCovered(ast, p, q, k - 1)
      <3>1. OnPath(j) /\ Reached(j)
        BY <1>4 DEF InDocument
      <3>2. q \in 1 .. (Len(ast[p].kids) + 1) /\ q <= Len(ast[p].kids)
            /\ ast[p].kids[q] = k /\ IsLastCovered(ast, p, q, k - 1)
        BY <1>4, <1>6, <3>1 DEF OnPath, Reached
      <3>3. Len(ast[p].kids) \in Nat /\ j + 1 \in DOMAIN calls
        BY <1>4, <1>5, <1>6, NodeType DEF WalkTypeOK
      <3> HIDE DEF q, k
      <3> QED
        BY <3>2, <3>3
    <2>2. k < Argument /\ ast[Argument].last <= ast[k].last /\ k \in DOMAIN ast
      BY <2>1, NextNode DEF InDocument, OnPath
    <2> HIDE DEF k, q
    <2>3. /\ k \in Nat /\ ast[k].last \in Nat /\ k # Null /\ q \in Nat
          /\ DOMAIN ast[p].kids = 1 .. Len(ast[p].kids)
      <3>1. k \in Nat /\ k >= 1 /\ ast[k].last \in Nat
        BY <2>2, NodeType DEF WalkTypeOK
      <3>2. DOMAIN ast[p].kids = 1 .. Len(ast[p].kids)
        BY NodeType DEF WalkTypeOK
      <3> QED
        BY <2>1, <3>1, <3>2 DEF Null
    <2>4. CASE i < q
      <3>1. ast[Argument].last \in Covered(ast, p, q)
        BY <1>1, <2>4 DEF Covered
      <3>2. ast[Argument].last <= k - 1
        BY <2>1, <3>1 DEF IsLastCovered
      <3> QED
        BY <1>2, <2>2, <2>3, <3>2
    <2>5. CASE i > q
      <3>1. ast[k].last \in Covered(ast, p, i)
        BY <2>1, <2>3, <2>5, NodeType DEF Covered, WalkTypeOK
      <3>2. \A d \in Covered(ast, p, i) : d < Argument
        BY <1>1, <1>2, CoveredBefore DEF WalkTypeOK
      <3> QED
        BY <1>2, <2>2, <2>3, <3>1, <3>2
    <2> QED
      BY <1>2, <2>1, <2>2, <2>3, <2>4, <2>5
  <1> QED
    BY <1>4, <1>5, <1>6 DEF Top

-----------------------------------------------------------------------------
(* No child is missed                                                      *)

LEMMA SameIncomplete ==
    ast' = ast => \A n : Incomplete(n)' <=> Incomplete(n)
  BY DEF Incomplete

(***************************************************************************)
(* A null pointer is refused where a child is missing.                     *)
(***************************************************************************)
LEMMA NullIsMissing ==
    ASSUME WalkTypeOK, InDocument, Calling, Argument = Null, ~NullBranch
    PROVE  \E n \in DOMAIN ast : Incomplete(n)
  <1>1. calls # <<>>
    BY DEF Argument, Root, Null
  <1>2. /\ Top.node \in DOMAIN ast /\ Top.next \in 1 .. (Len(ast[Top.node].kids) + 1)
        /\ Top.next <= Len(ast[Top.node].kids) /\ Len(ast[Top.node].kids) \in Nat
        /\ DOMAIN ast[Top.node].kids = 1 .. Len(ast[Top.node].kids)
    BY <1>1, TopFrame, NodeType DEF Calling, WalkTypeOK
  <1>3. Top.next \in DOMAIN ast[Top.node].kids
    BY <1>2
  <1> QED
    BY <1>1, <1>2, <1>3 DEF Argument, NullBranch, Incomplete

(***************************************************************************)
(* The children the open nodes have had walked are there.                  *)
(***************************************************************************)
ChildrenWalked ==
    \A i \in DOMAIN calls : \A j \in 1 .. (calls[i].next - 1) :
       ast[calls[i].node].kids[j] # Null \/ ast[calls[i].node].kind = "Conditional"

WalkedInv == WalkedComplete /\ ChildrenWalked

LEMMA ReturnedWalked ==
    ASSUME WalkTypeOK, ast' = ast, NEW cs \in Seq(Frame), calls' = Returned(cs),
           \A i \in 1 .. Len(cs) : \A j \in 1 .. (cs[i].next - 1) :
              ast[cs[i].node].kids[j] # Null \/ ast[cs[i].node].kind = "Conditional",
           cs # <<>> => \/ ast[cs[Len(cs)].node].kids[cs[Len(cs)].next] # Null
                        \/ ast[cs[Len(cs)].node].kind = "Conditional"
    PROVE  ChildrenWalked'
  <1> SUFFICES ASSUME NEW i \in DOMAIN calls', NEW j \in 1 .. (calls'[i].next - 1)
               PROVE  \/ ast[calls'[i].node].kids[j] # Null
                      \/ ast[calls'[i].node].kind = "Conditional"
    BY DEF ChildrenWalked
  <1>1. /\ i \in 1 .. Len(cs) /\ Len(cs) \in Nat /\ calls'[i].node = cs[i].node
        /\ calls'[i].next = IF i = Len(cs) THEN cs[i].next + 1 ELSE cs[i].next
        /\ cs[i] \in Frame
    BY ReturnedFrames
  <1>2. cs[i].next \in Nat /\ cs # <<>>
    BY <1>1 DEF Frame
  <1>3. j \in 1 .. (cs[i].next - 1) \/ (i = Len(cs) /\ j = cs[i].next)
    BY <1>1, <1>2
  <1> QED
    BY <1>1, <1>2, <1>3

LEMMA WalkedStep ==
    ASSUME WalkTypeOK, WalkTypeOK', InDocument, WalkedInv, [WalkNext]_walkerVars
    PROVE  WalkedInv'
  <1> USE DEF WalkedInv
  <1>0. /\ calls \in Seq(Frame) /\ IsTree(ast) /\ DOMAIN calls = 1 .. Len(calls)
        /\ Len(calls) \in Nat /\ trace \in Seq(Nat) /\ Len(trace) \in Nat
    BY DEF WalkTypeOK
  <1>1. ASSUME NEW n \in DOMAIN ast, Enter(n)
        PROVE  WalkedInv'
    <2>1. /\ n = Len(trace) + 1 /\ trace' = Append(trace, n) /\ ast' = ast
          /\ outcome = "walking" /\ outcome' = outcome /\ ast[n].kind \in InnerKind
          /\ calls' = Append(calls, [node |-> n, next |-> 1])
      BY <1>1, NextNode DEF Enter, Calling
    <2>2. Len(trace') = n /\ n \in Nat /\ Open' = Open \cup {n}
      BY <1>0, <1>1, <2>1, EnterOpen
    <2>3. WalkedComplete'
      BY <1>0, <2>1, <2>2, SameIncomplete DEF WalkedComplete, InnerKind, ClientKind
    <2>4. [node |-> n, next |-> 1] \in Frame
      BY <2>1, <2>2, <1>0 DEF Frame, Null
    <2>5. /\ \A i \in 1 .. Len(calls) : calls'[i] = calls[i]
          /\ calls'[Len(calls) + 1].next = 1
          /\ DOMAIN calls' = 1 .. (Len(calls) + 1)
      BY <1>0, <2>1, <2>4
    <2>6. ChildrenWalked'
      BY <1>0, <2>1, <2>5 DEF ChildrenWalked
    <2> QED
      BY <2>3, <2>6
  <1>2. ASSUME NEW n \in DOMAIN ast, VisitLeaf(n)
        PROVE  WalkedInv'
    <2>1. /\ n = Len(trace) + 1 /\ trace' = Append(trace, n) /\ ast' = ast
          /\ outcome = "walking" /\ outcome' = outcome /\ ast[n].kind \in LeafKind
          /\ calls' = Returned(calls) /\ n = Argument /\ n # Null
      BY <1>2, NextNode DEF VisitLeaf, Calling
    <2>2. Len(trace') = n /\ n \in Nat /\ Open' = Open
      BY <1>0, <2>1, ReturnedOpen
    <2>3. ast[n].kids = <<>>
      BY <1>0, <2>1 DEF IsTree, Members
    <2>4. ~Incomplete(n)
      BY <2>3 DEF Incomplete
    <2>5. WalkedComplete'
      BY <1>0, <2>1, <2>2, <2>4, SameIncomplete DEF WalkedComplete, LeafKind, ClientKind
    <2>6. ChildrenWalked'
      BY <1>0, <2>1, ReturnedWalked DEF ChildrenWalked, Argument, Top
    <2> QED
      BY <2>5, <2>6
  <1>3. CASE SkipBranch
    <2>1. ast' = ast /\ trace' = trace /\ outcome' = outcome /\ calls' = Returned(calls)
          /\ ast[Top.node].kind = "Conditional"
      BY <1>3 DEF SkipBranch, NullBranch
    <2>2. Open' = Open
      BY <2>1, ReturnedOpen
    <2>3. WalkedComplete'
      BY <2>1, <2>2, SameIncomplete DEF WalkedComplete
    <2>4. ChildrenWalked'
      BY <1>0, <2>1, ReturnedWalked DEF ChildrenWalked, Top
    <2> QED
      BY <2>3, <2>4
  <1>4. ASSUME NEW n \in DOMAIN ast, Leave(n)
        PROVE  WalkedInv'
    <2> DEFINE cs == SubSeq(calls, 1, Len(calls) - 1)
    <2>1. /\ ast' = ast /\ trace' = trace /\ outcome' = outcome /\ calls' = Returned(cs)
          /\ n = Top.node /\ calls # <<>> /\ Top.next > Len(ast[n].kids)
      BY <1>4 DEF Leave, Leaving
    <2>2. Open' = Open \ {n}
      BY <1>4, LeaveOpen
    <2>3. Top.next \in Nat /\ Len(calls) \in DOMAIN calls /\ Len(ast[n].kids) \in Nat
          /\ DOMAIN ast[n].kids = 1 .. Len(ast[n].kids)
      BY <1>0, <2>1, TopFrame, NodeType
    <2>4. ~Incomplete(n)
      BY <2>1, <2>3 DEF Incomplete, ChildrenWalked, Top
    <2>5. WalkedComplete'
      BY <2>1, <2>2, <2>4, SameIncomplete DEF WalkedComplete
    <2>6. /\ cs \in Seq(Frame) /\ Len(cs) = Len(calls) - 1
          /\ \A i \in 1 .. (Len(calls) - 1) : cs[i] = calls[i]
      BY <1>0, <2>1, PoppedFrames
    <2>7. n # Null
      BY NodeType DEF WalkTypeOK, Null
    <2>8. \A i \in 1 .. (Len(calls) - 1) : i \in DOMAIN calls /\ i < Len(calls)
      BY <1>0
    <2>9. cs # <<>> => ast[cs[Len(cs)].node].kids[cs[Len(cs)].next] = n
      <3> SUFFICES ASSUME cs # <<>>
                   PROVE  ast[cs[Len(cs)].node].kids[cs[Len(cs)].next] = n
        OBVIOUS
      <3>1. Len(calls) - 1 \in 1 .. (Len(calls) - 1)
        <4> HIDE DEF cs
        <4>1. Len(cs) > 0 /\ Len(cs) \in Nat
          BY <2>6, EmptySeq
        <4> QED
          BY <1>0, <2>6, <4>1
      <3> DEFINE l == Len(calls) - 1
      <3>2. l \in DOMAIN calls /\ l < Len(calls) /\ l + 1 = Len(calls) /\ cs[l] = calls[l]
            /\ Len(cs) = l
        BY <1>0, <2>6, <2>8, <3>1
      <3> HIDE DEF cs, l
      <3>3. OnPath(l)
        BY <3>2 DEF InDocument
      <3> QED
        BY <2>1, <3>2, <3>3 DEF OnPath, Top
    <2> HIDE DEF cs
    <2>10. \A i \in 1 .. Len(cs) : \A j \in 1 .. (cs[i].next - 1) :
              ast[cs[i].node].kids[j] # Null \/ ast[cs[i].node].kind = "Conditional"
      BY <2>6, <2>8 DEF ChildrenWalked
    <2>11. ChildrenWalked'
      BY <2>1, <2>6, <2>7, <2>9, <2>10, ReturnedWalked
    <2> QED
      BY <2>5, <2>11
  <1>5. CASE \/ \E n \in DOMAIN ast : \E e \in Failure : FailEntering(n, e) \/ FailLeaving(n, e)
             \/ \E e \in Failure : FailOutside(e)
             \/ NullChild \/ UnhandledKind
    <2>1. calls' = <<>> /\ outcome' \notin {"walking", "done"}
      BY <1>5 DEF FailEntering, FailLeaving, FailOutside, NullChild, UnhandledKind, Fail,
                  Failure, Exception, Undefined
    <2> QED
      BY <2>1 DEF WalkedComplete, ChildrenWalked
  <1>6. CASE CleanUp \/ UNCHANGED walkerVars
    <2>1. /\ ast' = ast /\ trace' = trace /\ calls' = calls
          /\ outcome' \in {"walking", "done"} => outcome \in {"walking", "done"}
      BY <1>6 DEF CleanUp, walkerVars
    <2>2. Open' = Open
      BY <2>1 DEF Open
    <2> QED
      BY <2>1, <2>2, SameIncomplete DEF WalkedComplete, ChildrenWalked
  <1> QED
    BY <1>1, <1>2, <1>3, <1>4, <1>5, <1>6 DEF WalkNext

(***************************************************************************)
(* No node behind the walk misses a child or is of a kind it cannot walk.  *)
(***************************************************************************)
THEOREM WalkMissesNothing == WalkSafety => []WalkedComplete
  <1>1. WalkInit => WalkTypeOK /\ InDocument /\ WalkedInv
    BY ProgramsAssumption
       DEF WalkInit, WalkTypeOK, InDocument, WalkedInv, WalkedComplete, ChildrenWalked
  <1>2. WalkedInv => WalkedComplete
    BY DEF WalkedInv
  <1> QED
    BY <1>1, <1>2, WalkTypeStep, InDocumentStep, WalkedStep, PTL DEF WalkSafety

-----------------------------------------------------------------------------
(* What is left to do                                                      *)

LEMMA BelowFour ==
    ASSUME NEW v1 \in Nat, NEW v2 \in Nat, NEW v3 \in Nat, NEW v4 \in Nat,
           NEW w1 \in Nat, NEW w2 \in Nat, NEW w3 \in Nat, NEW w4 \in Nat,
           \/ v1 < w1
           \/ v1 = w1 /\ v2 < w2
           \/ v1 = w1 /\ v2 = w2 /\ v3 < w3
           \/ v1 = w1 /\ v2 = w2 /\ v3 = w3 /\ v4 < w4
    PROVE  Below(<<v1, v2, v3, v4>>, <<w1, w2, w3, w4>>)
  <1> DEFINE v == <<v1, v2, v3, v4>>
             w == <<w1, w2, w3, w4>>
  <1>1. /\ DOMAIN w = 1 .. 4
        /\ v[1] = v1 /\ v[2] = v2 /\ v[3] = v3 /\ v[4] = v4
        /\ w[1] = w1 /\ w[2] = w2 /\ w[3] = w3 /\ w[4] = w4
    OBVIOUS
  <1> HIDE DEF v, w
  <1>2. \A i \in DOMAIN w : v[i] \in Nat
    <2> SUFFICES ASSUME NEW i \in 1 .. 4
                 PROVE  v[i] \in Nat
      BY <1>1
    <2>1. i = 1 \/ i = 2 \/ i = 3 \/ i = 4
      OBVIOUS
    <2> QED
      BY <1>1, <2>1
  <1>3. ASSUME NEW i \in 1 .. 4, v[i] < w[i], \A j \in 1 .. (i - 1) : v[j] = w[j]
        PROVE  Below(v, w)
    BY <1>1, <1>2, <1>3 DEF Below
  <1>4. \A j \in 1 .. (1 - 1) : v[j] = w[j]
    OBVIOUS
  <1>5. v1 = w1 => \A j \in 1 .. (2 - 1) : v[j] = w[j]
    BY <1>1
  <1>6. v1 = w1 /\ v2 = w2 => \A j \in 1 .. (3 - 1) : v[j] = w[j]
    <2> SUFFICES ASSUME v1 = w1, v2 = w2, NEW j \in 1 .. (3 - 1)
                 PROVE  v[j] = w[j]
      OBVIOUS
    <2>1. j = 1 \/ j = 2
      OBVIOUS
    <2> QED
      BY <1>1, <2>1
  <1>7. v1 = w1 /\ v2 = w2 /\ v3 = w3 => \A j \in 1 .. (4 - 1) : v[j] = w[j]
    <2> SUFFICES ASSUME v1 = w1, v2 = w2, v3 = w3, NEW j \in 1 .. (4 - 1)
                 PROVE  v[j] = w[j]
      OBVIOUS
    <2>1. j = 1 \/ j = 2 \/ j = 3
      OBVIOUS
    <2> QED
      BY <1>1, <2>1
  <1>8. 1 \in 1 .. 4 /\ 2 \in 1 .. 4 /\ 3 \in 1 .. 4 /\ 4 \in 1 .. 4
    OBVIOUS
  <1>9. Below(v, w)
    BY <1>1, <1>3, <1>4, <1>5, <1>6, <1>7, <1>8
  <1> QED
    BY <1>9 DEF v, w

(***************************************************************************)
(* The counts are natural numbers: no more nodes are announced than there  *)
(* are, and no activation goes past its children.                          *)
(***************************************************************************)
WorkCounts ==
    /\ Len(ast) - Len(trace) \in Nat
    /\ Len(calls) \in Nat
    /\ ChildrenAhead \in Nat

LEMMA WorkIsCounted == WalkTypeOK /\ InDocument => WorkCounts
  <1> SUFFICES ASSUME WalkTypeOK, InDocument
               PROVE  WorkCounts
    OBVIOUS
  <1>1. Len(ast) \in Nat /\ Len(trace) \in Nat /\ Len(trace) <= Len(ast) /\ Len(calls) \in Nat
    BY DEF WalkTypeOK, InDocument, IsTree
  <1>2. CASE calls = <<>>
    BY <1>1, <1>2 DEF WorkCounts, ChildrenAhead
  <1>3. CASE calls # <<>>
    <2>1. Len(ast[Top.node].kids) + 1 - Top.next \in Nat
      BY <1>3, TopFrame
    <2> QED
      BY <1>1, <1>3, <2>1 DEF WorkCounts, ChildrenAhead
  <1> QED
    BY <1>2, <1>3

LEMMA WorkStep ==
    ASSUME WalkTypeOK, InDocument, WorkCounts, WorkCounts', WalkNext
    PROVE  Below(WalkWork', WalkWork)
  <1> DEFINE running == IF outcome = "walking" THEN 1 ELSE 0
             nodes   == Len(ast) - Len(trace)
             depth   == Len(calls)
  <1>1. /\ running \in Nat /\ nodes \in Nat /\ depth \in Nat /\ ChildrenAhead \in Nat
        /\ running' \in Nat /\ nodes' \in Nat /\ depth' \in Nat /\ ChildrenAhead' \in Nat
    BY DEF WorkCounts
  <1>2. /\ WalkWork  = <<running, nodes, depth, ChildrenAhead>>
        /\ WalkWork' = <<running', nodes', depth', ChildrenAhead'>>
    BY DEF WalkWork
  <1>3. Len(ast) \in Nat /\ Len(trace) \in Nat /\ calls \in Seq(Frame)
    BY DEF WalkTypeOK, IsTree
  <1>4. /\ outcome = "walking"
        /\ \/ running' < running
           \/ running' = running /\ nodes' < nodes
           \/ running' = running /\ nodes' = nodes /\ depth' < depth
           \/ /\ running' = running /\ nodes' = nodes /\ depth' = depth
              /\ ChildrenAhead' < ChildrenAhead
    <2>1. ASSUME NEW n \in DOMAIN ast, Enter(n) \/ VisitLeaf(n)
          PROVE  outcome = "walking" /\ running' = running /\ nodes' < nodes
      <3>1. /\ outcome = "walking" /\ outcome' = outcome /\ ast' = ast
            /\ trace' = Append(trace, n)
        BY <2>1 DEF Enter, VisitLeaf, Calling
      <3>2. Len(trace') = Len(trace) + 1
        BY <3>1 DEF WalkTypeOK
      <3> QED
        BY <1>3, <3>1, <3>2
    <2>2. ASSUME NEW n \in DOMAIN ast, Leave(n)
          PROVE  outcome = "walking" /\ running' = running /\ nodes' = nodes /\ depth' < depth
      <3> DEFINE cs == SubSeq(calls, 1, Len(calls) - 1)
      <3>1. /\ outcome = "walking" /\ outcome' = outcome /\ ast' = ast /\ trace' = trace
            /\ calls # <<>> /\ calls' = Returned(cs)
        BY <2>2 DEF Leave, Leaving
      <3>2. cs \in Seq(Frame) /\ Len(cs) = Len(calls) - 1 /\ Len(calls) \in Nat
        BY <1>3, <3>1, PoppedFrames
      <3> HIDE DEF cs
      <3>3. Len(calls') = Len(cs)
        BY <3>1, <3>2, ReturnedFrames
      <3> QED
        BY <3>1, <3>2, <3>3
    <2>3. ASSUME SkipBranch
          PROVE  /\ outcome = "walking" /\ running' = running /\ nodes' = nodes
                 /\ depth' = depth /\ ChildrenAhead' < ChildrenAhead
      <3>1. /\ outcome = "walking" /\ outcome' = outcome /\ ast' = ast /\ trace' = trace
            /\ calls # <<>> /\ calls' = Returned(calls)
        BY <2>3 DEF SkipBranch, NullBranch, Calling
      <3>2. /\ Len(calls') = Len(calls) /\ Len(calls) \in 1 .. Len(calls)
            /\ calls'[Len(calls)].node = calls[Len(calls)].node
            /\ calls'[Len(calls)].next = calls[Len(calls)].next + 1
        BY <1>3, <3>1, ReturnedFrames, TopFrame
      <3>3. Top'.node = Top.node /\ Top'.next = Top.next + 1 /\ calls' # <<>>
        BY <3>1, <3>2, EmptySeq DEF Top
      <3>4. /\ ChildrenAhead = Len(ast[Top.node].kids) + 1 - Top.next
            /\ ChildrenAhead' = Len(ast[Top.node].kids) + 1 - (Top.next + 1)
        BY <3>1, <3>3 DEF ChildrenAhead
      <3>5. Top.next \in Nat /\ Len(ast[Top.node].kids) \in Nat
        BY <3>1, TopFrame
      <3>6. ChildrenAhead' < ChildrenAhead
        BY <3>4, <3>5, SMTT(30)
      <3> QED
        BY <3>1, <3>2, <3>6
    <2>4. ASSUME NEW n \in DOMAIN ast, NEW e \in Failure, FailEntering(n, e) \/ FailLeaving(n, e)
          PROVE  outcome = "walking" /\ running' < running
      BY <2>4 DEF FailEntering, FailLeaving, Calling, Leaving, Fail, Failure, Exception,
                  Undefined
    <2>5. ASSUME NullChild \/ UnhandledKind \/ CleanUp
          PROVE  outcome = "walking" /\ running' < running
      BY <2>5 DEF NullChild, UnhandledKind, CleanUp, Calling, Fail
    <2>6. ASSUME NEW e \in Failure, FailOutside(e)
          PROVE  outcome = "walking" /\ running' < running
      BY <2>6 DEF FailOutside, Fail, Failure, Exception, Undefined
    <2> HIDE DEF running, nodes, depth
    <2> QED
      BY <2>1, <2>2, <2>3, <2>4, <2>5, <2>6 DEF WalkNext
  <1> HIDE DEF running, nodes, depth
  <1>5. Below(<<running', nodes', depth', ChildrenAhead'>>,
              <<running, nodes, depth, ChildrenAhead>>)
    BY <1>1, <1>4, BelowFour
  <1> QED
    BY <1>2, <1>5

(***************************************************************************)
(* For every tree and every visitor, each step of a walk leaves less to    *)
(* do, in an order without endless descents: a walk cannot go on for ever. *)
(* That it does not stop in the middle either is what WalkTerminates adds. *)
(***************************************************************************)
THEOREM WalkIsBounded == WalkSafety => WalkShrinks
  <1>1. /\ WalkTypeOK /\ InDocument /\ WorkCounts /\ WorkCounts' /\ [WalkNext]_walkerVars
        => [Below(WalkWork', WalkWork)]_walkerVars
    BY WorkStep
  <1> QED
    BY <1>1, WorkIsCounted, WalkTypeCorrect, WalkStaysInDocument, PTL DEF WalkSafety,
                                                                          WalkShrinks

=============================================================================
