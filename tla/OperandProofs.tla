--------------------------- MODULE OperandProofs ---------------------------
(***************************************************************************)
(* Proofs about the values on valueStack_: when operands are nodes that    *)
(* leave a value, every operation finds the values of its operands on top  *)
(* of the stack, takes these and no others, and never finds the stack      *)
(* empty; and which values no operation takes, and are left at the end.    *)
(***************************************************************************)
EXTENDS CodeGenProofs, FiniteSetTheorems

OperatorSets == {OperatorKind, OperatorKind \ {"Return"}}

-----------------------------------------------------------------------------
(* The open operations                                                     *)

LEMMA OperatorKinds ==
    ASSUME NEW K \in OperatorSets
    PROVE  /\ "Binary" \in K /\ "AssignVariable" \in K
           /\ K \subseteq {"Binary", "AssignVariable", "Return"}
           /\ ValueKind \cap InnerKind = {"Binary", "AssignVariable"}
           /\ "Return" \notin ValueKind
  BY DEF OperatorSets, OperatorKind, ValueKind, InnerKind, LeafKind

(***************************************************************************)
(* The innermost operation has all its operands' values on top.            *)
(***************************************************************************)
LEMMA TopInPlace ==
    ASSUME TypeOK, InDocument, Len(entryHeight) = Len(calls), calls # <<>>,
           NEW K \in OperatorSets, PlacedIn(K), CallKind(Len(calls)) \in K
    PROVE  /\ Top.node \in DOMAIN ast /\ Top.next \in Nat /\ Top.next >= 1
           /\ entryHeight[Len(calls)] \in Nat
           /\ Len(valueStack) = entryHeight[Len(calls)] + Top.next - 1
           /\ \A j \in 1 .. (Top.next - 1) :
                 /\ ast[Top.node].kids[j] # Null
                 /\ TypeAt(ast, ast[Top.node].kids[j]) # Undefined
                 /\ valueStack[entryHeight[Len(calls)] + j].from = ast[Top.node].kids[j]
  <1>1. /\ Len(calls) \in DOMAIN calls /\ Top.node \in DOMAIN ast
        /\ Top.next \in Nat /\ Top.next >= 1
    BY TopFrame DEF TypeOK
  <1>2. InPlace(Len(calls)) /\ Top = calls[Len(calls)]
    BY <1>1 DEF PlacedIn, Top
  <1>3. entryHeight[Len(calls)] \in Nat
    <2>1. entryHeight \in Seq(Nat) /\ calls \in Seq(Frame)
      BY DEF TypeOK, WalkTypeOK
    <2>2. Len(calls) \in DOMAIN entryHeight
      BY <1>1, <2>1
    <2> QED
      BY <2>1, <2>2
  <1> QED
    BY <1>1, <1>2, <1>3 DEF InPlace, Height

(***************************************************************************)
(* An operation is open only below nodes that may be anything and above    *)
(* operations: the child it is walking is a node that leaves a value.      *)
(***************************************************************************)
LEMMA OperandOfTop ==
    ASSUME TypeOK, InDocument, NEW K \in OperatorSets, OperandsIn(K, ValueKind),
           NEW i \in DOMAIN calls, CallKind(i) \in K,
           NEW n \in DOMAIN ast, NEW j \in 1 .. Len(ast[calls[i].node].kids),
           ast[calls[i].node].kids[j] = n
    PROVE  ast[n].kind \in ValueKind
  <1>1. calls[i].node \in DOMAIN ast /\ IsTree(ast)
    BY DEF InDocument, OnPath, TypeOK, WalkTypeOK
  <1>2. j \in DOMAIN ast[calls[i].node].kids /\ n # Null
    BY <1>1, NodeType DEF Null
  <1> QED
    BY <1>1, <1>2 DEF OperandsIn, CallKind

-----------------------------------------------------------------------------
(* Steps                                                                   *)

LEMMA AdvancedFrames ==
    ASSUME TypeOK, calls' = Returned(calls)
    PROVE  /\ Len(calls') = Len(calls)
           /\ DOMAIN calls' = 1 .. Len(calls) /\ DOMAIN calls = 1 .. Len(calls)
           /\ \A i \in 1 .. Len(calls) :
                 /\ calls'[i].node = calls[i].node
                 /\ calls'[i].next = IF i = Len(calls) THEN calls[i].next + 1
                                                       ELSE calls[i].next
  <1>1. calls \in Seq(Frame)
    BY DEF TypeOK, WalkTypeOK
  <1>2. Returned(calls) \in Seq(Frame) /\ Len(Returned(calls)) = Len(calls)
    BY <1>1, ReturnedFrames
  <1>3. \A i \in 1 .. Len(calls) :
           /\ Returned(calls)[i].node = calls[i].node
           /\ Returned(calls)[i].next = IF i = Len(calls) THEN calls[i].next + 1
                                                         ELSE calls[i].next
    BY <1>1, ReturnedFrames
  <1>4. /\ DOMAIN calls = 1 .. Len(calls)
        /\ DOMAIN Returned(calls) = 1 .. Len(Returned(calls))
    BY <1>1, <1>2, LenProperties
  <1> QED
    BY <1>2, <1>3, <1>4

(***************************************************************************)
(* A node is entered.                                                      *)
(***************************************************************************)
LEMMA EnterPlaced ==
    ASSUME TypeOK, InDocument, Len(entryHeight) = Len(calls),
           NEW K \in OperatorSets, OperandsIn(K, ValueKind), PlacedIn(K),
           NEW n \in DOMAIN ast, Enter(n),
           entryHeight' = Append(entryHeight, Len(valueStack)),
           valueStack' = valueStack
    PROVE  PlacedIn(K)' /\ Len(entryHeight') = Len(calls')
  <1> DEFINE f == [node |-> n, next |-> 1]
             L == Len(calls)
             h == Len(valueStack)
  <1>1. /\ calls \in Seq(Frame) /\ entryHeight \in Seq(Nat) /\ h \in Nat
        /\ n \in Nat /\ n # 0 /\ IsTree(ast)
    BY NodeType DEF TypeOK, WalkTypeOK
  <1>2. /\ Calling /\ n = Argument /\ n # Null /\ ast[n].kind \in InnerKind
        /\ calls' = Append(calls, f) /\ ast' = ast
    BY DEF Enter
  <1>3. f \in Frame /\ f.node = n /\ f.next = 1
    BY <1>1 DEF Frame, Null
  <1> HIDE DEF f
  <1>4. /\ Len(calls') = L + 1 /\ L \in Nat
        /\ \A i \in 1 .. L : calls'[i] = calls[i]
        /\ calls'[L + 1] = f
        /\ DOMAIN calls = 1 .. L /\ DOMAIN calls' = 1 .. (L + 1)
    BY <1>1, <1>2, <1>3
  <1>5. /\ Len(entryHeight') = L + 1
        /\ \A i \in 1 .. L : entryHeight'[i] = entryHeight[i] /\ entryHeight[i] \in Nat
        /\ entryHeight'[L + 1] = h
    BY <1>1, <1>4
  <1>6. ASSUME NEW i \in 1 .. L, CallKind(i) \in K
        PROVE  ast[n].kind \in K /\ entryHeight[i] <= h /\ CallKind(L) \in K
    <2>1. L \in 1 .. L /\ calls # <<>>
      BY <1>4
    <2>2. CallKind(L) \in K /\ entryHeight[i] <= entryHeight[L]
      BY <1>4, <1>6, <2>1 DEF PlacedIn
    <2>3. /\ entryHeight[L] \in Nat /\ Top.next \in Nat /\ Top.next >= 1
          /\ h = entryHeight[L] + Top.next - 1 /\ Top.node \in DOMAIN ast
      BY <2>1, <2>2, TopInPlace
    <2>4. entryHeight[i] <= h
      BY <1>5, <2>2, <2>3
    <2>5. /\ Top.next \in 1 .. Len(ast[calls[L].node].kids) /\ Top = calls[L]
          /\ ast[calls[L].node].kids[Top.next] = n
      <3>1. Top.next <= Len(ast[Top.node].kids) /\ n = ast[Top.node].kids[Top.next]
        BY <1>2, <2>1 DEF Calling, Argument
      <3>2. Len(ast[Top.node].kids) \in Nat
        BY <1>1, <2>3, NodeType
      <3> QED
        BY <2>3, <3>1, <3>2 DEF Top
    <2>6. ast[n].kind \in ValueKind
      BY <1>4, <2>1, <2>2, <2>5, OperandOfTop
    <2> QED
      BY <1>2, <2>2, <2>4, <2>6, OperatorKinds
  <1>7. /\ \A i \in 1 .. L : CallKind(i)' = CallKind(i)
        /\ \A i : i = L + 1 => CallKind(i)' = ast[n].kind
    <2>1. ASSUME NEW i \in 1 .. L
          PROVE  CallKind(i)' = CallKind(i)
      <3>1. calls'[i] = calls[i]
        BY <1>4
      <3> QED
        BY <1>2, <3>1 DEF CallKind
    <2>2. ASSUME NEW i, i = L + 1
          PROVE  CallKind(i)' = ast[n].kind
      BY <2>2, <1>2, <1>3, <1>4 DEF CallKind
    <2> QED
      BY <2>1, <2>2
  <1>8. ASSUME NEW i \in 1 .. (L + 1), NEW j \in 1 .. (L + 1), i <= j, CallKind(i)' \in K
        PROVE  CallKind(j)' \in K /\ entryHeight'[i] <= entryHeight'[j]
    <2>1. CASE j \in 1 .. L
      <3>1. i \in 1 .. L
        BY <1>8, <2>1
      <3> QED
        BY <1>4, <1>5, <1>7, <1>8, <2>1, <3>1 DEF PlacedIn
    <2>2. CASE i \in 1 .. L /\ j = L + 1
      <3>1. CallKind(i) \in K
        BY <1>7, <1>8, <2>2
      <3>2. ast[n].kind \in K /\ entryHeight[i] <= h
        BY <1>6, <2>2, <3>1
      <3> QED
        BY <1>5, <1>7, <2>2, <3>2
    <2>3. CASE i = L + 1
      <3>1. j = i
        BY <1>4, <1>8, <2>3
      <3> QED
        BY <1>1, <1>5, <1>8, <2>3, <3>1
    <2> QED
      BY <1>4, <2>1, <2>2, <2>3
  <1>9. ASSUME NEW i \in 1 .. (L + 1), CallKind(i)' \in K
        PROVE  InPlace(i)'
    <2>1. CASE i \in 1 .. L
      <3>1. InPlace(i) /\ calls'[i] = calls[i] /\ entryHeight'[i] = entryHeight[i]
        BY <1>4, <1>5, <1>7, <1>9, <2>1 DEF PlacedIn
      <3>2. Height(i)' = Height(i)
        <4>1. CASE i = L
          BY <1>4, <1>5, <4>1 DEF Height
        <4>2. CASE i # L
          <5>1. i + 1 \in 1 .. L
            BY <1>4, <2>1, <4>2
          <5> QED
            BY <1>4, <1>5, <2>1, <4>2, <5>1 DEF Height
        <4> QED
          BY <4>1, <4>2
      <3> QED
        BY <1>2, <3>1, <3>2 DEF InPlace
    <2>2. CASE i = L + 1
      <3>1. Height(i)' = h /\ calls'[i].next = 1 /\ entryHeight'[i] = h
        BY <1>3, <1>4, <1>5, <2>2 DEF Height
      <3>2. 1 .. (calls'[i].next - 1) = {}
        BY <3>1
      <3> QED
        BY <1>1, <3>1, <3>2 DEF InPlace
    <2> QED
      BY <1>4, <2>1, <2>2
  <1>10. DOMAIN calls' = 1 .. (L + 1)
    BY <1>4
  <1> QED
    BY <1>4, <1>5, <1>8, <1>9, <1>10 DEF PlacedIn

(***************************************************************************)
(* A node has been walked and has left its value on top of the first H     *)
(* values, of which its parent, the M-th activation, goes on.              *)
(***************************************************************************)
Produces(K, M, H, n) ==
    /\ ast' = ast
    /\ M \in Nat /\ M <= Len(calls)
    /\ Len(calls') = M /\ DOMAIN calls' = 1 .. M
    /\ \A i \in 1 .. M :
          /\ calls'[i].node = calls[i].node
          /\ calls'[i].next = IF i = M THEN calls[i].next + 1 ELSE calls[i].next
    /\ \A i \in 1 .. M : entryHeight'[i] = entryHeight[i]
    /\ H \in Nat /\ Len(valueStack') = H + 1
    /\ \A p \in 1 .. H : valueStack'[p] = valueStack[p]
    /\ valueStack'[H + 1].from = n
    /\ M > 0 /\ CallKind(M) \in K =>
          /\ H = entryHeight[M] + calls[M].next - 1
          /\ ast[calls[M].node].kids[calls[M].next] = n
          /\ n # Null /\ TypeAt(ast, n) # Undefined

LEMMA ProducedPlaced ==
    ASSUME TypeOK, Len(entryHeight) = Len(calls),
           NEW K \in OperatorSets, PlacedIn(K), NEW M, NEW H, NEW n, Produces(K, M, H, n)
    PROVE  PlacedIn(K)'
  <1> SUFFICES
        ASSUME ast' = ast, M \in Nat, M <= Len(calls),
               Len(calls') = M, DOMAIN calls' = 1 .. M,
               \A i \in 1 .. M :
                  /\ calls'[i].node = calls[i].node
                  /\ calls'[i].next = IF i = M THEN calls[i].next + 1 ELSE calls[i].next,
               \A i \in 1 .. M : entryHeight'[i] = entryHeight[i],
               H \in Nat, Len(valueStack') = H + 1,
               \A p \in 1 .. H : valueStack'[p] = valueStack[p],
               valueStack'[H + 1].from = n,
               M > 0 /\ CallKind(M) \in K =>
                  /\ H = entryHeight[M] + calls[M].next - 1
                  /\ ast[calls[M].node].kids[calls[M].next] = n
                  /\ n # Null /\ TypeAt(ast, n) # Undefined
        PROVE  PlacedIn(K)'
    BY DEF Produces
  <1>1. /\ DOMAIN calls = 1 .. Len(calls) /\ Len(calls) \in Nat
        /\ \A i \in 1 .. M : /\ i \in DOMAIN calls
                             /\ calls[i].next \in Nat /\ calls[i].next >= 1
                             /\ entryHeight[i] \in Nat
    <2>1. calls \in Seq(Frame) /\ entryHeight \in Seq(Nat)
      BY DEF TypeOK, WalkTypeOK
    <2>2. DOMAIN calls = 1 .. Len(calls) /\ Len(calls) \in Nat /\ DOMAIN entryHeight = 1 .. Len(calls)
      BY <2>1
    <2>3. ASSUME NEW i \in 1 .. M
          PROVE  /\ i \in DOMAIN calls
                 /\ calls[i].next \in Nat /\ calls[i].next >= 1
                 /\ entryHeight[i] \in Nat
      <3>1. i \in 1 .. Len(calls)
        BY <2>2
      <3>2. calls[i] \in Frame /\ entryHeight[i] \in Nat
        BY <2>1, <2>2, <3>1
      <3> QED
        BY <2>2, <3>1, <3>2 DEF Frame
    <2> QED
      BY <2>2, <2>3
  <1>2. ASSUME NEW i \in 1 .. M
        PROVE  CallKind(i)' = CallKind(i)
    BY DEF CallKind
  <1>3. ASSUME NEW i \in 1 .. M, NEW j \in 1 .. M, i <= j, CallKind(i)' \in K
        PROVE  CallKind(j)' \in K /\ entryHeight'[i] <= entryHeight'[j]
    BY <1>1, <1>2, <1>3 DEF PlacedIn
  <1>4. ASSUME NEW i \in 1 .. M, CallKind(i)' \in K
        PROVE  InPlace(i)'
    <2> DEFINE kids == ast[calls[i].node].kids
    <2>1. CallKind(i) \in K /\ InPlace(i) /\ M > 0 /\ M \in 1 .. M
      BY <1>1, <1>2, <1>4 DEF PlacedIn
    <2>2. CallKind(M) \in K /\ entryHeight[i] <= entryHeight[M]
      <3>1. i \in DOMAIN calls /\ M \in DOMAIN calls /\ i <= M
        BY <1>1, <2>1
      <3> QED
        BY <2>1, <3>1, Zenon DEF PlacedIn
    <2>3. /\ H = entryHeight[M] + calls[M].next - 1
          /\ ast[calls[M].node].kids[calls[M].next] = n
          /\ n # Null /\ TypeAt(ast, n) # Undefined
      BY <2>1, <2>2
    <2>4. ASSUME NEW j \in 1 .. (calls[i].next - 1), entryHeight[i] + j <= H
          PROVE  /\ kids[j] # Null /\ TypeAt(ast, kids[j]) # Undefined
                 /\ valueStack'[entryHeight[i] + j].from = kids[j]
      <3>1. entryHeight[i] + j \in 1 .. H
        BY <1>1, <2>4
      <3> QED
        BY <2>1, <3>1 DEF InPlace
    <2>5. CASE i # M
      <3>1. i + 1 \in 1 .. M /\ i # Len(calls) /\ i + 1 <= M
        BY <2>5
      <3>2. Height(i) = entryHeight[i + 1] /\ Height(i)' = entryHeight[i + 1]
        BY <2>5, <3>1 DEF Height
      <3>3. CallKind(i + 1) \in K /\ entryHeight[i + 1] <= entryHeight[M]
        <4>1. i + 1 \in DOMAIN calls /\ M \in DOMAIN calls /\ i <= i + 1
          BY <1>1, <2>1, <3>1
        <4>2. CallKind(i + 1) \in K
          BY <1>1, <2>1, <4>1 DEF PlacedIn
        <4> QED
          BY <3>1, <4>1, <4>2 DEF PlacedIn
      <3>4. entryHeight[i + 1] = entryHeight[i] + calls[i].next - 1
        BY <2>1, <3>2 DEF InPlace
      <3>5. entryHeight[i + 1] <= H
        <4>1. /\ entryHeight[M] \in Nat /\ calls[M].next \in Nat /\ calls[M].next >= 1
              /\ entryHeight[i + 1] \in Nat
          BY <1>1, <2>1, <3>1
        <4>2. entryHeight[M] <= H
          BY <2>3, <4>1
        <4> QED
          BY <3>3, <4>1, <4>2
      <3>6. ASSUME NEW j \in 1 .. (calls[i].next - 1)
            PROVE  entryHeight[i] + j <= H
        <4>1. entryHeight[i] \in Nat /\ calls[i].next \in Nat
          BY <1>1
        <4>2. entryHeight[i] + j <= entryHeight[i + 1] /\ entryHeight[i + 1] \in Nat
          BY <3>4, <4>1
        <4> QED
          BY <3>5, <4>1, <4>2
      <3>7. calls'[i].next = calls[i].next /\ calls'[i].node = calls[i].node
            /\ entryHeight'[i] = entryHeight[i]
        BY <2>5
      <3>8. \A j \in 1 .. (calls[i].next - 1) :
               /\ kids[j] # Null /\ TypeAt(ast, kids[j]) # Undefined
               /\ valueStack'[entryHeight[i] + j].from = kids[j]
        BY <2>4, <3>6
      <3> QED
        BY <3>2, <3>4, <3>7, <3>8 DEF InPlace
    <2>6. CASE i = M
      <3>1. Height(i)' = H + 1 /\ calls'[i].next = calls[i].next + 1
            /\ calls'[i].node = calls[i].node /\ entryHeight'[i] = entryHeight[i]
        BY <2>6 DEF Height
      <3>2. Height(i)' = entryHeight'[i] + calls'[i].next - 1
        BY <1>1, <2>3, <2>6, <3>1
      <3>3. ASSUME NEW j \in 1 .. (calls'[i].next - 1)
            PROVE  /\ kids[j] # Null /\ TypeAt(ast, kids[j]) # Undefined
                   /\ valueStack'[entryHeight[i] + j].from = kids[j]
        <4>1. CASE j = calls[i].next
          <5>1. entryHeight[i] + j = H + 1
            BY <1>1, <2>3, <2>6, <4>1
          <5> QED
            BY <2>3, <2>6, <4>1, <5>1
        <4>2. CASE j # calls[i].next
          <5>1. /\ calls[i].next \in Nat /\ calls[i].next >= 1 /\ entryHeight[i] \in Nat
                /\ calls'[i].next - 1 = calls[i].next
            BY <1>1, <3>1
          <5>2. j \in 1 .. (calls[i].next - 1)
            BY <3>1, <4>2, <5>1
          <5>3. entryHeight[i] + j <= H
            BY <2>3, <2>6, <5>1, <5>2
          <5> QED
            BY <2>4, <5>2, <5>3
        <4> QED
          BY <4>1, <4>2
      <3> QED
        BY <3>1, <3>2, <3>3 DEF InPlace
    <2> QED
      BY <2>5, <2>6
  <1> QED
    BY <1>3, <1>4 DEF PlacedIn

(***************************************************************************)
(* What is left after a node that is not an operand: no operation is open. *)
(***************************************************************************)
LEMMA NothingPlaced ==
    ASSUME ast' = ast, NEW K, NEW M \in Nat, DOMAIN calls' = 1 .. M,
           \A i \in 1 .. M : calls'[i].node = calls[i].node /\ CallKind(i) \notin K
    PROVE  PlacedIn(K)'
  <1>1. ASSUME NEW i \in 1 .. M
        PROVE  CallKind(i)' \notin K
    BY DEF CallKind
  <1> QED
    BY <1>1 DEF PlacedIn

(***************************************************************************)
(* A leaf has been visited.                                                *)
(***************************************************************************)
LEMMA LeafPlaced ==
    ASSUME TypeOK, InDocument, Len(entryHeight) = Len(calls),
           NEW K \in OperatorSets, OperandsIn(K, ValueKind), PlacedIn(K),
           NEW n \in DOMAIN ast, VisitLeaf(n), entryHeight' = entryHeight,
           TypeAt(ast, n) # Undefined,
           NEW v \in Value, v.from = n, valueStack' = Append(valueStack, v)
    PROVE  PlacedIn(K)'
  <1> DEFINE L == Len(calls)
             h == Len(valueStack)
  <1>1. /\ Calling /\ n = Argument /\ n # Null /\ ast[n].kind \in LeafKind
        /\ calls' = Returned(calls) /\ ast' = ast
    BY DEF VisitLeaf
  <1>2. calls \in Seq(Frame) /\ valueStack \in Seq(Value) /\ L \in Nat /\ h \in Nat /\ IsTree(ast)
    BY DEF TypeOK, WalkTypeOK
  <1>3. /\ Len(calls') = L /\ DOMAIN calls' = 1 .. L /\ DOMAIN calls = 1 .. L
        /\ \A i \in 1 .. L :
              /\ calls'[i].node = calls[i].node
              /\ calls'[i].next = IF i = L THEN calls[i].next + 1 ELSE calls[i].next
    BY <1>1, AdvancedFrames
  <1>4. /\ Len(valueStack') = h + 1 /\ valueStack'[h + 1].from = n
        /\ \A p \in 1 .. h : valueStack'[p] = valueStack[p]
    BY <1>2
  <1>5. ASSUME L > 0, CallKind(L) \in K
        PROVE  /\ h = entryHeight[L] + calls[L].next - 1
               /\ ast[calls[L].node].kids[calls[L].next] = n
    <2>1. calls # <<>> /\ Top = calls[L]
      BY <1>2, <1>5 DEF Top
    <2>2. h = entryHeight[L] + Top.next - 1
      BY <1>5, <2>1, TopInPlace
    <2>3. n = ast[Top.node].kids[Top.next]
      BY <1>1, <2>1 DEF Argument
    <2> QED
      BY <2>1, <2>2, <2>3
  <1>7. \A i \in 1 .. L : entryHeight'[i] = entryHeight[i]
    OBVIOUS
  <1>8. L <= Len(calls)
    BY <1>2
  <1>9. L > 0 /\ CallKind(L) \in K =>
           /\ h = entryHeight[L] + calls[L].next - 1
           /\ ast[calls[L].node].kids[calls[L].next] = n
           /\ n # Null /\ TypeAt(ast, n) # Undefined
    BY <1>1, <1>5
  <1> HIDE DEF L, h
  <1> QED
    <2>1. Produces(K, L, h, n)
      BY <1>1, <1>2, <1>3, <1>4, <1>7, <1>8, <1>9 DEF Produces
    <2> QED
      BY <2>1, ProducedPlaced

(***************************************************************************)
(* The walker's stack when a node is left.                                 *)
(***************************************************************************)
LEMMA LeaveFrames ==
    ASSUME TypeOK, InDocument, NEW n \in DOMAIN ast, Leave(n)
    PROVE  /\ calls # <<>> /\ Len(calls) \in Nat /\ Len(calls) >= 1
           /\ DOMAIN calls = 1 .. Len(calls)
           /\ Top.node = n /\ Top = calls[Len(calls)] /\ Top.next = Len(ast[n].kids) + 1
           /\ ast' = ast /\ outcome' = outcome /\ n # Null
           /\ Len(calls') = Len(calls) - 1 /\ DOMAIN calls' = 1 .. (Len(calls) - 1)
           /\ \A i \in 1 .. (Len(calls) - 1) :
                 /\ calls'[i].node = calls[i].node
                 /\ calls'[i].next = IF i = Len(calls) - 1 THEN calls[i].next + 1
                                                           ELSE calls[i].next
           /\ Len(calls) - 1 > 0 =>
                 LET c == calls[Len(calls) - 1] IN
                 c.next \in 1 .. Len(ast[c.node].kids) /\ ast[c.node].kids[c.next] = n
  <1> DEFINE L  == Len(calls)
             cs == SubSeq(calls, 1, Len(calls) - 1)
  <1>1. /\ calls # <<>> /\ n = Top.node /\ Top.next > Len(ast[n].kids)
        /\ calls' = Returned(cs) /\ ast' = ast /\ outcome' = outcome
    BY DEF Leave, Leaving
  <1>2. calls \in Seq(Frame) /\ WalkTypeOK /\ IsTree(ast)
    BY DEF TypeOK, WalkTypeOK
  <1>3. /\ L \in Nat /\ L >= 1 /\ DOMAIN calls = 1 .. L /\ n \in Nat /\ n # Null
        /\ Top = calls[L] /\ Top.next = Len(ast[n].kids) + 1
    <2>1. L \in Nat /\ L >= 1 /\ DOMAIN calls = 1 .. L /\ Top = calls[L]
      BY <1>1, <1>2, TopFrame DEF Top
    <2>2. Top.next = Len(ast[n].kids) + 1
      BY <1>1, <1>2, TopFrame
    <2>3. n \in Nat /\ n # Null
      BY <1>2, NodeType DEF Null
    <2> QED
      BY <2>1, <2>2, <2>3
  <1>4. /\ cs \in Seq(Frame) /\ Len(cs) = L - 1
        /\ \A i \in 1 .. (L - 1) : cs[i] = calls[i]
    BY <1>1, <1>2, PoppedFrames
  <1> HIDE DEF cs
  <1>5. /\ Len(calls') = L - 1 /\ DOMAIN calls' = 1 .. (L - 1)
        /\ \A i \in 1 .. (L - 1) :
              /\ calls'[i].node = calls[i].node
              /\ calls'[i].next = IF i = L - 1 THEN calls[i].next + 1 ELSE calls[i].next
    <2>1. Returned(cs) \in Seq(Frame) /\ Len(Returned(cs)) = L - 1
      BY <1>4, ReturnedFrames
    <2>2. \A i \in 1 .. Len(cs) :
             /\ Returned(cs)[i].node = cs[i].node
             /\ Returned(cs)[i].next = IF i = Len(cs) THEN cs[i].next + 1 ELSE cs[i].next
      BY <1>4, ReturnedFrames
    <2> QED
      BY <1>1, <1>4, <2>1, <2>2
  <1>6. ASSUME L - 1 > 0
        PROVE  LET c == calls[L - 1] IN
               c.next \in 1 .. Len(ast[c.node].kids) /\ ast[c.node].kids[c.next] = n
    <2>1. L - 1 \in DOMAIN calls /\ L - 1 < Len(calls) /\ (L - 1) + 1 = L
      BY <1>3, <1>6
    <2>2. OnPath(L - 1)
      BY <2>1 DEF InDocument
    <2>3. /\ calls[L - 1].node \in DOMAIN ast
          /\ calls[L - 1].next \in 1 .. (Len(ast[calls[L - 1].node].kids) + 1)
          /\ calls[L - 1].next <= Len(ast[calls[L - 1].node].kids)
          /\ ast[calls[L - 1].node].kids[calls[L - 1].next] = calls[L].node
      BY <2>1, <2>2 DEF OnPath
    <2>4. Len(ast[calls[L - 1].node].kids) \in Nat
      BY <1>2, <2>3, NodeType
    <2> QED
      BY <1>1, <1>3, <2>3, <2>4
  <1> QED
    BY <1>1, <1>3, <1>5, <1>6

(***************************************************************************)
(* A node that is no operand is left: then no operation is open around it. *)
(***************************************************************************)
LEMMA OtherPlaced ==
    ASSUME TypeOK, InDocument, Len(entryHeight) = Len(calls),
           NEW K \in OperatorSets, OperandsIn(K, ValueKind), PlacedIn(K),
           NEW n \in DOMAIN ast, Leave(n), ast[n].kind \notin ValueKind
    PROVE  PlacedIn(K)'
  <1> DEFINE M == Len(calls) - 1
  <1>1. /\ M \in Nat /\ DOMAIN calls = 1 .. (M + 1) /\ ast' = ast /\ DOMAIN calls' = 1 .. M
        /\ \A i \in 1 .. M : calls'[i].node = calls[i].node
    BY LeaveFrames
  <1>2. M > 0 => LET c == calls[M] IN
                 c.next \in 1 .. Len(ast[c.node].kids) /\ ast[c.node].kids[c.next] = n
    BY LeaveFrames
  <1> HIDE DEF M
  <1>3. ASSUME NEW i \in 1 .. M, CallKind(i) \in K
        PROVE  FALSE
    <2>1. i \in DOMAIN calls /\ M \in DOMAIN calls /\ i <= M /\ M > 0
      BY <1>1
    <2>2. CallKind(M) \in K
      BY <1>3, <2>1, Zenon DEF PlacedIn
    <2> QED
      BY <1>2, <2>1, <2>2, OperandOfTop
  <1> QED
    BY <1>1, <1>3, NothingPlaced

(***************************************************************************)
(* An operation that leaves a value takes its operands' values off the     *)
(* stack and puts its own in their place.                                  *)
(***************************************************************************)
LEMMA OperationPlaced ==
    ASSUME TypeOK, InDocument, Len(entryHeight) = Len(calls),
           NEW K \in OperatorSets, OperandsIn(K, ValueKind), PlacedIn(K),
           NEW n \in DOMAIN ast, Leave(n), ast[n].kind \in {"Binary", "AssignVariable"},
           TypeAt(ast, n) # Undefined,
           entryHeight' = Dropped(entryHeight, 1),
           NEW k \in Nat, k = Len(ast[n].kids), k <= Len(valueStack),
           NEW v \in Value, v.from = n, valueStack' = Append(Dropped(valueStack, k), v)
    PROVE  PlacedIn(K)'
  <1> DEFINE L == Len(calls)
             M == Len(calls) - 1
             H == Len(valueStack) - k
             values == Dropped(valueStack, k)
  <1>1. /\ calls # <<>> /\ L \in Nat /\ L >= 1 /\ DOMAIN calls = 1 .. L
        /\ Top.node = n /\ Top = calls[L] /\ Top.next = Len(ast[n].kids) + 1
        /\ ast' = ast /\ n # Null /\ Len(calls') = M /\ DOMAIN calls' = 1 .. M
        /\ \A i \in 1 .. M :
              /\ calls'[i].node = calls[i].node
              /\ calls'[i].next = IF i = M THEN calls[i].next + 1 ELSE calls[i].next
    BY LeaveFrames
  <1>2. M > 0 => LET c == calls[M] IN
                 c.next \in 1 .. Len(ast[c.node].kids) /\ ast[c.node].kids[c.next] = n
    BY LeaveFrames
  <1>3. /\ valueStack \in Seq(Value) /\ Len(valueStack) \in Nat /\ H \in Nat
        /\ H <= Len(valueStack) /\ entryHeight \in Seq(Nat)
    BY DEF TypeOK
  <1>4. /\ Len(valueStack') = H + 1 /\ valueStack'[H + 1].from = n
        /\ \A p \in 1 .. H : valueStack'[p] = valueStack[p]
    <2>1. values = SubSeq(valueStack, 1, H)
      BY DEF Dropped
    <2>2. valueStack' = Append(values, v)
      OBVIOUS
    <2> HIDE DEF values, H
    <2>3. /\ values \in Seq(Value) /\ Len(values) = H
          /\ \A p \in 1 .. H : values[p] = valueStack[p]
      BY <1>3, <2>1, Prefix
    <2>4. /\ Append(values, v)[Len(values) + 1] = v
          /\ \A p \in 1 .. Len(values) : Append(values, v)[p] = values[p]
      BY <2>3
    <2>5. Len(Append(values, v)) = Len(values) + 1
      BY <2>3
    <2> QED
      BY <2>2, <2>3, <2>4, <2>5
  <1>5. M \in Nat /\ M <= Len(calls)
    BY <1>1
  <1>6. \A i \in 1 .. M : entryHeight'[i] = entryHeight[i]
    <2>1. M <= Len(entryHeight)
      BY <1>5
    <2>2. entryHeight' = SubSeq(entryHeight, 1, M)
      BY DEF Dropped
    <2> HIDE DEF M
    <2> QED
      BY <1>3, <1>5, <2>1, <2>2, Prefix
  <1>7. ASSUME M > 0, CallKind(M) \in K
        PROVE  /\ H = entryHeight[M] + calls[M].next - 1
               /\ ast[calls[M].node].kids[calls[M].next] = n
    <2>1. M \in DOMAIN calls /\ L \in DOMAIN calls /\ M <= L /\ M # Len(calls) /\ M + 1 = L
      BY <1>1, <1>5, <1>7
    <2>2. CallKind(L) \in K /\ InPlace(M)
      BY <1>7, <2>1, Zenon DEF PlacedIn
    <2>3. entryHeight[L] = entryHeight[M] + calls[M].next - 1
      BY <2>1, <2>2 DEF InPlace, Height
    <2>4. entryHeight[L] \in Nat /\ Len(valueStack) = entryHeight[L] + Top.next - 1
      BY <1>1, <2>2, TopInPlace
    <2>5. H = entryHeight[L]
      BY <1>1, <1>3, <2>4, SMTT(30)
    <2>6. ast[calls[M].node].kids[calls[M].next] = n
      BY <1>2, <1>7
    <2> QED
      BY <2>3, <2>5, <2>6
  <1>8. M > 0 /\ CallKind(M) \in K =>
           /\ H = entryHeight[M] + calls[M].next - 1
           /\ ast[calls[M].node].kids[calls[M].next] = n
           /\ n # Null /\ TypeAt(ast, n) # Undefined
    BY <1>1, <1>7
  <1>9. /\ Len(calls') = M /\ DOMAIN calls' = 1 .. M /\ ast' = ast
        /\ \A i \in 1 .. M :
              /\ calls'[i].node = calls[i].node
              /\ calls'[i].next = IF i = M THEN calls[i].next + 1 ELSE calls[i].next
    BY <1>1
  <1>10. H \in Nat
    BY <1>3
  <1> HIDE DEF L, M, H, values
  <1> QED
    <2>1. Produces(K, M, H, n)
      BY <1>4, <1>5, <1>6, <1>8, <1>9, <1>10 DEF Produces
    <2> QED
      BY <2>1, ProducedPlaced

(***************************************************************************)
(* A Conditional's null branch is skipped: no operation is open around it. *)
(***************************************************************************)
LEMMA SkipPlaced ==
    ASSUME TypeOK, InDocument, NEW K \in OperatorSets, PlacedIn(K), SkipBranch
    PROVE  PlacedIn(K)' /\ Len(calls') = Len(calls)
  <1>1. /\ calls # <<>> /\ ast[Top.node].kind = "Conditional"
        /\ calls' = Returned(calls) /\ ast' = ast
    BY DEF SkipBranch, NullBranch
  <1>2. /\ calls \in Seq(Frame) /\ Len(calls) \in Nat /\ Len(calls) \in DOMAIN calls
        /\ DOMAIN calls = 1 .. Len(calls)
    BY <1>1, TopFrame DEF TypeOK, WalkTypeOK
  <1>3. /\ DOMAIN calls' = 1 .. Len(calls) /\ Len(calls') = Len(calls)
        /\ \A i \in 1 .. Len(calls) : calls'[i].node = calls[i].node
    BY <1>1, AdvancedFrames
  <1>4. CallKind(Len(calls)) \notin K
    BY <1>1, OperatorKinds DEF CallKind, Top
  <1>5. ASSUME NEW i \in 1 .. Len(calls), CallKind(i) \in K
        PROVE  FALSE
    <2>1. i \in DOMAIN calls /\ i <= Len(calls)
      BY <1>2
    <2> QED
      BY <1>2, <1>4, <1>5, <2>1, Zenon DEF PlacedIn
  <1> QED
    BY <1>1, <1>2, <1>3, <1>5, NothingPlaced

-----------------------------------------------------------------------------
(* The handlers                                                            *)

LEMMA PushedValue ==
    ASSUME NEW s \in Seq(Value), NEW v, Append(s, v) \in Seq(Value)
    PROVE  v \in Value
  <1>1. Append(s, v)[Len(s) + 1] = v /\ Len(s) + 1 \in DOMAIN Append(s, v)
    OBVIOUS
  <1> QED
    BY <1>1

(***************************************************************************)
(* What a handler does to the stacks on the way down, and on the way up.   *)
(***************************************************************************)
LEMMA VisitingValues ==
    ASSUME TypeOK, TypeOK', NEW n \in DOMAIN ast, Visiting(n)
    PROVE  \/ /\ Enter(n) /\ entryHeight' = Append(entryHeight, Len(valueStack))
              /\ valueStack' = valueStack
           \/ /\ VisitLeaf(n) /\ entryHeight' = entryHeight /\ TypeAt(ast, n) # Undefined
              /\ \E v \in Value : v.from = n /\ valueStack' = Append(valueStack, v)
           \/ /\ outcome' \in Failure /\ calls' = <<>> /\ ast' = ast
              /\ outcome' = Undefined => ast[n].lacks
  <1>0. /\ valueStack \in Seq(Value) /\ valueStack' \in Seq(Value)
        /\ DataTypeRule(ast, n) /\ n # Null
    <2>1. valueStack \in Seq(Value) /\ valueStack' \in Seq(Value) /\ IsTree(ast)
      BY DEF TypeOK, WalkTypeOK
    <2>2. n # Null
      BY <2>1, NodeType DEF Null
    <2> QED
      BY <2>1, <2>2 DEF IsTree
  <1>1. CASE VisitingModule(n) \/ VisitingFunction(n) \/ VisitingBlock(n) \/ VisitingOther(n)
    BY <1>1 DEF VisitingModule, VisitingFunction, VisitingBlock, VisitingOther, VisitingNode
  <1>2. CASE VisitingFunctionThrows(n) \/ VisitingBlockThrows(n) \/ VisitingBlockRepeats(n)
             \/ VisitVariableRefThrows(n) \/ VisitingUndefined(n)
    <2>1. "UnhandledSwitchCase" # Undefined /\ "InvalidStateException" # Undefined
      BY DEF Undefined
    <2> QED
      BY <1>2, <2>1, FailureNames
         DEF VisitingFunctionThrows, VisitingBlockThrows, VisitingBlockRepeats,
             VisitVariableRefThrows, VisitingUndefined, FailEntering, Fail
  <1>3. CASE VisitLiteral(n)
    <2> DEFINE v == [from |-> n, type |-> TypeFor(ast[n].dataType)]
    <2>1. /\ VisitLeaf(n) /\ entryHeight' = entryHeight
          /\ valueStack' = Append(valueStack, v) /\ v.from = n
      BY <1>3 DEF VisitLiteral
    <2> HIDE DEF v
    <2>2. TypeAt(ast, n) # Undefined
      BY <1>0, <1>3 DEF VisitLiteral, DataTypeRule, TypeAt, Undefined
    <2> QED
      BY <1>0, <2>1, <2>2, PushedValue
  <1>4. CASE VisitVariableRef(n)
    <2>1. PICK t : valueStack' = Append(valueStack, [from |-> n, type |-> t])
      BY <1>4 DEF VisitVariableRef
    <2> DEFINE v == [from |-> n, type |-> t]
    <2>2. /\ VisitLeaf(n) /\ entryHeight' = entryHeight
          /\ valueStack' = Append(valueStack, v) /\ v.from = n
      BY <1>4, <2>1 DEF VisitVariableRef
    <2> HIDE DEF v
    <2>3. TypeAt(ast, n) # Undefined
      BY <1>0, <1>4 DEF VisitVariableRef, DataTypeRule, DataType, TypeAt, Undefined
    <2> QED
      BY <1>0, <2>2, <2>3, PushedValue
  <1> QED
    BY <1>1, <1>2, <1>3, <1>4 DEF Visiting

LEMMA VisitedValues ==
    ASSUME TypeOK, TypeOK', NEW n \in DOMAIN ast, Visited(n)
    PROVE  \/ /\ Leave(n) /\ entryHeight' = Dropped(entryHeight, 1)
              /\ ast[n].kind \notin ValueKind
           \/ /\ Leave(n) /\ entryHeight' = Dropped(entryHeight, 1)
              /\ ast[n].kind \in {"Binary", "AssignVariable"} /\ TypeAt(ast, n) # Undefined
              /\ Len(ast[n].kids) <= Len(valueStack)
              /\ \E v \in Value :
                    /\ v.from = n
                    /\ valueStack' = Append(Dropped(valueStack, Len(ast[n].kids)), v)
           \/ VisitedUndefined(n) /\ calls' = <<>> /\ ast' = ast
           \/ outcome' \in Failure \ {Undefined} /\ calls' = <<>> /\ ast' = ast
  <1>0. /\ valueStack \in Seq(Value) /\ valueStack' \in Seq(Value) /\ Len(valueStack) \in Nat
        /\ Dropped(valueStack, 1) \in Seq(Value) /\ Dropped(valueStack, 2) \in Seq(Value)
        /\ IsTree(ast) /\ n # Null
    <2>1. valueStack \in Seq(Value) /\ valueStack' \in Seq(Value) /\ IsTree(ast)
      BY DEF TypeOK, WalkTypeOK
    <2>2. n # Null
      BY <2>1, NodeType DEF Null
    <2>3. 1 \in Nat /\ 2 \in Nat /\ Len(valueStack) \in Nat
      BY <2>1
    <2>4. Dropped(valueStack, 1) \in Seq(Value) /\ Dropped(valueStack, 2) \in Seq(Value)
      BY <2>1, <2>3, DroppedType
    <2> QED
      BY <2>1, <2>2, <2>3, <2>4
  <1>1. Members(ast, n) /\ DataTypeRule(ast, n)
    BY <1>0 DEF IsTree
  <1>2. CASE VisitedModule(n) \/ VisitedBlock(n) \/ VisitedOther(n) \/ VisitedReturn(n)
    BY <1>2 DEF VisitedModule, VisitedBlock, VisitedOther, VisitedReturn, VisitedNode,
                ValueKind, LeafKind
  <1>3. CASE VisitedModuleAsserts(n) \/ VisitedAssignVariableThrows(n)
             \/ VisitedBinaryMismatch(n) \/ VisitedBinaryThrows(n) \/ VisitedReturnAsserts(n)
    <2>1. /\ "UnhandledSwitchCase" # Undefined /\ "InvalidStateException" # Undefined
          /\ "CompileException" # Undefined /\ "DebugAssertionFailedException" # Undefined
      BY DEF Undefined
    <2> QED
      BY <1>3, <2>1, FailureNames
         DEF VisitedModuleAsserts, VisitedAssignVariableThrows, VisitedBinaryMismatch,
             VisitedBinaryThrows, VisitedReturnAsserts, FailLeaving, Fail
  <1>4. CASE VisitedUndefined(n)
    BY <1>4 DEF VisitedUndefined, FailLeaving, Fail
  <1>5. CASE VisitedAssignVariable(n)
    <2> DEFINE v == [from |-> n, type |-> "void"]
    <2>1. /\ Leave(n) /\ ast[n].kind = "AssignVariable" /\ ~ast[n].lacks
          /\ Len(valueStack) >= 1
          /\ VisitedNode(n, Append(Dropped(valueStack, 1), v)) /\ v.from = n
      BY <1>5 DEF VisitedAssignVariable
    <2> HIDE DEF v
    <2>2. /\ entryHeight' = Dropped(entryHeight, 1)
          /\ valueStack' = Append(Dropped(valueStack, 1), v)
      BY <2>1 DEF VisitedNode
    <2>3. Len(ast[n].kids) = 1
      BY <1>1, <2>1 DEF Members
    <2>4. TypeAt(ast, n) # Undefined
      BY <1>0, <1>1, <2>1 DEF DataTypeRule, TypeAt, DataType, Undefined
    <2>5. v \in Value
      BY <1>0, <2>2, PushedValue
    <2> QED
      BY <2>1, <2>2, <2>3, <2>4, <2>5
  <1>6. CASE VisitedBinary(n)
    <2> DEFINE v == [from |-> n, type |-> TopValue(1).type]
    <2>1. /\ Leave(n) /\ ast[n].kind = "Binary" /\ Len(valueStack) >= 2 /\ TypesDefined(n)
          /\ VisitedNode(n, Append(Dropped(valueStack, 2), v)) /\ v.from = n
      BY <1>6 DEF VisitedBinary
    <2> HIDE DEF v
    <2>2. /\ entryHeight' = Dropped(entryHeight, 1)
          /\ valueStack' = Append(Dropped(valueStack, 2), v)
      BY <2>1 DEF VisitedNode
    <2>3. Len(ast[n].kids) = 2
      BY <1>1, <2>1 DEF Members
    <2>4. TypeAt(ast, n) # Undefined
      BY <1>0, <1>1, <2>1 DEF DataTypeRule, TypeAt, TypesDefined
    <2>5. v \in Value
      BY <1>0, <2>2, PushedValue
    <2> QED
      BY <2>1, <2>2, <2>3, <2>4, <2>5
  <1> QED
    BY <1>2, <1>3, <1>4, <1>5, <1>6 DEF Visited

LEMMA WalkingStep ==
    ASSUME Next
    PROVE  outcome = "walking"
  <1>1. ASSUME NEW n \in DOMAIN ast, Visiting(n)
        PROVE  outcome = "walking"
    BY <1>1
       DEF Visiting, VisitingModule, VisitingFunction, VisitingFunctionThrows,
           VisitingBlock, VisitingBlockThrows, VisitingBlockRepeats, VisitingOther,
           VisitingUndefined, VisitLiteral,
           VisitVariableRef, VisitVariableRefThrows, Enter, VisitLeaf, FailEntering, Calling
  <1>2. ASSUME NEW n \in DOMAIN ast, Visited(n)
        PROVE  outcome = "walking"
    BY <1>2
       DEF Visited, VisitedModule, VisitedModuleAsserts, VisitedBlock, VisitedOther,
           VisitedAssignVariable, VisitedAssignVariableThrows, VisitedBinary,
           VisitedBinaryMismatch, VisitedBinaryThrows, VisitedReturn,
           VisitedReturnAsserts, VisitedUndefined, Leave, FailLeaving, Leaving
  <1>3. CASE WalkerAlone
    BY <1>3 DEF WalkerAlone, SkipBranch, NullChild, UnhandledKind, CleanUp, Calling
  <1> QED
    BY <1>1, <1>2, <1>3 DEF Next

LEMMA FailureEnds == \A e \in Failure : e # "walking" /\ e # "done"
  BY DEF Failure, Exception, Undefined

(***************************************************************************)
(* A walk that fails leaves no operation open.                             *)
(***************************************************************************)
LEMMA FailedPlaced ==
    ASSUME calls' = <<>>, ast' = ast, NEW K
    PROVE  PlacedIn(K)'
  BY DEF PlacedIn

LEMMA PlacedStep ==
    ASSUME TypeOK, TypeOK', InDocument, OperandsInPlace, Next,
           NEW K \in OperatorSets, OperandsIn(K, ValueKind)'
    PROVE  PlacedIn(K)'
  <1>0. /\ Len(entryHeight) = Len(calls)
        /\ OperandsIn(K, ValueKind) => PlacedIn(K)
    BY WalkingStep DEF OperandsInPlace, OperatorSets
  <1>1. ASSUME ast' = ast
        PROVE  OperandsIn(K, ValueKind) /\ PlacedIn(K)
    BY <1>0, <1>1 DEF OperandsIn
  <1>2. ASSUME NEW n \in DOMAIN ast, Visiting(n)
        PROVE  PlacedIn(K)'
    <2>1. CASE /\ Enter(n) /\ entryHeight' = Append(entryHeight, Len(valueStack))
               /\ valueStack' = valueStack
      <3>1. ast' = ast
        BY <2>1 DEF Enter
      <3> QED
        BY <1>0, <1>1, <2>1, <3>1, EnterPlaced
    <2>2. CASE /\ VisitLeaf(n) /\ entryHeight' = entryHeight /\ TypeAt(ast, n) # Undefined
               /\ \E v \in Value : v.from = n /\ valueStack' = Append(valueStack, v)
      <3>1. ast' = ast
        BY <2>2 DEF VisitLeaf
      <3> QED
        BY <1>0, <1>1, <2>2, <3>1, LeafPlaced
    <2> QED
      BY <1>1, <1>2, <2>1, <2>2, VisitingValues, FailedPlaced
  <1>3. ASSUME NEW n \in DOMAIN ast, Visited(n)
        PROVE  PlacedIn(K)'
    <2>1. CASE Leave(n)
      <3>1. OperandsIn(K, ValueKind) /\ PlacedIn(K) /\ outcome' \notin Failure /\ ~VisitedUndefined(n)
        <4>1. ast' = ast /\ outcome' = "walking"
          BY <2>1 DEF Leave, Leaving
        <4>2. outcome' \notin Failure
          BY <4>1, FailureEnds
        <4>3. ~VisitedUndefined(n)
          BY <4>2, FailureNames DEF VisitedUndefined, FailLeaving, Fail
        <4> QED
          BY <1>1, <4>1, <4>2, <4>3
      <3>2. CASE ast[n].kind \notin ValueKind
        BY <1>0, <2>1, <3>1, <3>2, OtherPlaced
      <3>3. CASE ast[n].kind \in ValueKind
        <4>1. /\ entryHeight' = Dropped(entryHeight, 1)
              /\ ast[n].kind \in {"Binary", "AssignVariable"} /\ TypeAt(ast, n) # Undefined
              /\ Len(ast[n].kids) <= Len(valueStack)
              /\ \E v \in Value :
                    /\ v.from = n
                    /\ valueStack' = Append(Dropped(valueStack, Len(ast[n].kids)), v)
          BY <1>3, <3>1, <3>3, VisitedValues
        <4>2. Len(ast[n].kids) \in Nat
          BY NodeType DEF TypeOK, WalkTypeOK
        <4> QED
          BY <1>0, <2>1, <3>1, <4>1, <4>2, OperationPlaced
      <3> QED
        BY <3>2, <3>3
    <2> QED
      BY <1>3, <2>1, VisitedValues, FailedPlaced
  <1>4. CASE WalkerAlone
    <2>1. CASE SkipBranch
      <3>1. ast' = ast
        BY <2>1 DEF SkipBranch
      <3> QED
        BY <1>1, <2>1, <3>1, SkipPlaced
    <2>2. CASE NullChild \/ UnhandledKind \/ CleanUp
      BY <2>2, FailedPlaced DEF NullChild, UnhandledKind, CleanUp, Fail
    <2> QED
      BY <1>4, <2>1, <2>2 DEF WalkerAlone
  <1> QED
    BY <1>2, <1>3, <1>4 DEF Next

(***************************************************************************)
(* entryHeight has one entry for each open node.                           *)
(***************************************************************************)
LEMMA HeightsStep ==
    ASSUME TypeOK, TypeOK', InDocument, OperandsInPlace, Next, outcome' = "walking"
    PROVE  Len(entryHeight') = Len(calls')
  <1>0. /\ Len(entryHeight) = Len(calls) /\ outcome' \notin Failure
        /\ entryHeight \in Seq(Nat) /\ calls \in Seq(Frame)
    BY WalkingStep, FailureEnds DEF OperandsInPlace, TypeOK, WalkTypeOK
  <1>1. ASSUME NEW n \in DOMAIN ast, Visiting(n)
        PROVE  Len(entryHeight') = Len(calls')
    <2>1. CASE Enter(n) /\ entryHeight' = Append(entryHeight, Len(valueStack))
      <3>1. calls' = Append(calls, [node |-> n, next |-> 1])
        BY <2>1 DEF Enter
      <3> QED
        BY <1>0, <2>1, <3>1
    <2>2. CASE VisitLeaf(n) /\ entryHeight' = entryHeight
      <3>1. calls' = Returned(calls)
        BY <2>2 DEF VisitLeaf
      <3> QED
        BY <1>0, <2>2, <3>1, AdvancedFrames
    <2> QED
      BY <1>0, <1>1, <2>1, <2>2, VisitingValues
  <1>2. ASSUME NEW n \in DOMAIN ast, Visited(n)
        PROVE  Len(entryHeight') = Len(calls')
    <2>1. ~VisitedUndefined(n)
      BY <1>0, FailureNames DEF VisitedUndefined, FailLeaving, Fail
    <2>2. Leave(n) /\ entryHeight' = Dropped(entryHeight, 1)
      BY <1>0, <1>2, <2>1, VisitedValues
    <2>3. Len(calls) \in Nat /\ Len(calls) >= 1 /\ Len(calls') = Len(calls) - 1
      BY <2>2, LeaveFrames
    <2>4. Len(calls) - 1 \in Nat /\ Len(calls) - 1 <= Len(entryHeight)
      BY <1>0, <2>3
    <2> QED
      BY <1>0, <2>2, <2>3, <2>4, Prefix DEF Dropped
  <1>3. CASE WalkerAlone
    <2>1. SkipBranch
      BY <1>0, <1>3, FailureEnds DEF WalkerAlone, NullChild, UnhandledKind, CleanUp, Fail
    <2>2. entryHeight' = entryHeight /\ calls' = Returned(calls)
      BY <1>3, <2>1 DEF WalkerAlone, visitorVars, SkipBranch
    <2> QED
      BY <1>0, <2>2, AdvancedFrames
  <1> QED
    BY <1>1, <1>2, <1>3 DEF Next

LEMMA OperandsStep ==
    TypeOK /\ TypeOK' /\ InDocument /\ OperandsInPlace /\ [Next]_vars => OperandsInPlace'
  <1> SUFFICES ASSUME TypeOK, TypeOK', InDocument, OperandsInPlace, [Next]_vars
               PROVE  OperandsInPlace'
    OBVIOUS
  <1>1. CASE Next
    BY <1>1, PlacedStep, HeightsStep DEF OperandsInPlace, OperatorSets
  <1>2. CASE UNCHANGED vars
    <2>1. /\ ast' = ast /\ calls' = calls /\ outcome' = outcome
          /\ valueStack' = valueStack /\ entryHeight' = entryHeight
      BY <1>2 DEF vars, walkerVars, visitorVars
    <2>2. ASSUME NEW K
          PROVE  /\ OperandsIn(K, ValueKind)' = OperandsIn(K, ValueKind)
                 /\ PlacedIn(K)' = PlacedIn(K)
      <3>1. \A i : InPlace(i)' = InPlace(i) /\ CallKind(i)' = CallKind(i)
        BY <2>1 DEF InPlace, Height, TypeAt, CallKind
      <3> QED
        BY <2>1, <3>1 DEF OperandsIn, PlacedIn
    <2> QED
      BY <2>1, <2>2 DEF OperandsInPlace
  <1> QED
    BY <1>1, <1>2

(***************************************************************************)
(* For every tree whose operations have operands that leave a value, the   *)
(* values above the entry height of an open operation are those of the     *)
(* operands it has walked, in order, and the open nodes inside it are all  *)
(* operations: what valueStack_ has to be for the pops to be right.        *)
(***************************************************************************)
THEOREM OperandsAreInPlace == Safety => []OperandsInPlace
  <1>1. Init => OperandsInPlace
    <2>1. ASSUME Init
          PROVE  OperandsInPlace
      <3>1. calls = <<>> /\ entryHeight = <<>>
        BY <2>1 DEF Init, WalkInit
      <3> QED
        BY <3>1 DEF OperandsInPlace, PlacedIn
    <2> QED
      BY <2>1
  <1> QED
    BY <1>1, OperandsStep, TypeCorrect, CompilationStaysInDocument, PTL DEF Safety

-----------------------------------------------------------------------------
(* What the pops find                                                      *)

(***************************************************************************)
(* An operation that is left has the values of all its operands on top.    *)
(***************************************************************************)
LEMMA OperandsOnTop ==
    ASSUME TypeOK, InDocument, OperandsInPlace, NEW K \in OperatorSets,
           OperandsIn(K, ValueKind), NEW n \in DOMAIN ast, Leaving(n), ast[n].kind \in K
    PROVE  /\ Len(ast[n].kids) \in Nat /\ Len(ast[n].kids) <= Len(valueStack)
           /\ \A j \in 1 .. Len(ast[n].kids) :
                 /\ ast[n].kids[j] # Null /\ TypeAt(ast, ast[n].kids[j]) # Undefined
                 /\ TopValue(Len(ast[n].kids) - j).from = ast[n].kids[j]
  <1> DEFINE m == Len(ast[n].kids)
             e == entryHeight[Len(calls)]
             h == Len(valueStack)
  <1>1. calls # <<>> /\ n = Top.node /\ Top.next > m /\ outcome = "walking"
    BY DEF Leaving
  <1>2. Len(entryHeight) = Len(calls) /\ PlacedIn(K) /\ CallKind(Len(calls)) \in K
    BY <1>1 DEF OperandsInPlace, OperatorSets, CallKind, Top
  <1>3. /\ e \in Nat /\ h = e + Top.next - 1
        /\ \A j \in 1 .. (Top.next - 1) :
              /\ ast[n].kids[j] # Null /\ TypeAt(ast, ast[n].kids[j]) # Undefined
              /\ valueStack[e + j].from = ast[n].kids[j]
    BY <1>1, <1>2, TopInPlace
  <1>4. m \in Nat /\ Top.next = m + 1
    <2>1. Top.next \in 1 .. (m + 1) /\ m \in Nat
      BY <1>1, TopFrame DEF TypeOK
    <2> QED
      BY <1>1, <2>1
  <1>5. h = e + m /\ m <= h
    BY <1>3, <1>4
  <1>6. ASSUME NEW j \in 1 .. m
        PROVE  /\ ast[n].kids[j] # Null /\ TypeAt(ast, ast[n].kids[j]) # Undefined
               /\ TopValue(m - j).from = ast[n].kids[j]
    <2>1. j \in 1 .. (Top.next - 1) /\ h - (m - j) = e + j
      BY <1>3, <1>4, <1>5
    <2> QED
      BY <1>3, <2>1 DEF TopValue
  <1> QED
    BY <1>4, <1>5, <1>6

(***************************************************************************)
(* So no pop is made of an empty stack, no type asked of a missing or      *)
(* empty operand, and no null Variable followed.  A Return has nothing to  *)
(* fear of its operand when the assertion before its pop is compiled in.   *)
(***************************************************************************)
LEMMA NothingUndefined ==
    ASSUME TypeOK, InDocument, OperandsInPlace,
           NEW K \in OperatorSets, OperandsIn(K, ValueKind), LlastDebug \/ "Return" \in K,
           NothingLacks, NEW n \in DOMAIN ast
    PROVE  ~VisitedUndefined(n)
  <1> SUFFICES ASSUME VisitedUndefined(n)
               PROVE  FALSE
    OBVIOUS
  <1>1. ReadsNothing(n) /\ Leaving(n) /\ ~ast[n].lacks
    BY DEF VisitedUndefined, FailLeaving, NothingLacks
  <1>2. ast[n].kind \in K
    BY <1>1, OperatorKinds DEF ReadsNothing
  <1>3. /\ Len(ast[n].kids) \in Nat /\ Len(ast[n].kids) <= Len(valueStack)
        /\ \A j \in 1 .. Len(ast[n].kids) : TypeAt(ast, ast[n].kids[j]) # Undefined
    BY <1>1, <1>2, OperandsOnTop
  <1>4. Members(ast, n) /\ valueStack \in Seq(Value)
    BY DEF TypeOK, WalkTypeOK, IsTree
  <1>5. CASE ast[n].kind = "Binary"
    <2>1. Len(ast[n].kids) = 2
      BY <1>4, <1>5 DEF Members
    <2>2. TypesDefined(n) /\ Len(valueStack) >= 2
      BY <1>3, <1>4, <2>1 DEF TypesDefined
    <2> QED
      BY <1>1, <1>4, <1>5, <2>2 DEF ReadsNothing
  <1>6. CASE ast[n].kind \in {"AssignVariable", "Return"}
    <2>1. Len(ast[n].kids) = 1
      BY <1>4, <1>6 DEF Members
    <2>2. valueStack # <<>>
      BY <1>3, <2>1
    <2> QED
      BY <1>1, <1>6, <2>2 DEF ReadsNothing
  <1> QED
    BY <1>1, <1>5, <1>6 DEF ReadsNothing

LEMMA DefinedStep ==
    TypeOK /\ TypeOK' /\ InDocument /\ OperandsInPlace /\ NoUndefinedBehaviour /\ [Next]_vars
      => NoUndefinedBehaviour'
  <1> DEFINE K == IF LlastDebug THEN OperatorKind \ {"Return"} ELSE OperatorKind
  <1> SUFFICES ASSUME TypeOK, TypeOK', InDocument, OperandsInPlace, NoUndefinedBehaviour,
                      [Next]_vars, OperandsIn(K, ValueKind)', NothingLacks'
               PROVE  outcome' # Undefined
    BY DEF NoUndefinedBehaviour
  <1>1. /\ K \in OperatorSets /\ (LlastDebug \/ "Return" \in K)
        /\ "walking" # Undefined /\ "done" # Undefined
        /\ "InvalidArgumentException" # Undefined /\ "UnhandledSwitchCase" # Undefined
    BY LlastDebugAssumption DEF OperatorSets, OperatorKind, Undefined
  <1>2. ASSUME ast' = ast
        PROVE  OperandsIn(K, ValueKind) /\ NothingLacks
    BY <1>2 DEF OperandsIn, NothingLacks
  <1> HIDE DEF K
  <1>3. CASE Next
    <2>1. outcome = "walking"
      BY <1>3, WalkingStep
    <2>2. ASSUME NEW n \in DOMAIN ast, Visiting(n)
          PROVE  outcome' # Undefined
      <3>1. CASE outcome' \in Failure /\ ast' = ast /\ (outcome' = Undefined => ast[n].lacks)
        BY <1>2, <3>1 DEF NothingLacks
      <3> QED
        BY <1>1, <2>1, <2>2, <3>1, VisitingValues DEF Enter, VisitLeaf
    <2>3. ASSUME NEW n \in DOMAIN ast, Visited(n)
          PROVE  outcome' # Undefined
      <3>1. CASE VisitedUndefined(n) /\ ast' = ast
        BY <1>1, <1>2, <3>1, NothingUndefined
      <3> QED
        BY <1>1, <2>1, <2>3, <3>1, VisitedValues DEF Leave
    <2>4. CASE WalkerAlone
      BY <1>1, <2>1, <2>4
         DEF WalkerAlone, SkipBranch, NullChild, UnhandledKind, CleanUp, Fail
    <2> QED
      BY <1>3, <2>2, <2>3, <2>4 DEF Next
  <1>4. CASE UNCHANGED vars
    <2>1. ast' = ast /\ outcome' = outcome
      BY <1>4 DEF vars, walkerVars
    <2> QED
      BY <1>2, <2>1 DEF NoUndefinedBehaviour, K
  <1> QED
    BY <1>3, <1>4

(***************************************************************************)
(* For every tree whose operations have operands that leave a value and    *)
(* whose nodes have their Variables and Scopes, no handler reads an empty  *)
(* valueStack_, asks an empty Block for its type or follows a null pointer.*)
(***************************************************************************)
THEOREM BehaviourIsDefined == Safety => []NoUndefinedBehaviour
  <1>1. Init => NoUndefinedBehaviour
    BY DEF Init, WalkInit, NoUndefinedBehaviour, Undefined
  <1> QED
    BY <1>1, DefinedStep, TypeCorrect, CompilationStaysInDocument, OperandsAreInPlace, PTL
       DEF Safety

-----------------------------------------------------------------------------
(* What the instructions take                                              *)

TakesOwn(i) ==
    ast[i.from].kind \in OperatorKind =>
       [a \in DOMAIN i.args |-> i.args[a].from] = ast[i.from].kids

LEMMA OwnTaken ==
    ASSUME TypeOK, InDocument, OperandsInPlace, ValueOperands,
           NEW n \in DOMAIN ast, Leaving(n), ast[n].kind \in OperatorKind,
           NEW i \in Instruction, i.from = n, Len(i.args) = Len(ast[n].kids),
           \A j \in 1 .. Len(ast[n].kids) : i.args[j] = TopValue(Len(ast[n].kids) - j)
    PROVE  TakesOwn(i)
  <1> DEFINE m == Len(ast[n].kids)
             f == [a \in DOMAIN i.args |-> i.args[a].from]
             k == ast[n].kids
  <1>1. \A j \in 1 .. m : TopValue(m - j).from = ast[n].kids[j]
    BY OperandsOnTop DEF OperatorSets, ValueOperands
  <1>2. k \in Seq(Nat) /\ DOMAIN k = 1 .. m
    BY NodeType DEF TypeOK, WalkTypeOK
  <1>3. i.args \in Seq(Value) /\ DOMAIN i.args = 1 .. m
    <2>1. i.args \in Seq(Value)
      BY DEF Instruction
    <2> QED
      BY <2>1
  <1>4. DOMAIN f = 1 .. m /\ \A j \in 1 .. m : f[j] = k[j]
    BY <1>1, <1>3
  <1>5. f = [j \in 1 .. m |-> f[j]] /\ k = [j \in 1 .. m |-> k[j]]
    <2>1. k = [j \in DOMAIN k |-> k[j]]
      BY <1>2, LenProperties
    <2> QED
      BY <1>2, <1>3, <2>1
  <1>6. f = k
    <2> HIDE DEF f, k
    <2> QED
      BY <1>4, <1>5
  <1> QED
    BY <1>6 DEF TakesOwn

(***************************************************************************)
(* The instructions emitted on the way down are not those of operations;   *)
(* those emitted on the way up are one for each operation.                 *)
(***************************************************************************)
LEMMA VisitingTakes ==
    ASSUME TypeOK, TypeOK', NEW n \in DOMAIN ast, Visiting(n)
    PROVE  /\ ast' = ast
           /\ \/ block' = block \/ block' = <<>>
              \/ \E i : /\ block' = Append(block, i) /\ i.from = n
                        /\ ast[n].kind \notin OperatorKind
  <1>1. ASSUME NEW S, Allocate(n, S)
        PROVE  \E i : block' = Append(block, i) /\ i.from = n
    <2> DEFINE i == [op |-> "alloca", from |-> n, type |-> "void", args |-> <<>>,
                     slots |-> {[block |-> n, name |-> x] : x \in S}]
    <2>1. block' = Append(block, i)
      BY <1>1 DEF Allocate, Emit
    <2>2. i.from = n
      OBVIOUS
    <2> QED
      BY <2>1, <2>2
  <1>2. CASE VisitingBlock(n) \/ VisitingBlockThrows(n) \/ VisitingBlockRepeats(n)
    BY <1>1, <1>2
       DEF VisitingBlock, VisitingBlockThrows, VisitingBlockRepeats, Enter, FailEntering, Fail,
           OperatorKind
  <1>3. CASE VisitVariableRef(n)
    <2>1. /\ ast' = ast /\ ast[n].kind \notin OperatorKind
          /\ \E t, slots : Emit("load", n, t, <<>>, slots)
      BY <1>3 DEF VisitVariableRef, VisitLeaf, OperatorKind
    <2>2. PICK t, slots : Emit("load", n, t, <<>>, slots)
      BY <2>1
    <2> DEFINE i == [op |-> "load", from |-> n, type |-> t, args |-> <<>>, slots |-> slots]
    <2>3. block' = Append(block, i)
      BY <2>2 DEF Emit
    <2>4. i.from = n
      OBVIOUS
    <2> QED
      BY <2>1, <2>3, <2>4
  <1>4. CASE VisitingModule(n) \/ VisitingFunction(n) \/ VisitingFunctionThrows(n)
             \/ VisitingOther(n) \/ VisitLiteral(n) \/ VisitVariableRefThrows(n)
             \/ VisitingUndefined(n)
    BY <1>4 DEF VisitingModule, VisitingFunction, VisitingFunctionThrows, VisitingOther,
                VisitLiteral, VisitVariableRefThrows, VisitingUndefined, Enter, VisitLeaf,
                FailEntering, Fail
  <1> QED
    BY <1>2, <1>3, <1>4 DEF Visiting

LEMMA VisitedTakes ==
    ASSUME TypeOK, TypeOK', NEW n \in DOMAIN ast, Visited(n)
    PROVE  /\ ast' = ast
           /\ \/ block' = block
              \/ \E i \in Instruction :
                    /\ block' = Append(block, i) /\ i.from = n
                    /\ Leaving(n) /\ ast[n].kind \in OperatorKind
                    /\ Len(i.args) = Len(ast[n].kids)
                    /\ \A j \in 1 .. Len(ast[n].kids) :
                          i.args[j] = TopValue(Len(ast[n].kids) - j)
  <1>1. ASSUME NEW i, block' = Append(block, i)
        PROVE  i \in Instruction
    <2>1. block \in Seq(Instruction) /\ block' \in Seq(Instruction)
      BY DEF TypeOK
    <2>2. Append(block, i)[Len(block) + 1] = i /\ Len(block) + 1 \in DOMAIN Append(block, i)
      BY <2>1
    <2> QED
      BY <1>1, <2>1, <2>2
  <1>2. Members(ast, n)
    BY DEF TypeOK, WalkTypeOK, IsTree
  <1>3. CASE VisitedBinary(n)
    <2>1. PICK op, t : /\ Leave(n) /\ ast[n].kind = "Binary"
                       /\ Emit(op, n, t, <<TopValue(1), TopValue(0)>>, {})
      BY <1>3 DEF VisitedBinary
    <2> DEFINE i == [op |-> op, from |-> n, type |-> t,
                     args |-> <<TopValue(1), TopValue(0)>>, slots |-> {}]
    <2>2. block' = Append(block, i) /\ ast' = ast /\ Leaving(n)
      BY <2>1 DEF Emit, Leave
    <2>3. i.from = n /\ Len(i.args) = 2 /\ i.args[1] = TopValue(1) /\ i.args[2] = TopValue(0)
      OBVIOUS
    <2> HIDE DEF i
    <2>4. Len(ast[n].kids) = 2 /\ ast[n].kind \in OperatorKind
      BY <1>2, <2>1 DEF Members, OperatorKind
    <2>5. \A j \in 1 .. 2 : i.args[j] = TopValue(2 - j)
      <3>1. \A j \in 1 .. 2 : (j = 1 /\ 2 - j = 1) \/ (j = 2 /\ 2 - j = 0)
        OBVIOUS
      <3> QED
        BY <2>3, <3>1
    <2> QED
      BY <1>1, <2>2, <2>3, <2>4, <2>5
  <1>4. CASE VisitedAssignVariable(n) \/ VisitedReturn(n)
    <2>1. PICK op, slots : /\ Leave(n) /\ ast[n].kind \in {"AssignVariable", "Return"}
                           /\ Emit(op, n, "void", <<TopValue(0)>>, slots)
      BY <1>4 DEF VisitedAssignVariable, VisitedReturn
    <2> DEFINE i == [op |-> op, from |-> n, type |-> "void",
                     args |-> <<TopValue(0)>>, slots |-> slots]
    <2>2. block' = Append(block, i) /\ ast' = ast /\ Leaving(n)
      BY <2>1 DEF Emit, Leave
    <2>3. i.from = n /\ Len(i.args) = 1 /\ i.args[1] = TopValue(0)
      OBVIOUS
    <2> HIDE DEF i
    <2>4. Len(ast[n].kids) = 1 /\ ast[n].kind \in OperatorKind
      BY <1>2, <2>1 DEF Members, OperatorKind
    <2>5. \A j \in 1 .. 1 : i.args[j] = TopValue(1 - j)
      <3>1. \A j \in 1 .. 1 : j = 1 /\ 1 - j = 0
        OBVIOUS
      <3> QED
        BY <2>3, <3>1
    <2> QED
      BY <1>1, <2>2, <2>3, <2>4, <2>5
  <1>5. CASE VisitedModule(n) \/ VisitedBlock(n) \/ VisitedOther(n)
    BY <1>5 DEF VisitedModule, VisitedBlock, VisitedOther, Leave
  <1>6. CASE VisitedModuleAsserts(n) \/ VisitedAssignVariableThrows(n)
             \/ VisitedBinaryMismatch(n) \/ VisitedBinaryThrows(n)
             \/ VisitedReturnAsserts(n) \/ VisitedUndefined(n)
    BY <1>6 DEF VisitedModuleAsserts, VisitedAssignVariableThrows, VisitedBinaryMismatch,
                VisitedBinaryThrows, VisitedReturnAsserts, VisitedUndefined, visitorVars,
                FailLeaving, Fail
  <1> QED
    BY <1>3, <1>4, <1>5, <1>6 DEF Visited

LEMMA OwnGrows ==
    ASSUME ValueOperands, OwnOperands, ast' = ast, block \in Seq(Instruction),
           NEW i \in Instruction, block' = Append(block, i), TakesOwn(i)
    PROVE  OwnOperands'
  <1>1. /\ DOMAIN block' = 1 .. (Len(block) + 1)
        /\ \A k \in 1 .. Len(block) : block'[k] = block[k]
        /\ block'[Len(block) + 1] = i
        /\ DOMAIN block = 1 .. Len(block) /\ Len(block) \in Nat
    BY Extended
  <1>2. ASSUME NEW k \in 1 .. (Len(block) + 1)
        PROVE  TakesOwn(block'[k])
    <2>1. CASE k \in 1 .. Len(block)
      <3>1. TakesOwn(block[k]) /\ block'[k] = block[k]
        BY <1>1, <2>1 DEF OwnOperands, TakesOwn
      <3> QED
        BY <3>1
    <2>2. CASE k = Len(block) + 1
      BY <1>1, <2>2
    <2> QED
      BY <1>1, <2>1, <2>2
  <1>3. \A k \in DOMAIN block' : TakesOwn(block[k])'
    BY <1>1, <1>2 DEF TakesOwn
  <1> QED
    BY <1>3 DEF OwnOperands, TakesOwn

LEMMA OwnStep ==
    TypeOK /\ TypeOK' /\ InDocument /\ OperandsInPlace /\ OwnOperands /\ [Next]_vars
      => OwnOperands'
  <1> SUFFICES ASSUME TypeOK, TypeOK', InDocument, OperandsInPlace, OwnOperands,
                      [Next]_vars, ValueOperands'
               PROVE  OwnOperands'
    BY DEF OwnOperands
  <1>1. block \in Seq(Instruction) /\ block' \in Seq(Instruction)
    BY DEF TypeOK
  <1>2. ASSUME ast' = ast
        PROVE  ValueOperands
    BY <1>2 DEF ValueOperands, OperandsIn
  <1>3. ASSUME ast' = ast, block' = block \/ block' = <<>>
        PROVE  OwnOperands'
    BY <1>2, <1>3 DEF OwnOperands
  <1>4. ASSUME NEW n \in DOMAIN ast, Visiting(n)
        PROVE  OwnOperands'
    <2>1. CASE block' = block \/ block' = <<>>
      BY <1>3, <1>4, <2>1, VisitingTakes
    <2>2. CASE \E i : /\ block' = Append(block, i) /\ i.from = n
                      /\ ast[n].kind \notin OperatorKind
      <3>1. PICK i : /\ block' = Append(block, i) /\ i.from = n
                     /\ ast[n].kind \notin OperatorKind
        BY <2>2
      <3>2. i \in Instruction
        <4>1. /\ Append(block, i)[Len(block) + 1] = i
              /\ Len(block) + 1 \in DOMAIN Append(block, i)
          BY <1>1
        <4> QED
          BY <1>1, <3>1, <4>1
      <3>3. TakesOwn(i) /\ ast' = ast
        BY <1>4, <3>1, VisitingTakes DEF TakesOwn
      <3> QED
        BY <1>1, <1>2, <3>1, <3>2, <3>3, OwnGrows
    <2> QED
      BY <1>4, <2>1, <2>2, VisitingTakes
  <1>5. ASSUME NEW n \in DOMAIN ast, Visited(n)
        PROVE  OwnOperands'
    <2>1. ast' = ast /\ ValueOperands
      BY <1>2, <1>5, VisitedTakes
    <2>2. CASE block' = block
      BY <1>3, <2>1, <2>2
    <2>3. CASE block' # block
      <3>1. PICK i \in Instruction :
                    /\ block' = Append(block, i) /\ i.from = n
                    /\ Leaving(n) /\ ast[n].kind \in OperatorKind
                    /\ Len(i.args) = Len(ast[n].kids)
                    /\ \A j \in 1 .. Len(ast[n].kids) :
                          i.args[j] = TopValue(Len(ast[n].kids) - j)
        BY <1>5, <2>3, VisitedTakes
      <3>2. TakesOwn(i)
        BY <2>1, <3>1, OwnTaken
      <3> QED
        BY <1>1, <2>1, <3>1, <3>2, OwnGrows
    <2> QED
      BY <2>2, <2>3
  <1>6. CASE WalkerAlone
    <2>1. block' = block /\ ast' = ast
      BY <1>6 DEF WalkerAlone, visitorVars, SkipBranch, NullChild, UnhandledKind, CleanUp, Fail
    <2> QED
      BY <1>3, <2>1
  <1>7. CASE UNCHANGED vars
    BY <1>3, <1>7 DEF vars, walkerVars, visitorVars
  <1> QED
    BY <1>4, <1>5, <1>6, <1>7 DEF Next

(***************************************************************************)
(* For every tree whose operations have operands that leave a value, the   *)
(* instruction of an operation takes the values of its own operands, in    *)
(* their order.                                                            *)
(***************************************************************************)
THEOREM OperandsAreOwn == Safety => []OwnOperands
  <1>1. Init => OwnOperands
    BY DEF Init, OwnOperands
  <1> QED
    BY <1>1, OwnStep, TypeCorrect, CompilationStaysInDocument, OperandsAreInPlace, PTL
       DEF Safety

-----------------------------------------------------------------------------
(* What remains on the stack                                               *)

(***************************************************************************)
(* A node behind the walk: one that has been visited and left.             *)
(***************************************************************************)
Behind(n) == n \in 1 .. Len(trace) /\ n \notin Open

(***************************************************************************)
(* A node behind the walk closes before one that is closing now.           *)
(***************************************************************************)
LEMMA BehindCloses ==
    ASSUME TypeOK, TypeOK', InDocument, LeftBehind, NEW n \in DOMAIN ast,
           VisitLeaf(n) \/ Leave(n), NEW m, Behind(m)
    PROVE  ClosesBefore(ast, m, n)
  <1>1. /\ WalkTypeOK /\ WalkTypeOK' /\ outcome = "walking" /\ Len(trace) \in Nat
        /\ n \in Nat /\ ast[n].last \in Nat
    BY NodeType DEF TypeOK, WalkTypeOK, VisitLeaf, Leave, Leaving, Calling
  <1>2. m \in DOMAIN ast /\ m \in Nat /\ ast[m].last \in Nat
    <2>1. m \in DOMAIN ast
      BY <1>1 DEF Behind, InDocument, WalkTypeOK, IsTree
    <2> QED
      BY <1>1, <2>1, NodeType DEF WalkTypeOK
  <1>3. /\ ast[m].last <= Len(trace)
        /\ \A o \in Open : m < o => ast[m].last < o
    BY <1>1 DEF LeftBehind, Behind
  <1>4. CASE VisitLeaf(n)
    <2>1. ast[n].last = n
      BY <1>1, <1>4, VisitLeafInDocument
    <2>2. n = Len(trace) + 1
      BY <1>1, <1>4, NextNode DEF VisitLeaf
    <2> QED
      BY <1>1, <1>2, <1>3, <2>1, <2>2 DEF ClosesBefore
  <1>5. CASE Leave(n)
    <2>1. ast[n].last = Len(trace)
      BY <1>1, <1>5, LeaveInDocument
    <2>2. n \in Open /\ n # m
      BY <1>1, <1>5, LeaveOpen DEF Behind
    <2>3. m < n => ast[m].last < n
      BY <1>3, <2>2
    <2>4. n <= ast[n].last
      BY <1>1, NodeType DEF WalkTypeOK
    <2> QED
      BY <1>1, <1>2, <1>3, <2>1, <2>2, <2>3, <2>4 DEF ClosesBefore
  <1> QED
    BY <1>4, <1>5

(***************************************************************************)
(* Of the nodes C of tree t, those that close from n on; and that h is the *)
(* largest surplus of members of U over members of B among them, for any n *)
(* in C, or 0 if there is no surplus.                                      *)
(***************************************************************************)
After(t, C, n) == {m \in C : m = n \/ ClosesBefore(t, n, m)}

Surplus(t, C, U, B, h) ==
    /\ \A n \in C :
          Cardinality(After(t, C, n) \cap U) <= h + Cardinality(After(t, C, n) \cap B)
    /\ h # 0 =>
          \E n \in C :
             Cardinality(After(t, C, n) \cap U) = h + Cardinality(After(t, C, n) \cap B)

LEMMA CountsUp ==
    ASSUME NEW A, IsFiniteSet(A), NEW c, c \notin A, NEW S
    PROVE  /\ Cardinality(A \cap S) \in Nat
           /\ Cardinality((A \cup {c}) \cap S) =
                 IF c \in S THEN Cardinality(A \cap S) + 1 ELSE Cardinality(A \cap S)
  <1>1. IsFiniteSet(A \cap S) /\ Cardinality(A \cap S) \in Nat
    BY FS_Subset, FS_CardinalityType
  <1>2. CASE c \in S
    <2>1. (A \cup {c}) \cap S = (A \cap S) \cup {c} /\ c \notin A \cap S
      BY <1>2
    <2> QED
      BY <1>1, <1>2, <2>1, FS_AddElement
  <1>3. CASE c \notin S
    <2>1. (A \cup {c}) \cap S = A \cap S
      BY <1>3
    <2> QED
      BY <1>1, <1>3, <2>1
  <1> QED
    BY <1>2, <1>3, <1>1

(***************************************************************************)
(* The surplus when one more node closes: one more for a member of U, one  *)
(* less, unless it is 0, for a member of B.                                *)
(***************************************************************************)
LEMMA SurplusGrows ==
    ASSUME NEW t, NEW C, IsFiniteSet(C), NEW c, c \notin C,
           \A n \in C : ClosesBefore(t, n, c) /\ ~ClosesBefore(t, c, n),
           NEW U, NEW B, NEW h \in Nat, Surplus(t, C, U, B, h),
           NEW k \in Nat,
           \/ c \in U /\ c \notin B /\ k = h + 1
           \/ c \notin U /\ c \in B /\ k = (IF h = 0 THEN 0 ELSE h - 1)
           \/ c \notin U /\ c \notin B /\ k = h
    PROVE  Surplus(t, C \cup {c}, U, B, k)
  <1> DEFINE D == C \cup {c}
             u(n) == Cardinality(After(t, C, n) \cap U)
             b(n) == Cardinality(After(t, C, n) \cap B)
             v(n) == Cardinality(After(t, D, n) \cap U)
             d(n) == Cardinality(After(t, D, n) \cap B)
  <1>1. ASSUME NEW n \in C
        PROVE  /\ u(n) \in Nat /\ b(n) \in Nat
               /\ v(n) = IF c \in U THEN u(n) + 1 ELSE u(n)
               /\ d(n) = IF c \in B THEN b(n) + 1 ELSE b(n)
    <2>1. After(t, D, n) = After(t, C, n) \cup {c}
      BY DEF After
    <2>2. c \notin After(t, C, n) /\ IsFiniteSet(After(t, C, n))
      <3>1. After(t, C, n) \in SUBSET C
        BY DEF After
      <3> QED
        BY <3>1, FS_Subset
    <2> DEFINE A == After(t, C, n)
    <2> HIDE DEF A
    <2>3. \A S : /\ Cardinality(A \cap S) \in Nat
                 /\ Cardinality((A \cup {c}) \cap S) =
                       IF c \in S THEN Cardinality(A \cap S) + 1 ELSE Cardinality(A \cap S)
      BY <2>2, CountsUp DEF A
    <2> QED
      BY <2>1, <2>3 DEF A
  <1>2. /\ v(c) = IF c \in U THEN 1 ELSE 0
        /\ d(c) = IF c \in B THEN 1 ELSE 0
    <2>1. After(t, D, c) = {} \cup {c}
      BY DEF After
    <2>2. IsFiniteSet({}) /\ Cardinality({}) = 0 /\ c \notin {}
      BY FS_EmptySet
    <2>3. ASSUME NEW S
          PROVE  Cardinality(After(t, D, c) \cap S) = IF c \in S THEN 1 ELSE 0
      <3>1. {} \cap S = {}
        OBVIOUS
      <3>2. Cardinality(({} \cup {c}) \cap S) =
               IF c \in S THEN Cardinality({} \cap S) + 1 ELSE Cardinality({} \cap S)
        BY <2>2, CountsUp
      <3> QED
        BY <2>1, <2>2, <3>1, <3>2
    <2> QED
      BY <2>3
  <1>3. /\ \A n \in C : u(n) <= h + b(n)
        /\ h # 0 => \E n \in C : u(n) = h + b(n)
    BY DEF Surplus
  <1> HIDE DEF u, b, v, d
  <1>4. ASSUME NEW n \in D
        PROVE  v(n) <= k + d(n)
    <2>1. CASE n \in C
      BY <1>1, <1>3, <2>1
    <2>2. CASE n = c
      BY <1>2, <2>2
    <2> QED
      BY <2>1, <2>2
  <1>5. ASSUME k # 0
        PROVE  \E n \in D : v(n) = k + d(n)
    <2>1. CASE h # 0
      <3>1. PICK n \in C : u(n) = h + b(n)
        BY <1>3, <2>1
      <3>2. v(n) = k + d(n)
        BY <1>1, <1>5, <2>1, <3>1
      <3> QED
        BY <3>2
    <2>2. CASE h = 0
      <3>1. v(c) = k + d(c)
        BY <1>2, <1>5, <2>2
      <3> QED
        BY <3>1
    <2> QED
      BY <2>1, <2>2
  <1> QED
    BY <1>4, <1>5 DEF Surplus, v, d

(***************************************************************************)
(* The nodes that have closed; and the values and Blocks of the tree that  *)
(* make and undo a surplus.                                                *)
(***************************************************************************)
Closed == {n \in 1 .. Len(trace) : n \notin Open}

UntakenNodes == {n \in DOMAIN ast : Untaken(n)}

BlockNodes == {n \in DOMAIN ast : ast[n].kind = "Block"}

(***************************************************************************)
(* The height of valueStack_ below the outermost open operation, or of the *)
(* whole stack if none is open: what is below waits for Blocks to drop it. *)
(***************************************************************************)
NoOperation(m) == \A i \in 1 .. m : CallKind(i) \notin OperatorKind

Waiting(h) ==
    \/ NoOperation(Len(calls)) /\ h = Len(valueStack)
    \/ \E i \in 1 .. Len(calls) :
          /\ CallKind(i) \in OperatorKind
          /\ NoOperation(i - 1)
          /\ h = entryHeight[i]

(***************************************************************************)
(* The inductive invariant: as many values wait as the largest surplus of  *)
(* untaken values over Blocks among the nodes closed so far.               *)
(***************************************************************************)
WaitingIsSurplus ==
    \E h \in Nat : Waiting(h) /\ Surplus(ast, Closed, UntakenNodes, BlockNodes, h)

RemainsInv ==
    ValueOperands =>
       /\ outcome \in {"walking", "done"} => WaitingIsSurplus
       /\ outcome = "DebugAssertionFailedException" => ~Balanced

(***************************************************************************)
(* Once all nodes have closed, there is a surplus just if the tree is not  *)
(* balanced.                                                               *)
(***************************************************************************)
LEMMA SurplusOfTree ==
    ASSUME IsTree(ast), NEW h \in Nat,
           Surplus(ast, DOMAIN ast, UntakenNodes, BlockNodes, h)
    PROVE  h = 0 <=> Balanced
  <1> DEFINE u(n) == Cardinality(After(ast, DOMAIN ast, n) \cap UntakenNodes)
             b(n) == Cardinality(After(ast, DOMAIN ast, n) \cap BlockNodes)
  <1>1. ASSUME NEW n \in DOMAIN ast
        PROVE  /\ Cardinality({m \in ClosingFrom(n) : Untaken(m)}) = u(n)
               /\ Cardinality({m \in ClosingFrom(n) : ast[m].kind = "Block"}) = b(n)
               /\ u(n) \in Nat /\ b(n) \in Nat
    <2>1. /\ {m \in ClosingFrom(n) : Untaken(m)} = After(ast, DOMAIN ast, n) \cap UntakenNodes
          /\ {m \in ClosingFrom(n) : ast[m].kind = "Block"}
                = After(ast, DOMAIN ast, n) \cap BlockNodes
      BY DEF ClosingFrom, After, UntakenNodes, BlockNodes
    <2>2. IsFiniteSet(DOMAIN ast)
      <3>1. DOMAIN ast = 1 .. Len(ast) /\ Len(ast) \in Nat
        BY DEF IsTree
      <3> QED
        BY <3>1, FS_Interval
    <2>3. /\ After(ast, DOMAIN ast, n) \cap UntakenNodes \in SUBSET DOMAIN ast
          /\ After(ast, DOMAIN ast, n) \cap BlockNodes \in SUBSET DOMAIN ast
      BY DEF After
    <2>4. u(n) \in Nat /\ b(n) \in Nat
      BY <2>2, <2>3, FS_Subset, FS_CardinalityType
    <2> QED
      BY <2>1, <2>4
  <1>2. /\ \A n \in DOMAIN ast : u(n) <= h + b(n)
        /\ h # 0 => \E n \in DOMAIN ast : u(n) = h + b(n)
    BY DEF Surplus
  <1> HIDE DEF u, b
  <1>3. Balanced <=> \A n \in DOMAIN ast : u(n) <= b(n)
    BY <1>1 DEF Balanced
  <1>4. \A n \in DOMAIN ast : u(n) \in Nat /\ b(n) \in Nat
    BY <1>1
  <1>5. CASE h = 0
    BY <1>2, <1>3, <1>4, <1>5
  <1>6. CASE h # 0
    <2>1. PICK n \in DOMAIN ast : u(n) = h + b(n)
      BY <1>2, <1>6
    <2>2. ~(u(n) <= b(n))
      BY <1>4, <1>6, <2>1
    <2> QED
      BY <1>3, <1>6, <2>2
  <1> QED
    BY <1>5, <1>6

(***************************************************************************)
(* A node that closes is the last to do so; entering a node closes none.   *)
(***************************************************************************)
LEMMA ClosedGrows ==
    ASSUME TypeOK, TypeOK', InDocument, LeftBehind, NEW n \in DOMAIN ast,
           VisitLeaf(n) \/ Leave(n)
    PROVE  /\ Closed' = Closed \cup {n} /\ n \notin Closed /\ IsFiniteSet(Closed)
           /\ \A m \in Closed : ClosesBefore(ast, m, n) /\ ~ClosesBefore(ast, n, m)
  <1>1. /\ WalkTypeOK /\ WalkTypeOK' /\ IsTree(ast) /\ Len(trace) \in Nat /\ n \in Nat
        /\ outcome = "walking" /\ trace \in Seq(Nat)
    BY NodeType DEF TypeOK, WalkTypeOK, VisitLeaf, Leave, Leaving, Calling
  <1>2. IsFiniteSet(Closed)
    <2>1. IsFiniteSet(1 .. Len(trace)) /\ Closed \in SUBSET (1 .. Len(trace))
      BY <1>1, FS_Interval DEF Closed
    <2> QED
      BY <2>1, FS_Subset
  <1>3. ASSUME NEW m \in Closed
        PROVE  ClosesBefore(ast, m, n) /\ ~ClosesBefore(ast, n, m)
    <2>1. Behind(m) /\ m \in DOMAIN ast
      BY <1>1 DEF Closed, Behind, InDocument, WalkTypeOK, IsTree
    <2>2. ClosesBefore(ast, m, n)
      BY <2>1, BehindCloses
    <2>3. m \in Nat /\ ast[m].last \in Nat /\ ast[n].last \in Nat
      BY <1>1, <2>1, NodeType
    <2> QED
      BY <1>1, <2>2, <2>3 DEF ClosesBefore
  <1>4. CASE VisitLeaf(n)
    <2>1. n = Len(trace) + 1 /\ n = Argument /\ trace' = Append(trace, n)
          /\ calls' = Returned(calls)
      BY <1>1, <1>4, NextNode DEF VisitLeaf
    <2>2. Len(trace') = Len(trace) + 1
      BY <1>1, <2>1
    <2>3. Open' = Open
      BY <1>1, <2>1, ReturnedOpen
    <2>4. n \notin Open
      <3>1. \A i \in DOMAIN calls : calls[i].node < n
        BY <1>1, <1>4, NextNode DEF VisitLeaf
      <3> QED
        BY <1>1, <3>1, OpenNodes
    <2> QED
      BY <1>1, <1>2, <1>3, <2>1, <2>2, <2>3, <2>4 DEF Closed
  <1>5. CASE Leave(n)
    <2>1. n \in Open /\ Open' = Open \ {n} /\ trace' = trace
      BY <1>1, <1>5, LeaveOpen DEF Leave
    <2>2. n \in 1 .. Len(trace)
      <3>1. ast[n].last = Len(trace)
        BY <1>1, <1>5, LeaveInDocument
      <3> QED
        BY <1>1, <3>1, NodeType
    <2> QED
      BY <1>2, <1>3, <2>1, <2>2 DEF Closed
  <1> QED
    BY <1>4, <1>5

LEMMA ClosedKept ==
    ASSUME TypeOK, InDocument, NEW n \in DOMAIN ast, Enter(n)
    PROVE  Closed' = Closed
  <1>1. /\ WalkTypeOK /\ Len(trace) \in Nat /\ trace \in Seq(Nat)
        /\ trace' = Append(trace, n) /\ n = Len(trace) + 1
    BY NextNode DEF TypeOK, WalkTypeOK, Enter
  <1>2. Open' = Open \cup {n} /\ Len(trace') = Len(trace) + 1
    BY <1>1, EnterOpen
  <1> QED
    BY <1>1, <1>2 DEF Closed

LEMMA SameNodes ==
    ast' = ast => UntakenNodes' = UntakenNodes /\ BlockNodes' = BlockNodes
  BY DEF UntakenNodes, BlockNodes, Untaken

(***************************************************************************)
(* The frames that are left when a node closes, and whether an operation   *)
(* takes its value.                                                        *)
(***************************************************************************)
LEMMA FramesLeft ==
    ASSUME TypeOK, InDocument, NEW n \in DOMAIN ast, VisitLeaf(n) \/ Leave(n)
    PROVE  /\ Len(calls) \in Nat /\ DOMAIN calls = 1 .. Len(calls)
           /\ Len(calls') \in Nat /\ DOMAIN calls' = 1 .. Len(calls')
           /\ VisitLeaf(n) => Len(calls') = Len(calls)
           /\ Leave(n) => Len(calls) = Len(calls') + 1 /\ calls[Len(calls)].node = n
           /\ \A i \in 1 .. Len(calls') : CallKind(i)' = CallKind(i)
           /\ ast' = ast /\ outcome' = "walking"
  <1>1. CASE VisitLeaf(n)
    <2>1. calls' = Returned(calls) /\ ast' = ast /\ outcome' = "walking"
      BY <1>1 DEF VisitLeaf, Calling
    <2>2. calls \in Seq(Frame) /\ ~Leave(n)
      <3>1. ~Leave(n)
        <4>1. Leave(n) => Top.next > Len(ast[Top.node].kids) /\ calls # <<>>
          BY DEF Leave, Leaving
        <4>2. calls # <<>> => Top.next <= Len(ast[Top.node].kids)
          BY <1>1 DEF VisitLeaf, Calling
        <4>3. calls # <<>> => Top.next \in Nat /\ Len(ast[Top.node].kids) \in Nat
          BY TopFrame DEF TypeOK
        <4> QED
          BY <4>1, <4>2, <4>3
      <3> QED
        BY <3>1 DEF TypeOK, WalkTypeOK
    <2>3. /\ Len(calls') = Len(calls) /\ Len(calls) \in Nat
          /\ DOMAIN calls' = 1 .. Len(calls) /\ DOMAIN calls = 1 .. Len(calls)
          /\ \A i \in 1 .. Len(calls) : calls'[i].node = calls[i].node
      <3>1. Len(calls) \in Nat
        BY <2>2
      <3>2. calls' = Returned(calls)
        BY <2>1
      <3> QED
        BY <3>1, <3>2, AdvancedFrames
    <2>4. \A i \in 1 .. Len(calls') : CallKind(i)' = CallKind(i)
      BY <2>1, <2>3 DEF CallKind
    <2> QED
      BY <2>1, <2>2, <2>3, <2>4
  <1>2. CASE Leave(n)
    <2>1. ~VisitLeaf(n)
      <3>1. Top.next > Len(ast[Top.node].kids) /\ calls # <<>>
        BY <1>2 DEF Leave, Leaving
      <3>2. Top.next \in Nat /\ Len(ast[Top.node].kids) \in Nat
        BY <3>1, TopFrame DEF TypeOK
      <3> QED
        BY <3>1, <3>2 DEF VisitLeaf, Calling
    <2>2. outcome' = "walking"
      BY <1>2 DEF Leave, Leaving
    <2>3. /\ Len(calls) \in Nat /\ Len(calls) >= 1 /\ DOMAIN calls = 1 .. Len(calls)
          /\ Top.node = n /\ Top = calls[Len(calls)] /\ ast' = ast
          /\ Len(calls') = Len(calls) - 1 /\ DOMAIN calls' = 1 .. (Len(calls) - 1)
          /\ \A i \in 1 .. (Len(calls) - 1) : calls'[i].node = calls[i].node
      BY <1>2, LeaveFrames
    <2>4. \A i \in 1 .. Len(calls') : CallKind(i)' = CallKind(i)
      BY <2>3 DEF CallKind
    <2>5. /\ Len(calls') \in Nat /\ DOMAIN calls' = 1 .. Len(calls')
          /\ Len(calls) = Len(calls') + 1 /\ calls[Len(calls)].node = n
      BY <2>3
    <2> QED
      BY <2>1, <2>2, <2>3, <2>4, <2>5
  <1> QED
    BY <1>1, <1>2

LEMMA UntakenHere ==
    ASSUME TypeOK, InDocument, LeftBehind, NEW n \in DOMAIN ast, VisitLeaf(n) \/ Leave(n)
    PROVE  Untaken(n) <=> ast[n].kind \in ValueKind /\ NoOperation(Len(calls'))
  <1> DEFINE L == Len(calls)
             M == Len(calls')
  <1>1. WalkTypeOK /\ L \in Nat /\ M \in Nat /\ DOMAIN calls = 1 .. L
    BY FramesLeft DEF TypeOK
  <1>2. \A i \in DOMAIN calls : calls[i].node \in DOMAIN ast
    BY DEF InDocument, OnPath
  <1>3. \A p \in DOMAIN ast :
           Encloses(ast, p, n) <=> \E i \in 1 .. M : p = calls[i].node
    <2>1. CASE VisitLeaf(n)
      <3>1. M = L /\ n = Argument /\ n # Null /\ Calling
        BY <2>1, FramesLeft DEF VisitLeaf
      <3> QED
        BY <1>1, <3>1, AroundNext, OpenNodes
    <2>2. CASE Leave(n)
      <3>1. L = M + 1 /\ calls[L].node = n /\ Leaving(n)
        BY <2>2, FramesLeft DEF Leave
      <3>2. \A i \in 1 .. M : calls[i].node # n
        <4>1. ASSUME NEW i \in 1 .. M
              PROVE  calls[i].node # n
          <5>0. i \in DOMAIN calls /\ L \in DOMAIN calls /\ i < L
            BY <1>1, <3>1
          <5>1. Nested(i, L)
            BY <5>0 DEF InDocument
          <5>2. calls[i].node \in Nat /\ n \in Nat
            BY <1>1, <1>2, <5>0, NodeType DEF WalkTypeOK
          <5> QED
            BY <3>1, <5>1, <5>2 DEF Nested
        <4> QED
          BY <4>1
      <3>3. Open \ {n} = {calls[i].node : i \in 1 .. M}
        BY <1>1, <3>1, <3>2 DEF Open
      <3> QED
        BY <1>1, <3>1, <3>3, AroundTop
    <2> QED
      BY <2>1, <2>2
  <1>4. 1 .. M \subseteq DOMAIN calls
    <2>1. M = L \/ L = M + 1
      BY FramesLeft
    <2> HIDE DEF L, M
    <2> QED
      BY <1>1, <2>1
  <1> HIDE DEF L, M
  <1> QED
    BY <1>2, <1>3, <1>4 DEF Untaken, NoOperation, CallKind, M

(***************************************************************************)
(* What each kind of node does to the height of valueStack_ as it closes.  *)
(***************************************************************************)
ChangesHeight(n) ==
    \/ /\ VisitLeaf(n)
       /\ Len(valueStack') = Len(valueStack) + 1
    \/ /\ Leave(n) /\ ast[n].kind \in {"Binary", "AssignVariable"}
       /\ Len(valueStack') = Len(valueStack) - Len(ast[n].kids) + 1
    \/ /\ Leave(n) /\ ast[n].kind = "Return"
       /\ Len(valueStack') = Len(valueStack) - Len(ast[n].kids)
    \/ /\ Leave(n) /\ ast[n].kind = "Block"
       /\ Len(valueStack') = IF Len(valueStack) = 0 THEN 0 ELSE Len(valueStack) - 1
    \/ /\ Leave(n) /\ ast[n].kind \in {"Module", "Function", "Conditional"}
       /\ Len(valueStack') = Len(valueStack)

(***************************************************************************)
(* Inside an operation nothing changes below its entry height, and what    *)
(* closes is an operand, neither untaken nor a Block.                      *)
(***************************************************************************)
LEMMA OperandCloses ==
    ASSUME TypeOK, InDocument, LeftBehind, ValueOperands, PlacedIn(OperatorKind),
           NEW n \in DOMAIN ast, VisitLeaf(n) \/ Leave(n),
           \A i \in 1 .. Len(calls') : entryHeight'[i] = entryHeight[i],
           ~NoOperation(Len(calls')), NEW h, Waiting(h)
    PROVE  Waiting(h)' /\ ast[n].kind # "Block" /\ ~Untaken(n)
  <1> DEFINE L == Len(calls)
             M == Len(calls')
  <1>1. /\ L \in Nat /\ M \in Nat /\ DOMAIN calls = 1 .. L /\ (M = L \/ L = M + 1)
        /\ \A i \in 1 .. M : CallKind(i)' = CallKind(i)
    BY FramesLeft
  <1>2. ~Untaken(n)
    BY UntakenHere
  <1>3. PICK j \in 1 .. M : CallKind(j) \in OperatorKind
    BY DEF NoOperation
  <1>4. ast[n].kind # "Block"
    <2>1. CASE VisitLeaf(n)
      BY <2>1 DEF VisitLeaf, LeafKind
    <2>2. CASE Leave(n)
      <3>1. M > 0 /\ M = L - 1 /\ M \in DOMAIN calls /\ j \in DOMAIN calls /\ j <= M
        <4>1. L = M + 1
          BY <2>2, FramesLeft
        <4> HIDE DEF L, M
        <4> QED
          BY <1>1, <1>3, <4>1
      <3>2. CallKind(M) \in OperatorKind
        BY <1>3, <3>1, Zenon DEF PlacedIn
      <3>3. LET c == calls[M] IN
            c.next \in 1 .. Len(ast[c.node].kids) /\ ast[c.node].kids[c.next] = n
        BY <2>2, <3>1, LeaveFrames
      <3>4. ast[n].kind \in ValueKind
        BY <3>1, <3>2, <3>3, OperandOfTop DEF OperatorSets, ValueOperands
      <3> QED
        BY <3>4 DEF ValueKind, LeafKind
    <2> QED
      BY <2>1, <2>2
  <1>5. PICK i \in 1 .. L : /\ CallKind(i) \in OperatorKind
                            /\ NoOperation(i - 1)
                            /\ h = entryHeight[i]
    <2>1. j \in 1 .. L
      <3> HIDE DEF L, M
      <3> QED
        BY <1>1
    <2>2. ~NoOperation(L)
      BY <1>3, <2>1 DEF NoOperation
    <2> QED
      BY <2>2 DEF Waiting
  <1> HIDE DEF L, M
  <1>6. i \in 1 .. M
    <2>1. ~(j \in 1 .. (i - 1))
      BY <1>3, <1>5 DEF NoOperation
    <2> QED
      BY <1>1, <1>3, <2>1
  <1>7. NoOperation(i - 1)'
    <2>1. \A k \in 1 .. (i - 1) : k \in 1 .. M
      BY <1>1, <1>6
    <2> QED
      BY <1>1, <1>5, <2>1 DEF NoOperation
  <1>8. Waiting(h)'
    BY <1>1, <1>5, <1>6, <1>7 DEF Waiting, M
  <1> QED
    BY <1>2, <1>4, <1>8

(***************************************************************************)
(* Outside of operations the surplus follows the height of the stack.      *)
(***************************************************************************)
LEMMA OthersClose ==
    ASSUME TypeOK, TypeOK', InDocument, LeftBehind, PlacedIn(OperatorKind),
           Len(entryHeight) = Len(calls), NEW n \in DOMAIN ast, ChangesHeight(n),
           NoOperation(Len(calls')), NEW h \in Nat, Waiting(h),
           NEW k, k = Len(valueStack')
    PROVE  /\ k \in Nat /\ Waiting(k)'
           /\ \/ Untaken(n) /\ ast[n].kind # "Block" /\ k = h + 1
              \/ ~Untaken(n) /\ ast[n].kind = "Block" /\ k = (IF h = 0 THEN 0 ELSE h - 1)
              \/ ~Untaken(n) /\ ast[n].kind # "Block" /\ k = h
  <1> DEFINE L == Len(calls)
             M == Len(calls')
             v == Len(valueStack)
  <1>0. VisitLeaf(n) \/ Leave(n)
    BY DEF ChangesHeight
  <1>1. /\ L \in Nat /\ M \in Nat /\ DOMAIN calls = 1 .. L
        /\ \A i \in 1 .. M : CallKind(i)' = CallKind(i)
        /\ VisitLeaf(n) => M = L
        /\ Leave(n) => L = M + 1 /\ calls[L].node = n
    BY <1>0, FramesLeft
  <1>2. k \in Nat /\ v \in Nat
    BY DEF TypeOK
  <1>3. Waiting(k)'
    <2>1. NoOperation(Len(calls))'
      <3>1. PICK m : m = M
        OBVIOUS
      <3>2. NoOperation(m) /\ \A i \in 1 .. m : CallKind(i)' = CallKind(i)
        BY <1>1, <3>1
      <3>3. NoOperation(m)'
        BY <3>2 DEF NoOperation
      <3> QED
        BY <3>1, <3>3
    <2> QED
      BY <2>1 DEF Waiting
  <1>4. Untaken(n) <=> ast[n].kind \in ValueKind
    BY <1>0, UntakenHere
  <1>5. ASSUME NoOperation(L)
        PROVE  h = v
    BY <1>5 DEF Waiting, NoOperation
  <1>6. CASE VisitLeaf(n) /\ k = v + 1
    <2>1. h = v
      BY <1>1, <1>5, <1>6
    <2>2. ast[n].kind \in ValueKind /\ ast[n].kind # "Block"
      BY <1>6 DEF VisitLeaf, ValueKind, LeafKind
    <2> QED
      BY <1>2, <1>3, <1>4, <1>6, <2>1, <2>2
  <1>7. ASSUME Leave(n), ast[n].kind \in OperatorKind
        PROVE  v = h + Len(ast[n].kids) /\ Len(ast[n].kids) \in Nat
    <2>1. /\ L = M + 1 /\ CallKind(L) \in OperatorKind /\ L \in 1 .. L /\ calls # <<>>
          /\ Top.next = Len(ast[n].kids) + 1
      BY <1>1, <1>7, LeaveFrames DEF CallKind
    <2>2. h = entryHeight[L]
      <3>1. ~NoOperation(L)
        BY <2>1 DEF NoOperation
      <3>2. PICK i \in 1 .. L : CallKind(i) \in OperatorKind /\ h = entryHeight[i]
        BY <3>1 DEF Waiting
      <3>3. i \notin 1 .. M
        BY <3>2 DEF NoOperation
      <3>4. i = L
        <4> HIDE DEF L, M
        <4> QED
          BY <1>1, <2>1, <3>2, <3>3
      <3> QED
        BY <3>2, <3>4
    <2>3. v = entryHeight[L] + Top.next - 1 /\ entryHeight[L] \in Nat
      BY <2>1, TopInPlace DEF OperatorSets
    <2>4. Len(ast[n].kids) \in Nat
      BY NodeType DEF TypeOK, WalkTypeOK
    <2> HIDE DEF L, v
    <2> QED
      BY <1>2, <2>1, <2>2, <2>3, <2>4
  <1>8. CASE /\ Leave(n) /\ ast[n].kind \in {"Binary", "AssignVariable"}
             /\ k = v - Len(ast[n].kids) + 1
    <2>1. ast[n].kind \in OperatorKind /\ ast[n].kind \in ValueKind /\ ast[n].kind # "Block"
      BY <1>8 DEF OperatorKind, ValueKind
    <2>2. v = h + Len(ast[n].kids) /\ Len(ast[n].kids) \in Nat
      BY <1>7, <1>8, <2>1
    <2> HIDE DEF v
    <2>3. k = h + 1
      BY <1>8, <2>2
    <2> QED
      BY <1>2, <1>3, <1>4, <2>1, <2>3
  <1>9. CASE Leave(n) /\ ast[n].kind = "Return" /\ k = v - Len(ast[n].kids)
    <2>1. ast[n].kind \in OperatorKind /\ ast[n].kind \notin ValueKind /\ ast[n].kind # "Block"
      BY <1>9 DEF OperatorKind, ValueKind, LeafKind
    <2>2. v = h + Len(ast[n].kids) /\ Len(ast[n].kids) \in Nat
      BY <1>7, <1>9, <2>1
    <2> HIDE DEF v
    <2>3. k = h
      BY <1>9, <2>2
    <2> QED
      BY <1>2, <1>3, <1>4, <2>1, <2>3
  <1>10. ASSUME Leave(n), ast[n].kind \notin OperatorKind
         PROVE  h = v
    <2>1. \A i \in 1 .. L : CallKind(i) \notin OperatorKind
      <3>1. L = M + 1 /\ CallKind(L) \notin OperatorKind
        BY <1>1, <1>10 DEF CallKind
      <3>2. \A i \in 1 .. L : i = L \/ i \in 1 .. M
        <4> HIDE DEF L, M
        <4> QED
          BY <1>1, <3>1
      <3> QED
        BY <3>1, <3>2 DEF NoOperation
    <2> QED
      BY <1>5, <2>1 DEF NoOperation
  <1>11. CASE Leave(n) /\ ast[n].kind = "Block" /\ k = IF v = 0 THEN 0 ELSE v - 1
    <2>1. ast[n].kind \notin OperatorKind /\ ast[n].kind \notin ValueKind
      BY <1>11 DEF OperatorKind, ValueKind, LeafKind
    <2>2. h = v
      BY <1>10, <1>11, <2>1
    <2> QED
      BY <1>2, <1>3, <1>4, <1>11, <2>1, <2>2
  <1>12. CASE Leave(n) /\ ast[n].kind \in {"Module", "Function", "Conditional"} /\ k = v
    <2>1. ast[n].kind \notin OperatorKind /\ ast[n].kind \notin ValueKind /\ ast[n].kind # "Block"
      BY <1>12 DEF OperatorKind, ValueKind, LeafKind
    <2>2. h = v
      BY <1>10, <1>12, <2>1
    <2> QED
      BY <1>2, <1>3, <1>4, <1>12, <2>1, <2>2
  <1> QED
    BY <1>6, <1>8, <1>9, <1>11, <1>12 DEF ChangesHeight

LEMMA NodeCloses ==
    ASSUME TypeOK, TypeOK', InDocument, LeftBehind, ValueOperands,
           PlacedIn(OperatorKind), Len(entryHeight) = Len(calls),
           NEW n \in DOMAIN ast, ChangesHeight(n),
           \A i \in 1 .. Len(calls') : entryHeight'[i] = entryHeight[i],
           WaitingIsSurplus
    PROVE  WaitingIsSurplus'
  <1>0. VisitLeaf(n) \/ Leave(n)
    BY DEF ChangesHeight
  <1>1. PICK h \in Nat : Waiting(h) /\ Surplus(ast, Closed, UntakenNodes, BlockNodes, h)
    BY DEF WaitingIsSurplus
  <1>2. /\ Closed' = Closed \cup {n} /\ n \notin Closed /\ IsFiniteSet(Closed)
        /\ \A m \in Closed : ClosesBefore(ast, m, n) /\ ~ClosesBefore(ast, n, m)
    BY <1>0, ClosedGrows
  <1>3. ast' = ast /\ UntakenNodes' = UntakenNodes /\ BlockNodes' = BlockNodes
    BY <1>0, SameNodes DEF VisitLeaf, Leave
  <1>4. /\ Untaken(n) <=> n \in UntakenNodes
        /\ ast[n].kind = "Block" <=> n \in BlockNodes
    BY DEF UntakenNodes, BlockNodes
  <1>5. PICK k \in Nat :
           /\ Waiting(k)'
           /\ \/ n \in UntakenNodes /\ n \notin BlockNodes /\ k = h + 1
              \/ n \notin UntakenNodes /\ n \in BlockNodes /\ k = (IF h = 0 THEN 0 ELSE h - 1)
              \/ n \notin UntakenNodes /\ n \notin BlockNodes /\ k = h
    <2>1. CASE NoOperation(Len(calls'))
      <3>1. PICK k : k = Len(valueStack')
        OBVIOUS
      <3>2. /\ k \in Nat /\ Waiting(k)'
            /\ \/ Untaken(n) /\ ast[n].kind # "Block" /\ k = h + 1
               \/ ~Untaken(n) /\ ast[n].kind = "Block" /\ k = (IF h = 0 THEN 0 ELSE h - 1)
               \/ ~Untaken(n) /\ ast[n].kind # "Block" /\ k = h
        BY <1>1, <2>1, <3>1, OthersClose
      <3> QED
        BY <1>4, <3>2
    <2>2. CASE ~NoOperation(Len(calls'))
      BY <1>0, <1>1, <1>4, <2>2, OperandCloses
    <2> QED
      BY <2>1, <2>2
  <1>6. Surplus(ast, Closed \cup {n}, UntakenNodes, BlockNodes, k)
    BY <1>1, <1>2, <1>5, SurplusGrows
  <1>7. Surplus(ast, Closed, UntakenNodes, BlockNodes, k)'
    BY <1>2, <1>3, <1>6
  <1> QED
    BY <1>5, <1>7 DEF WaitingIsSurplus

(***************************************************************************)
(* A node is entered, a missing branch skipped, the walk is over.          *)
(***************************************************************************)
LEMMA EnterWaiting ==
    ASSUME TypeOK, InDocument, Len(entryHeight) = Len(calls),
           NEW n \in DOMAIN ast, Enter(n),
           entryHeight' = Append(entryHeight, Len(valueStack)), valueStack' = valueStack,
           WaitingIsSurplus
    PROVE  WaitingIsSurplus'
  <1>1. PICK h \in Nat : Waiting(h) /\ Surplus(ast, Closed, UntakenNodes, BlockNodes, h)
    BY DEF WaitingIsSurplus
  <1>2. Surplus(ast, Closed, UntakenNodes, BlockNodes, h)'
    BY <1>1, ClosedKept, SameNodes DEF Enter
  <1>3. PICK L : L = Len(calls)
    OBVIOUS
  <1>4. /\ calls \in Seq(Frame) /\ entryHeight \in Seq(Nat) /\ n \in Nat /\ n # Null
        /\ L \in Nat /\ Len(valueStack) \in Nat /\ ast' = ast
    BY <1>3, NodeType DEF TypeOK, WalkTypeOK, Enter
  <1>5. /\ Len(calls') = L + 1
        /\ \A i \in 1 .. L : calls'[i].node = calls[i].node
        /\ calls'[L + 1].node = n
        /\ \A i \in 1 .. L : entryHeight'[i] = entryHeight[i]
        /\ entryHeight'[L + 1] = Len(valueStack)
    <2> DEFINE f == [node |-> n, next |-> 1]
    <2>1. calls' = Append(calls, f) /\ f.node = n
      BY DEF Enter
    <2>2. f \in Frame
      BY <1>4 DEF Frame, Null
    <2> HIDE DEF f
    <2>3. /\ Len(calls') = L + 1
          /\ \A i \in 1 .. L : calls'[i] = calls[i]
          /\ calls'[L + 1] = f
      BY <1>3, <1>4, <2>1, <2>2
    <2>4. /\ \A i \in 1 .. L : entryHeight'[i] = entryHeight[i]
          /\ entryHeight'[L + 1] = Len(valueStack)
      BY <1>3, <1>4
    <2> QED
      BY <2>1, <2>3, <2>4
  <1>6. /\ \A i \in 1 .. L : CallKind(i)' = CallKind(i)
        /\ CallKind(L + 1)' = ast[n].kind
    BY <1>4, <1>5 DEF CallKind
  <1>7. ASSUME NEW m \in Int, m <= L, NoOperation(m)
        PROVE  NoOperation(m)'
    <2>1. \A i \in 1 .. m : i \in 1 .. L
      BY <1>4, <1>7
    <2> QED
      BY <1>6, <1>7, <2>1 DEF NoOperation
  <1>8. CASE NoOperation(L) /\ h = Len(valueStack) /\ ast[n].kind \in OperatorKind
    <2>1. NoOperation(L)' /\ (L + 1) - 1 = L /\ L + 1 \in 1 .. (L + 1)
      BY <1>4, <1>7, <1>8
    <2>2. Waiting(h)'
      BY <1>5, <1>6, <1>8, <2>1 DEF Waiting
    <2> QED
      BY <1>2, <2>2 DEF WaitingIsSurplus
  <1>9. CASE NoOperation(L) /\ h = Len(valueStack) /\ ast[n].kind \notin OperatorKind
    <2>1. NoOperation(L + 1)'
      <3>1. \A i \in 1 .. (L + 1) : i \in 1 .. L \/ i = L + 1
        BY <1>4
      <3> QED
        BY <1>6, <1>9, <3>1 DEF NoOperation
    <2>2. Waiting(h)'
      BY <1>5, <1>9, <2>1 DEF Waiting
    <2> QED
      BY <1>2, <2>2 DEF WaitingIsSurplus
  <1>10. ASSUME NEW i \in 1 .. L, CallKind(i) \in OperatorKind, NoOperation(i - 1),
                h = entryHeight[i]
         PROVE  WaitingIsSurplus'
    <2>1. NoOperation(i - 1)' /\ i \in 1 .. (L + 1)
      BY <1>4, <1>7, <1>10
    <2>2. Waiting(h)'
      BY <1>5, <1>6, <1>10, <2>1 DEF Waiting
    <2> QED
      BY <1>2, <2>2 DEF WaitingIsSurplus
  <1> QED
    BY <1>1, <1>3, <1>8, <1>9, <1>10 DEF Waiting

LEMMA SameWaiting ==
    ASSUME ast' = ast, trace' = trace, valueStack' = valueStack, entryHeight' = entryHeight,
           Open' = Open, Len(calls') = Len(calls),
           \A i \in 1 .. Len(calls) : calls'[i].node = calls[i].node,
           Len(calls) \in Nat, WaitingIsSurplus
    PROVE  WaitingIsSurplus'
  <1>1. PICK h \in Nat : Waiting(h) /\ Surplus(ast, Closed, UntakenNodes, BlockNodes, h)
    BY DEF WaitingIsSurplus
  <1>2. Closed' = Closed
    BY DEF Closed
  <1>3. Surplus(ast, Closed, UntakenNodes, BlockNodes, h)'
    BY <1>1, <1>2, SameNodes
  <1>4. \A i \in 1 .. Len(calls) : CallKind(i)' = CallKind(i)
    BY DEF CallKind
  <1>5. ASSUME NEW m \in Int, m <= Len(calls), NoOperation(m)
        PROVE  NoOperation(m)'
    <2>1. \A i \in 1 .. m : i \in 1 .. Len(calls)
      BY <1>5
    <2> QED
      BY <1>4, <1>5, <2>1 DEF NoOperation
  <1>6. CASE NoOperation(Len(calls)) /\ h = Len(valueStack)
    <2>1. PICK L : L = Len(calls)
      OBVIOUS
    <2>2. NoOperation(L)'
      BY <1>5, <1>6, <2>1
    <2>3. Waiting(h)'
      BY <1>6, <2>1, <2>2 DEF Waiting
    <2> QED
      BY <1>3, <2>3 DEF WaitingIsSurplus
  <1>7. ASSUME NEW i \in 1 .. Len(calls), CallKind(i) \in OperatorKind, NoOperation(i - 1),
               h = entryHeight[i]
        PROVE  WaitingIsSurplus'
    <2>1. NoOperation(i - 1)'
      BY <1>5, <1>7
    <2>2. Waiting(h)'
      BY <1>4, <1>7, <2>1 DEF Waiting
    <2> QED
      BY <1>3, <2>2 DEF WaitingIsSurplus
  <1> QED
    BY <1>1, <1>6, <1>7 DEF Waiting

(***************************************************************************)
(* The heights that the handlers on the way up leave.                      *)
(***************************************************************************)
LEMMA VisitedHeights ==
    ASSUME TypeOK, TypeOK', InDocument, AncestryIsWalk, Len(entryHeight) = Len(calls),
           NEW n \in DOMAIN ast, Visited(n), outcome' = "walking"
    PROVE  /\ Leave(n) /\ ChangesHeight(n)
           /\ \A i \in 1 .. Len(calls') : entryHeight'[i] = entryHeight[i]
  <1>0. outcome' \notin Failure /\ ~VisitedUndefined(n)
    <2>1. outcome' \notin Failure
      BY FailureEnds
    <2> QED
      BY <2>1, FailureNames DEF VisitedUndefined, FailLeaving, Fail
  <1>1. /\ Leave(n) /\ entryHeight' = Dropped(entryHeight, 1)
        /\ \/ ast[n].kind \notin ValueKind
           \/ /\ ast[n].kind \in {"Binary", "AssignVariable"}
              /\ Len(ast[n].kids) <= Len(valueStack)
              /\ \E v \in Value : valueStack' = Append(Dropped(valueStack, Len(ast[n].kids)), v)
    BY <1>0, VisitedValues
  <1>2. /\ valueStack \in Seq(Value) /\ Len(valueStack) \in Nat /\ IsTree(ast)
        /\ entryHeight \in Seq(Nat) /\ Len(ast[n].kids) \in Nat
    BY NodeType DEF TypeOK, WalkTypeOK
  <1>3. \A i \in 1 .. Len(calls') : entryHeight'[i] = entryHeight[i]
    <2>1. PICK M \in Nat : M = Len(calls') /\ M = Len(calls) - 1 /\ Len(calls) \in Nat
      BY <1>1, LeaveFrames
    <2>2. entryHeight' = SubSeq(entryHeight, 1, M) /\ M <= Len(entryHeight)
      BY <1>1, <2>1 DEF Dropped
    <2> QED
      BY <1>2, <2>1, <2>2, Prefix
  <1>4. Members(ast, n) /\ Members(ast, Root) /\ Root \in DOMAIN ast
    BY <1>2 DEF IsTree, Root
  <1>5. ASSUME NEW k \in Nat, k <= Len(valueStack)
        PROVE  Dropped(valueStack, k) \in Seq(Value)
               /\ Len(Dropped(valueStack, k)) = Len(valueStack) - k
    <2>1. Len(valueStack) - k \in Nat /\ Len(valueStack) - k <= Len(valueStack)
      BY <1>2, <1>5
    <2> QED
      BY <1>2, <2>1, Prefix DEF Dropped
  <1>6. CASE ast[n].kind \in {"Binary", "AssignVariable"}
    <2>1. PICK v \in Value : valueStack' = Append(Dropped(valueStack, Len(ast[n].kids)), v)
      BY <1>1, <1>6 DEF ValueKind
    <2>2. Len(ast[n].kids) <= Len(valueStack)
      BY <1>1, <1>6 DEF ValueKind
    <2>3. PICK s \in Seq(Value) : /\ s = Dropped(valueStack, Len(ast[n].kids))
                                  /\ Len(s) = Len(valueStack) - Len(ast[n].kids)
      BY <1>2, <1>5, <2>2
    <2>4. Len(valueStack') = Len(valueStack) - Len(ast[n].kids) + 1
      <3>0. Len(Append(s, v)) = Len(s) + 1
        OBVIOUS
      <3>1. valueStack' = Append(s, v) /\ Len(Append(s, v)) = Len(s) + 1
        BY <2>1, <2>3, <3>0
      <3> QED
        BY <2>3, <3>1
    <2> QED
      BY <1>1, <1>3, <1>6, <2>4 DEF ChangesHeight
  <1>7. CASE VisitedReturn(n)
    <2>1. /\ ast[n].kind = "Return" /\ Len(valueStack) >= 1 /\ Len(ast[n].kids) = 1
          /\ valueStack' = Dropped(valueStack, 1)
      BY <1>4, <1>7 DEF VisitedReturn, VisitedNode, Members
    <2>2. Len(valueStack') = Len(valueStack) - 1
      BY <1>2, <1>5, <2>1
    <2> QED
      BY <1>1, <1>3, <2>1, <2>2 DEF ChangesHeight
  <1>8. CASE VisitedBlock(n)
    <2>1. ast[n].kind = "Block" /\ VisitedNode(n, valueStack)
      BY <1>8 DEF VisitedBlock
    <2>2. Len(ancestryStack) > 1
      <3>1. /\ calls # <<>> /\ Len(calls) \in Nat /\ Len(calls) >= 1 /\ Top = calls[Len(calls)]
            /\ DOMAIN calls = 1 .. Len(calls) /\ n = Top.node /\ outcome = "walking"
        BY <1>1, LeaveFrames DEF Leave, Leaving
      <3>2. Len(calls) # 1
        BY <1>4, <2>1, <3>1 DEF InDocument, Members
      <3>3. Len(ancestryStack) = Len(calls)
        <4>1. ancestryStack = [i \in 1 .. Len(calls) |-> calls[i].node]
          BY <3>1 DEF AncestryIsWalk
        <4>2. PICK m \in Nat : m = Len(calls)
          BY <3>1
        <4>3. ancestryStack \in Seq(Nat) /\ DOMAIN ancestryStack = 1 .. m
          BY <4>1, <4>2 DEF TypeOK
        <4> QED
          BY <4>2, <4>3
      <3> QED
        BY <3>1, <3>2, <3>3
    <2>3. valueStack' = IF valueStack # <<>> THEN Dropped(valueStack, 1) ELSE valueStack
      BY <2>1, <2>2 DEF VisitedNode
    <2>4. Len(valueStack') = IF Len(valueStack) = 0 THEN 0 ELSE Len(valueStack) - 1
      <3>1. CASE valueStack = <<>>
        BY <2>3, <3>1
      <3>2. CASE valueStack # <<>>
        <4>1. Len(valueStack) >= 1
          BY <1>2, <3>2
        <4> QED
          BY <1>2, <1>5, <2>3, <3>2, <4>1
      <3> QED
        BY <3>1, <3>2
    <2> QED
      BY <1>1, <1>3, <2>1, <2>4 DEF ChangesHeight
  <1>9. CASE VisitedModule(n) \/ VisitedOther(n)
    <2>1. /\ ast[n].kind \in {"Module", "Function", "Conditional"}
          /\ valueStack' = valueStack
      BY <1>9 DEF VisitedModule, VisitedOther, VisitedNode
    <2> QED
      BY <1>1, <1>3, <2>1 DEF ChangesHeight
  <1>10. CASE \/ VisitedModuleAsserts(n) \/ VisitedAssignVariableThrows(n)
              \/ VisitedBinaryMismatch(n) \/ VisitedBinaryThrows(n) \/ VisitedReturnAsserts(n)
    BY <1>0, <1>10, FailureNames
       DEF VisitedModuleAsserts, VisitedAssignVariableThrows, VisitedBinaryMismatch,
           VisitedBinaryThrows, VisitedReturnAsserts, FailLeaving, Fail
  <1>11. CASE VisitedAssignVariable(n) \/ VisitedBinary(n)
    BY <1>6, <1>11 DEF VisitedAssignVariable, VisitedBinary
  <1> QED
    BY <1>0, <1>7, <1>8, <1>9, <1>10, <1>11 DEF Visited

(***************************************************************************)
(* The assertion in visitedModule fires when only the Module is open and   *)
(* all that waits is what remains.                                         *)
(***************************************************************************)
LEMMA AssertedUnbalanced ==
    ASSUME TypeOK, InDocument, LeftBehind, PlacedIn(OperatorKind), WaitingIsSurplus,
           NEW n \in DOMAIN ast, VisitedModuleAsserts(n)
    PROVE  ~Balanced
  <1>1. PICK h \in Nat : Waiting(h) /\ Surplus(ast, Closed, UntakenNodes, BlockNodes, h)
    BY DEF WaitingIsSurplus
  <1>2. /\ ast[n].kind = "Module" /\ valueStack # <<>> /\ Leaving(n)
        /\ outcome = "walking" /\ calls # <<>> /\ n = Top.node
    BY DEF VisitedModuleAsserts, FailLeaving, Leaving
  <1>3. /\ WalkTypeOK /\ IsTree(ast) /\ valueStack \in Seq(Value) /\ Len(trace) \in Nat
        /\ DOMAIN ast = 1 .. Len(ast) /\ Len(ast) \in Nat /\ Root \in DOMAIN ast
    BY DEF TypeOK, WalkTypeOK, IsTree, Root
  <1>4. n = Root
    BY <1>2, <1>3 DEF IsTree, Members
  <1>5. /\ Len(calls) \in Nat /\ DOMAIN calls = 1 .. Len(calls) /\ Len(calls) \in DOMAIN calls
        /\ calls[Len(calls)].node = Root /\ IsLastCovered(ast, n, Top.next, Len(trace))
        /\ Top.next = Len(ast[n].kids) + 1
    BY <1>2, <1>3, <1>4, TopFrame DEF Leaving, Top, WalkTypeOK
  <1>6. Len(trace) = Len(ast)
    <2>1. ast[n].last = Len(trace)
      BY <1>3, <1>5, LastNumber
    <2> QED
      BY <1>3, <1>4, <2>1 DEF IsTree
  <1>7. Open = {Root}
    <2>1. ASSUME NEW i \in DOMAIN calls
          PROVE  calls[i].node = Root
      <3>1. CASE i < Len(calls)
        <4>1. Nested(i, Len(calls)) /\ calls[i].node \in DOMAIN ast
          BY <1>5, <3>1 DEF InDocument, OnPath
        <4> QED
          BY <1>3, <1>5, <4>1 DEF Nested, Root
      <3> QED
        BY <1>5, <3>1
    <2> QED
      BY <1>5, <2>1 DEF Open
  <1>8. h = Len(valueStack) /\ h # 0
    <2>1. CallKind(Len(calls)) \notin OperatorKind
      BY <1>2, <1>4, <1>5 DEF CallKind, OperatorKind
    <2>2. ASSUME NEW i \in 1 .. Len(calls)
          PROVE  CallKind(i) \notin OperatorKind
      <3>1. i \in DOMAIN calls /\ i <= Len(calls)
        BY <1>5
      <3> QED
        BY <1>5, <2>1, <3>1, Zenon DEF PlacedIn
    <2>3. h = Len(valueStack)
      BY <1>1, <2>2 DEF Waiting, NoOperation
    <2> QED
      BY <1>2, <1>3, <2>3
  <1>9. /\ Closed \cup {Root} = DOMAIN ast /\ Root \notin Closed /\ IsFiniteSet(Closed)
        /\ \A m \in Closed : ClosesBefore(ast, m, Root) /\ ~ClosesBefore(ast, Root, m)
    <2>1. Closed \cup {Root} = DOMAIN ast /\ Root \notin Closed
      BY <1>3, <1>6, <1>7 DEF Closed
    <2>2. IsFiniteSet(Closed)
      <3>1. IsFiniteSet(1 .. Len(trace)) /\ Closed \in SUBSET (1 .. Len(trace))
        BY <1>3, FS_Interval DEF Closed
      <3> QED
        BY <3>1, FS_Subset
    <2>3. ASSUME NEW m \in Closed
          PROVE  ClosesBefore(ast, m, Root) /\ ~ClosesBefore(ast, Root, m)
      <3>1. /\ m \in Nat /\ m >= 1 /\ m # Root /\ ast[m].last \in Nat
            /\ ast[m].last <= Len(ast) /\ ast[Root].last = Len(ast)
        BY <1>3, <2>1, NodeType DEF IsTree
      <3> QED
        BY <1>3, <3>1 DEF ClosesBefore, Root
    <2> QED
      BY <2>1, <2>2, <2>3
  <1>10. Root \notin UntakenNodes /\ Root \notin BlockNodes
    BY <1>2, <1>4 DEF UntakenNodes, Untaken, BlockNodes, ValueKind, LeafKind
  <1>11. Surplus(ast, DOMAIN ast, UntakenNodes, BlockNodes, h)
    <2>1. Surplus(ast, Closed \cup {Root}, UntakenNodes, BlockNodes, h)
      BY <1>1, <1>9, <1>10, SurplusGrows
    <2> QED
      BY <1>9, <2>1
  <1> QED
    BY <1>3, <1>8, <1>11, SurplusOfTree

LEMMA AssertionsOnly ==
    ASSUME Next, outcome' = "DebugAssertionFailedException"
    PROVE  \E n \in DOMAIN ast : VisitedModuleAsserts(n) \/ VisitedReturnAsserts(n)
  <1>1. outcome = "walking"
    BY WalkingStep
  <1>2. ASSUME NEW n \in DOMAIN ast, Visiting(n)
        PROVE  FALSE
    BY <1>1, <1>2
       DEF Visiting, VisitingModule, VisitingFunction, VisitingFunctionThrows,
           VisitingBlock, VisitingBlockThrows, VisitingBlockRepeats, VisitingOther,
           VisitingUndefined, VisitLiteral,
           VisitVariableRef, VisitVariableRefThrows, Enter, VisitLeaf, FailEntering, Fail,
           Undefined
  <1>3. ASSUME NEW n \in DOMAIN ast, Visited(n)
        PROVE  VisitedModuleAsserts(n) \/ VisitedReturnAsserts(n)
    BY <1>1, <1>3
       DEF Visited, VisitedModule, VisitedBlock, VisitedOther,
           VisitedAssignVariable, VisitedAssignVariableThrows, VisitedBinary,
           VisitedBinaryMismatch, VisitedBinaryThrows, VisitedReturn,
           VisitedUndefined, Leave, FailLeaving, Fail, Undefined
  <1>4. ~WalkerAlone
    BY <1>1 DEF WalkerAlone, SkipBranch, NullChild, UnhandledKind, CleanUp, Fail
  <1> QED
    BY <1>2, <1>3, <1>4 DEF Next

LEMMA WaitingStep ==
    ASSUME TypeOK, TypeOK', InDocument, LeftBehind, AncestryIsWalk, OperandsInPlace,
           ValueOperands, WaitingIsSurplus, Next, outcome' \in {"walking", "done"}
    PROVE  WaitingIsSurplus'
  <1>1. /\ Len(entryHeight) = Len(calls) /\ PlacedIn(OperatorKind)
        /\ outcome' \notin Failure /\ outcome = "walking"
    BY WalkingStep, FailureEnds DEF OperandsInPlace, ValueOperands
  <1>2. ASSUME NEW n \in DOMAIN ast, Visiting(n)
        PROVE  WaitingIsSurplus'
    <2>1. CASE /\ Enter(n) /\ entryHeight' = Append(entryHeight, Len(valueStack))
               /\ valueStack' = valueStack
      BY <1>1, <2>1, EnterWaiting
    <2>2. CASE /\ VisitLeaf(n) /\ entryHeight' = entryHeight /\ TypeAt(ast, n) # Undefined
               /\ \E v \in Value : v.from = n /\ valueStack' = Append(valueStack, v)
      <3>1. PICK v \in Value : valueStack' = Append(valueStack, v)
        BY <2>2
      <3>2. valueStack \in Seq(Value)
        BY DEF TypeOK
      <3>3. Len(valueStack') = Len(valueStack) + 1
        BY <3>1, <3>2
      <3>4. ChangesHeight(n)
        BY <2>2, <3>3 DEF ChangesHeight
      <3> QED
        BY <1>1, <2>2, <3>4, NodeCloses
    <2> QED
      BY <1>1, <1>2, <2>1, <2>2, VisitingValues
  <1>3. ASSUME NEW n \in DOMAIN ast, Visited(n)
        PROVE  WaitingIsSurplus'
    <2>1. outcome' = "walking"
      BY <1>1, <1>3, FailureNames
         DEF Visited, VisitedModule, VisitedModuleAsserts, VisitedBlock, VisitedOther,
             VisitedAssignVariable, VisitedAssignVariableThrows, VisitedBinary,
             VisitedBinaryMismatch, VisitedBinaryThrows, VisitedReturn,
             VisitedReturnAsserts, VisitedUndefined, Leave, FailLeaving, Fail
    <2> QED
      BY <1>1, <1>3, <2>1, VisitedHeights, NodeCloses
  <1>4. CASE WalkerAlone
    <2>1. UNCHANGED visitorVars /\ (SkipBranch \/ CleanUp)
      BY <1>1, <1>4, FailureEnds, FailureNames
         DEF WalkerAlone, NullChild, UnhandledKind, Fail, Failure, Exception
    <2>2. valueStack' = valueStack /\ entryHeight' = entryHeight /\ Len(calls) \in Nat
      BY <2>1 DEF visitorVars, TypeOK, WalkTypeOK
    <2>3. CASE SkipBranch
      <3>1. calls' = Returned(calls) /\ ast' = ast /\ trace' = trace /\ WalkTypeOK
        BY <2>3 DEF SkipBranch, TypeOK
      <3> QED
        BY <2>2, <3>1, AdvancedFrames, ReturnedOpen, SameWaiting
    <2>4. CASE CleanUp
      <3>1. calls' = calls /\ ast' = ast /\ trace' = trace
        BY <2>4 DEF CleanUp
      <3>2. Open' = Open
        BY <3>1 DEF Open
      <3> QED
        BY <2>2, <3>1, <3>2, SameWaiting
    <2> QED
      BY <2>1, <2>3, <2>4
  <1> QED
    BY <1>2, <1>3, <1>4 DEF Next

LEMMA SameAst ==
    ASSUME [Next]_vars
    PROVE  ast' = ast
  BY StepWalks
     DEF WalkNext, walkerVars, Enter, VisitLeaf, Leave, FailEntering, FailLeaving,
         FailOutside, SkipBranch, NullChild, UnhandledKind, CleanUp, Fail

LEMMA SameBalance ==
    ASSUME ast' = ast
    PROVE  (ValueOperands' <=> ValueOperands) /\ (Balanced' <=> Balanced)
  <1>1. \A n : ClosingFrom(n)' = ClosingFrom(n) /\ (Untaken(n)' <=> Untaken(n))
    BY DEF ClosingFrom, Untaken
  <1> QED
    BY <1>1 DEF ValueOperands, OperandsIn, Balanced

LEMMA RemainsStep ==
    /\ TypeOK /\ TypeOK' /\ InDocument /\ LeftBehind /\ AncestryIsWalk
    /\ OperandsInPlace /\ RemainsInv /\ [Next]_vars
    => RemainsInv'
  <1> SUFFICES ASSUME TypeOK, TypeOK', InDocument, LeftBehind, AncestryIsWalk,
                      OperandsInPlace, RemainsInv, [Next]_vars
               PROVE  RemainsInv'
    OBVIOUS
  <1>1. /\ ast' = ast /\ (ValueOperands' <=> ValueOperands) /\ (Balanced' <=> Balanced)
    BY SameAst, SameBalance
  <1>2. CASE Next
    <2>1. ASSUME ValueOperands, outcome' \in {"walking", "done"}
          PROVE  WaitingIsSurplus'
      BY <1>2, <2>1, WalkingStep, WaitingStep DEF RemainsInv
    <2>2. ASSUME ValueOperands, outcome' = "DebugAssertionFailedException"
          PROVE  ~Balanced
      <3>1. WaitingIsSurplus /\ PlacedIn(OperatorKind)
        BY <1>2, <2>2, WalkingStep DEF RemainsInv, OperandsInPlace, ValueOperands
      <3>2. ASSUME NEW n \in DOMAIN ast, VisitedReturnAsserts(n)
            PROVE  FALSE
        <4>1. Leaving(n) /\ ast[n].kind = "Return" /\ valueStack = <<>>
          BY <3>2 DEF VisitedReturnAsserts, FailLeaving
        <4>2. ast[n].kind \in OperatorKind /\ OperatorKind \in OperatorSets
          BY <4>1 DEF OperatorKind, OperatorSets
        <4>3. Len(ast[n].kids) <= Len(valueStack)
          BY <2>2, <4>1, <4>2, OperandsOnTop DEF ValueOperands
        <4>4. Len(ast[n].kids) = 1
          BY <4>1 DEF TypeOK, WalkTypeOK, IsTree, Members
        <4> QED
          BY <4>1, <4>3, <4>4
      <3> QED
        BY <1>2, <2>2, <3>1, <3>2, AssertionsOnly, AssertedUnbalanced
    <2> QED
      BY <1>1, <2>1, <2>2 DEF RemainsInv
  <1>3. CASE UNCHANGED vars
    <2>1. /\ outcome' = outcome /\ calls' = calls /\ trace' = trace
          /\ valueStack' = valueStack /\ entryHeight' = entryHeight /\ Len(calls) \in Nat
      BY <1>3 DEF vars, walkerVars, visitorVars, TypeOK, WalkTypeOK
    <2>2. WaitingIsSurplus => WaitingIsSurplus'
      <3>1. Open' = Open
        BY <2>1 DEF Open
      <3> QED
        BY <1>1, <2>1, <3>1, SameWaiting
    <2> QED
      BY <1>1, <2>1, <2>2 DEF RemainsInv
  <1> QED
    BY <1>2, <1>3

LEMMA RemainsAtEnd ==
    ASSUME TypeOK, InDocument, RemainsInv
    PROVE  RemainsIfUnbalanced
  <1> SUFFICES ASSUME ValueOperands, outcome = "done"
               PROVE  valueStack = <<>> <=> Balanced
    BY DEF RemainsIfUnbalanced, RemainsInv
  <1>1. /\ calls = <<>> /\ Len(trace) = Len(ast) /\ IsTree(ast) /\ valueStack \in Seq(Value)
        /\ DOMAIN ast = 1 .. Len(ast)
    BY DEF InDocument, TypeOK, WalkTypeOK, IsTree
  <1>2. PICK h \in Nat : Waiting(h) /\ Surplus(ast, Closed, UntakenNodes, BlockNodes, h)
    BY DEF RemainsInv, WaitingIsSurplus
  <1>3. Closed = DOMAIN ast
    BY <1>1 DEF Closed, Open
  <1>4. h = Len(valueStack)
    BY <1>1, <1>2 DEF Waiting
  <1>5. h = 0 <=> Balanced
    BY <1>1, <1>2, <1>3, SurplusOfTree
  <1> QED
    BY <1>1, <1>4, <1>5

(***************************************************************************)
(* For every tree whose operations have operands that leave a value:       *)
(* values remain on valueStack_ when compilation ends just if, from some   *)
(* node on, more values close that no operation takes than Blocks; and     *)
(* for a tree without such a node no assertion fires.                      *)
(***************************************************************************)
THEOREM RemainingValuesCounted == Safety => []RemainsIfUnbalanced
  <1>1. Init => RemainsInv
    <2>1. ASSUME Init
          PROVE  WaitingIsSurplus /\ outcome = "walking"
      <3>1. calls = <<>> /\ trace = <<>> /\ valueStack = <<>> /\ outcome = "walking"
        BY <2>1 DEF Init, WalkInit
      <3>2. Closed = {}
        BY <3>1 DEF Closed
      <3>3. Waiting(0)
        BY <3>1 DEF Waiting, NoOperation
      <3>4. Surplus(ast, Closed, UntakenNodes, BlockNodes, 0)
        BY <3>2 DEF Surplus
      <3> QED
        BY <3>1, <3>3, <3>4 DEF WaitingIsSurplus
    <2> QED
      BY <2>1 DEF RemainsInv
  <1>2. TypeOK /\ InDocument /\ RemainsInv => RemainsIfUnbalanced
    BY RemainsAtEnd
  <1> QED
    BY <1>1, <1>2, RemainsStep, TypeCorrect, CompilationStaysInDocument, AncestryCorrect,
       OperandsAreInPlace, PTL DEF Safety

=============================================================================
