------------------------------ MODULE Builders ------------------------------
(***************************************************************************)
(* How trees come to be and go away (src/src/AST.hpp): the constructors    *)
(* and make functions, BlockBuilder, FunctionBuilder and ModuleBuilder,    *)
(* and the unique_ptrs that pass nodes between the client, the builders    *)
(* and the nodes that end up owning them.                                  *)
(*                                                                         *)
(* A node is an address; an address may be used again when its node has    *)
(* been destroyed.  Null is a null unique_ptr, which is also what a moved- *)
(* from one holds.  Binary, AssignVariable and Return own their operands   *)
(* in the same way, so "Return" stands for AssignVariable as well, and     *)
(* "LiteralInt32" for all leaves.                                          *)
(*                                                                         *)
(* A ModuleBuilder also takes a plain pointer to a Function, and owns it   *)
(* from then on, whoever else does: such a node is shared, and the first   *)
(* destruction that frees one leaves the others' pointers dangling.  What  *)
(* a program does after that is undefined, and the model stops there.      *)
(***************************************************************************)
EXTENDS Ast, FiniteSets

CONSTANTS
    Address,                             \* where nodes may be allocated
    VariableType,                        \* the types of Variables
    MaxHeld                              \* a bound on what the builders hold

(***************************************************************************)
(* A BlockBuilder, a FunctionBuilder with the BlockBuilder inside it and   *)
(* the scope of its parameters, and a ModuleBuilder.                       *)
(***************************************************************************)
BlockBuilder == {"block", "function"}
Builder      == BlockBuilder \cup {"module"}
ScopeBuilder == BlockBuilder \cup {"parameters"}

ASSUME BuildersAssumption ==
    /\ Null \notin Address /\ Address \cap Builder = {}
    /\ VariableType \subseteq DataType
    /\ Name # {}
    /\ MaxHeld \in Nat

VARIABLES
    heap,       \* the nodes that live, by address
    client,     \* the nodes the client's own pointers own
    pending,    \* the nodes each builder owns, in the order they were added
    variables,  \* the Variables each builder holds, by name
    given,      \* history: what addVariable was given since the last build()
    shared,     \* history: Functions handed over while something owned them
    intact      \* no node was destroyed that something else still owned

vars == <<heap, client, pending, variables, given, shared, intact>>

Live == DOMAIN heap

Content(o) == IF o \in Builder THEN pending[o] ELSE heap[o].kids

Owner == Builder \cup Live

Cell == [kind : NodeKind, kids : Seq(Address \cup {Null}), scope : Scope,
         parameters : Scope]

Empty == [x \in {} |-> "Void"]

-----------------------------------------------------------------------------
(* Memory                                                                  *)

Free == Address \ Live

(***************************************************************************)
(* Nodes and what they own, directly or not.                               *)
(***************************************************************************)
Closed(S) ==
    \A n \in S : \A i \in DOMAIN heap[n].kids : heap[n].kids[i] \in S \cup {Null}

Subtrees(R) ==
    {n \in Live : \A S \in SUBSET Live : R \ {Null} \subseteq S /\ Closed(S) => n \in S}

Elements(s) == {s[i] : i \in DOMAIN s}

(***************************************************************************)
(* A pointer passed with move(): one the client owns, or null; the same    *)
(* pointer twice is null the second time.                                  *)
(***************************************************************************)
Movable == client \cup {Null}

Distinct(s) == \A i, j \in DOMAIN s : s[i] = s[j] /\ i # j => s[i] = Null

IsExpr(n) == n # Null => heap[n].kind \notin {"Function", "Module"}

Plain(kind, kids) ==
    [kind |-> kind, kids |-> kids, scope |-> Empty, parameters |-> Empty]

Adding(a, cell) == [n \in Live \cup {a} |-> IF n = a THEN cell ELSE heap[n]]

(***************************************************************************)
(* The client gets a new node, for which it gives the pointers moved.      *)
(***************************************************************************)
New(a, cell, moved) ==
    /\ a \in Free
    /\ heap' = Adding(a, cell)
    /\ client' = (client \ moved) \cup {a}

(***************************************************************************)
(* The destructor of a node runs those of its members; nothing they free   *)
(* is owned by anything else.                                              *)
(***************************************************************************)
DeletesOnly(R) ==                        \* a mutant of Delete
    heap' = [n \in Live \ R |-> heap[n]]

LeavesGarbage(R) ==                      \* a mutant of Delete
    heap' = [n \in Live |-> IF n \in Subtrees(R) THEN Plain(Undefined, <<>>) ELSE heap[n]]

Delete(R) ==
    /\ Subtrees(R) \cap shared = {}
    /\ heap' = [n \in Live \ Subtrees(R) |-> heap[n]]

-----------------------------------------------------------------------------
(* Constructors                                                            *)

MakeLeaf(a) ==
    /\ New(a, Plain("LiteralInt32", <<>>), {})
    /\ UNCHANGED <<pending, variables, given>>

MakeReturn(a, e) ==
    /\ e \in Movable /\ IsExpr(e)
    /\ New(a, Plain("Return", <<e>>), {e})
    /\ UNCHANGED <<pending, variables, given>>

MakeBinary(a, l, r) ==
    /\ {l, r} \subseteq Movable /\ Distinct(<<l, r>>) /\ IsExpr(l) /\ IsExpr(r)
    /\ New(a, Plain("Binary", <<l, r>>), {l, r})
    /\ UNCHANGED <<pending, variables, given>>

MakeConditionalUnchecked(a, c, t, f) ==  \* a mutant of MakeConditional
    /\ {c, t, f} \subseteq Movable /\ Distinct(<<c, t, f>>)
    /\ IsExpr(c) /\ IsExpr(t) /\ IsExpr(f)
    /\ New(a, Plain("Conditional", <<c, t, f>>), {c, t, f})
    /\ UNCHANGED <<pending, variables, given>>

MakeConditional(a, c, t, f) ==
    /\ {c, t, f} \subseteq Movable /\ Distinct(<<c, t, f>>)
    /\ IsExpr(c) /\ IsExpr(t) /\ IsExpr(f)
    /\ c # Null
    /\ New(a, Plain("Conditional", <<c, t, f>>), {c, t, f})
    /\ UNCHANGED <<pending, variables, given>>

ForgetsBranches(t, f) ==                 \* a mutant of MakeConditionalThrows
    /\ {t, f} \subseteq Movable /\ Distinct(<<t, f>>) /\ IsExpr(t) /\ IsExpr(f)
    /\ client' = client \ {t, f}
    /\ UNCHANGED <<heap, pending, variables, given>>

(***************************************************************************)
(* ARG_NOT_NULL(condition_) comes after the members have taken the         *)
(* branches over: the exception destroys them.                             *)
(***************************************************************************)
MakeConditionalThrows(t, f) ==
    /\ {t, f} \subseteq Movable /\ Distinct(<<t, f>>) /\ IsExpr(t) /\ IsExpr(f)
    /\ Delete({t, f})
    /\ client' = client \ {t, f}
    /\ UNCHANGED <<pending, variables, given>>

MakeFunction(a, body) ==
    /\ body \in Movable /\ IsExpr(body)
    /\ New(a, Plain("Function", <<body>>), {body})
    /\ UNCHANGED <<pending, variables, given>>

-----------------------------------------------------------------------------
(* Builders                                                                *)

Held ==
    Len(pending["block"]) + Len(pending["function"]) + Len(pending["module"])
    + Cardinality(DOMAIN variables["block"]) + Cardinality(DOMAIN variables["function"])
    + Cardinality(DOMAIN variables["parameters"])

(***************************************************************************)
(* ScopeBuilder::addVariable: emplace leaves the entry that is there.      *)
(***************************************************************************)
AddVariable(b, x, type) ==
    /\ Held < MaxHeld
    /\ variables' = [variables EXCEPT ![b] =
                        [y \in DOMAIN @ \cup {x} |-> IF y \in DOMAIN @ THEN @[y] ELSE type]]
    /\ given' = [given EXCEPT ![b] = @ \cup {<<x, type>>}]
    /\ UNCHANGED <<heap, client, pending>>

Add(b, n) ==
    /\ n \in Movable
    /\ Held < MaxHeld
    /\ pending' = [pending EXCEPT ![b] = Append(@, n)]
    /\ client' = client \ {n}
    /\ UNCHANGED <<heap, variables, given>>

AddExpression(b, e) == IsExpr(e) /\ Add(b, e)

(***************************************************************************)
(* addFunction with a unique_ptr; or with a plain pointer that the client  *)
(* has released, or releases at once.                                      *)
(***************************************************************************)
AddFunction(f) == (f # Null => heap[f].kind = "Function") /\ Add("module", f)

(***************************************************************************)
(* addFunction with a plain pointer that is owned already, by the client,  *)
(* by a Module or by this builder itself, and stays so.                    *)
(***************************************************************************)
AddFunctionPointer(f) ==
    /\ f \in Live /\ heap[f].kind = "Function"
    /\ Held < MaxHeld
    /\ pending' = [pending EXCEPT !["module"] = Append(@, f)]
    /\ shared' = shared \cup {f}
    /\ UNCHANGED <<heap, client, variables, given, intact>>

(***************************************************************************)
(* The builders bs hold nothing any more, except for some Variables: of    *)
(* builder b those named in kept[b].                                       *)
(***************************************************************************)
Emptied(bs, kept) ==
    /\ pending' = [b \in Builder |-> IF b \in bs THEN <<>> ELSE pending[b]]
    /\ variables' = [b \in ScopeBuilder |->
                        IF b \in bs
                        THEN [x \in kept[b] \cap DOMAIN variables[b] |-> variables[b][x]]
                        ELSE variables[b]]
    /\ given' = [b \in ScopeBuilder |-> IF b \in bs THEN {} ELSE given[b]]

KeepsPending(bs) ==                      \* a mutant of MovedFrom
    /\ UNCHANGED pending
    /\ variables' = [b \in ScopeBuilder |-> IF b \in bs THEN Empty ELSE variables[b]]
    /\ given' = [b \in ScopeBuilder |-> IF b \in bs THEN {} ELSE given[b]]

(***************************************************************************)
(* build() moves the members out: a vector is empty then, but what is left *)
(* of an unordered_map is not specified.                                   *)
(***************************************************************************)
MovedFrom(bs) == \E kept \in [bs -> SUBSET Name] : Emptied(bs, kept)

Built(b) ==
    [kind |-> "Block", kids |-> pending[b], scope |-> variables[b], parameters |-> Empty]

BuildBlock(a, b) ==
    /\ New(a, Built(b), {})
    /\ MovedFrom({b})

Declared(body) ==
    [kind |-> "Function", kids |-> <<body>>, scope |-> Empty,
     parameters |-> variables["parameters"]]

BuildFunction(a, body) ==
    /\ {a, body} \subseteq Free /\ a # body
    /\ heap' = [n \in Live \cup {a, body} |->
                   IF n = body THEN Built("function")
                   ELSE IF n = a THEN Declared(body) ELSE heap[n]]
    /\ client' = client \cup {a}
    /\ MovedFrom({"function", "parameters"})

BuildModule(a) ==
    /\ New(a, Plain("Module", pending["module"]), {})
    /\ MovedFrom({"module"})

(***************************************************************************)
(* The client destroys a node it owns, or a builder.                       *)
(***************************************************************************)
Destroy(n) ==
    /\ n \in client
    /\ Delete({n})
    /\ client' = client \ {n}
    /\ UNCHANGED <<pending, variables, given>>

DestroyBuilder(b) ==
    LET bs == {b} \cup (IF b = "function" THEN {"parameters"} ELSE {}) IN
    /\ Delete(Elements(pending[b]))
    /\ Emptied(bs, [c \in bs |-> {}])
    /\ UNCHANGED client

(***************************************************************************)
(* A destruction of either kind that frees a node somebody else owns.      *)
(***************************************************************************)
FreesShared ==
    /\ \E R \in {{n} : n \in client} \cup {Elements(pending[b]) : b \in Builder} :
          Subtrees(R) \cap shared # {}
    /\ intact' = FALSE
    /\ UNCHANGED <<heap, client, pending, variables, given, shared>>

-----------------------------------------------------------------------------
Init ==
    /\ heap = [n \in {} |-> Plain("Block", <<>>)]
    /\ client = {}
    /\ pending = [b \in Builder |-> <<>>]
    /\ variables = [b \in ScopeBuilder |-> Empty]
    /\ given = [b \in ScopeBuilder |-> {}]
    /\ shared = {}
    /\ intact = TRUE

Construct(a) ==
    \/ MakeLeaf(a)
    \/ \E e \in Movable : MakeReturn(a, e) \/ MakeFunction(a, e)
    \/ \E l, r \in Movable : MakeBinary(a, l, r)
    \/ \E c, t, f \in Movable : MakeConditional(a, c, t, f)
    \/ \E b \in BlockBuilder : BuildBlock(a, b)
    \/ \E body \in Free : BuildFunction(a, body)
    \/ BuildModule(a)

Collect ==
    \/ \E b \in ScopeBuilder, x \in Name, type \in VariableType : AddVariable(b, x, type)
    \/ \E b \in BlockBuilder, e \in Movable : AddExpression(b, e)
    \/ \E f \in Movable : AddFunction(f)

Discard ==
    \/ \E n \in client : Destroy(n)
    \/ \E b \in Builder : DestroyBuilder(b)
    \/ \E t, f \in Movable : MakeConditionalThrows(t, f)

Operation == (\E a \in Free : Construct(a)) \/ Collect \/ Discard

Next ==
    /\ intact
    /\ \/ Operation /\ UNCHANGED <<shared, intact>>
       \/ \E f \in Live : AddFunctionPointer(f)
       \/ FreesShared

Spec == Init /\ [][Next]_vars

-----------------------------------------------------------------------------
(* Properties                                                              *)

(***************************************************************************)
(* The members of the nodes and of the builders have the types they are    *)
(* declared with.                                                          *)
(***************************************************************************)
TypeOK ==
    /\ Live \subseteq Address
    /\ heap \in [Live -> Cell]
    /\ client \subseteq Address
    /\ pending \in [Builder -> Seq(Address \cup {Null})]
    /\ variables \in [ScopeBuilder -> Scope]
    /\ given \in [ScopeBuilder -> SUBSET (Name \X DataType)]
    /\ shared \subseteq Address
    /\ intact \in BOOLEAN

(***************************************************************************)
(* What is owned lives, and only what the client itself handed over by a   *)
(* plain pointer while it was owned is ever owned twice, however nodes     *)
(* went from the client to builders and from builders to nodes.            *)
(***************************************************************************)
NoDangling ==
    /\ client \subseteq Live
    /\ \A o \in Owner : \A i \in DOMAIN Content(o) : Content(o)[i] \in Live \cup {Null}

OwnedOnce ==
    /\ \A o \in Owner : \A i \in DOMAIN Content(o) : Content(o)[i] \notin client \ shared
    /\ \A o, p \in Owner : \A i \in DOMAIN Content(o), j \in DOMAIN Content(p) :
          Content(o)[i] = Content(p)[j] /\ Content(o)[i] \notin shared \cup {Null}
             => o = p /\ i = j

OneOwner == NoDangling /\ OwnedOnce

(***************************************************************************)
(* Everything that lives is in a tree the client or a builder owns, so it  *)
(* is destroyed some time: no node leaks, and none owns itself.            *)
(***************************************************************************)
Roots == client \cup UNION {Elements(pending[b]) : b \in Builder}

NothingLeaks == Subtrees(Roots) = Live

(***************************************************************************)
(* "Destroying any node also destroys all of its descendants"              *)
(* (src/README.md:80), and nothing else.                                   *)
(***************************************************************************)
WholeTreesDie ==
    LET dead == Live \ Live' IN
    /\ Closed(dead)
    /\ Subtrees(dead \cap Roots) = dead

DestroysDescendants == [][WholeTreesDie]_vars

(***************************************************************************)
(* A Module and what it owns, read as a tree of module Ast: at says which  *)
(* node has each position, last where its subtree ends, and type what its  *)
(* dataType() returns, which is kept in no member.                         *)
(***************************************************************************)
Numberings(S) ==
    {at \in [1 .. Cardinality(S) -> S] : \A i, j \in DOMAIN at : at[i] = at[j] => i = j}

Position(at, n) == IF n = Null THEN Null ELSE CHOOSE i \in DOMAIN at : at[i] = n

Ends(at) ==
    {last \in [DOMAIN at -> DOMAIN at] : last[Root] = Len(at) /\ \A i \in DOMAIN at : i <= last[i]}

Laid(at, last, type) ==
    [i \in DOMAIN at |->
        [kind      |-> heap[at[i]].kind,
         kids      |-> [j \in DOMAIN heap[at[i]].kids |-> Position(at, heap[at[i]].kids[j])],
         last      |-> last[i],
         name      |-> CHOOSE x \in Name : TRUE,
         dataType  |-> type[i],
         scope     |-> heap[at[i]].scope,
         lacks     |-> FALSE,
         repeats   |-> {},
         operation |-> "Add"]]

NodeType == {"Int32", "Void", Undefined}       \* of the nodes made here

(***************************************************************************)
(* What the walker and the visitors assume of a Module is true of every    *)
(* Module a client can build that owns no shared Function, whatever was    *)
(* built and destroyed before, and whatever other Modules share: numbered  *)
(* the way module Ast does, it is one of Ast's trees.                      *)
(***************************************************************************)
IsLaidOut(n) ==
    \E at \in Numberings(Subtrees({n})) :
       /\ at[Root] = n
       /\ \E last \in Ends(at), type \in [DOMAIN at -> NodeType] : IsTree(Laid(at, last, type))

Alone(ks) == Elements(ks) \cap shared = {}

ModulesAreTrees ==
    \A n \in client : heap[n].kind = "Module" /\ Alone(heap[n].kids) => IsLaidOut(n)

-----------------------------------------------------------------------------
(* What the program says, and does not do                                  *)

(***************************************************************************)
(* "More than one variable named '...' was defined in the current scope."  *)
(* (src/src/ExprRunner.cpp:115) is said of a Block that was given two      *)
(* Variables of one name; but no Block ever has them, since the builder    *)
(* has dropped the second.                                                 *)
(***************************************************************************)
DuplicatesKept ==
    \A b \in BlockBuilder : \A v \in given[b] : variables[b][v[1]] = v[2]

=============================================================================
