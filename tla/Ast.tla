-------------------------------- MODULE Ast --------------------------------
(***************************************************************************)
(* The expression trees of src/src/AST.hpp.                                *)
(*                                                                         *)
(* A tree is a sequence of node records, and a node's identity (its C++    *)
(* address) is its position in the sequence.  Position 1 is the Module,    *)
(* and positions are handed out parent first, children from left to right, *)
(* so the nodes that node n owns, directly or not, are exactly the         *)
(* positions n+1 .. ast[n].last (the nested-set encoding of a tree).       *)
(*                                                                         *)
(* Fields a kind of node does not have hold an arbitrary value: name is    *)
(* meant for VariableRef and AssignVariable, scope for Block, operation    *)
(* for Binary.  dataType is what the virtual member dataType() returns;    *)
(* for a Function it is returnType().                                      *)
(*                                                                         *)
(* lacks says that a pointer of the node itself is null: the Variable of a *)
(* VariableRef or AssignVariable, the Scope of a Block or a Variable in    *)
(* it.  Names that several Variables of a Block's Scope have, which only   *)
(* Scope's own constructor lets through, are its repeats; such Variables   *)
(* are taken to be of one type.                                            *)
(***************************************************************************)
EXTENDS Integers, Sequences

CONSTANT Name                            \* the names variables can have

NodeKind == {"Binary", "Invoke", "VariableRef", "Conditional", "Switch",
             "Block", "LiteralInt32", "LiteralFloat", "AssignVariable",
             "Return", "Module", "Function"}

OperationKind == {"Add", "Sub", "Mul", "Div"}

DataType == {"Void", "Bool", "Int32", "Pointer", "Float", "Double"}

(***************************************************************************)
(* dataType() of a null pointer, of a Block without expressions            *)
(* (expressions_.back() of an empty vector), or of a node whose Variable   *)
(* is null, is undefined behaviour.                                        *)
(***************************************************************************)
Undefined == "undefined"

Null  == 0                               \* a null unique_ptr
Root  == 1                               \* the Module given to walkTree

Scope == UNION {[S -> DataType] : S \in SUBSET Name}

Node == [kind      : NodeKind,
         kids      : Seq(Nat),           \* owned children, in walking order
         last      : Nat,                \* last position of the subtree
         name      : Name,
         dataType  : DataType \cup {Undefined},
         scope     : Scope,
         lacks     : BOOLEAN,
         repeats   : SUBSET Name,
         operation : OperationKind]

LeafKind   == {"LiteralInt32", "LiteralFloat", "VariableRef"}
InnerKind  == {"Binary", "Conditional", "Block", "AssignVariable", "Return",
               "Module", "Function"}

(***************************************************************************)
(* Enumerators of NodeKind that no class of AST.hpp returns; only a class  *)
(* a client derives from Expr can have one of them.                        *)
(***************************************************************************)
ClientKind == {"Invoke", "Switch"}

-----------------------------------------------------------------------------
(***************************************************************************)
(* The members each class holds.  The Conditional constructor refuses a    *)
(* null condition; every other pointer may be null.                        *)
(***************************************************************************)
Members(ast, n) ==
    LET node == ast[n] IN
    /\ node.kind \in LeafKind \cup ClientKind => node.kids = <<>>
    /\ node.kind = "Binary" => Len(node.kids) = 2
    /\ node.kind \in {"AssignVariable", "Return", "Function"} => Len(node.kids) = 1
    /\ node.kind = "Conditional" => Len(node.kids) = 3 /\ node.kids[1] # Null
    /\ node.kind = "Module" <=> n = Root
    /\ node.lacks => node.kind \in {"Block", "VariableRef", "AssignVariable"}
    /\ node.repeats # {} => node.kind = "Block" /\ node.repeats \subseteq DOMAIN node.scope
    /\ \A i \in DOMAIN node.kids :
          node.kids[i] # Null =>
             (ast[node.kids[i]].kind = "Function" <=> node.kind = "Module")

(***************************************************************************)
(* dataType(), one line per override.                                      *)
(***************************************************************************)
TypeAt(ast, k) == IF k = Null THEN Undefined ELSE ast[k].dataType

DataTypeRule(ast, n) ==
    LET node == ast[n] IN
    /\ node.kind = "LiteralInt32"   => node.dataType = "Int32"
    /\ node.kind = "LiteralFloat"   => node.dataType = "Float"
    /\ node.kind = "Function" => node.dataType \in DataType
    /\ node.kind \in {"VariableRef", "AssignVariable"}
          => node.dataType \in IF node.lacks THEN {Undefined} ELSE DataType
    /\ node.kind = "Binary" => node.dataType = TypeAt(ast, node.kids[2])
    /\ node.kind = "Return" => node.dataType = TypeAt(ast, node.kids[1])
    /\ node.kind = "Block"  =>
          node.dataType = IF node.kids = <<>> THEN Undefined
                          ELSE TypeAt(ast, node.kids[Len(node.kids)])
    /\ node.kind = "Conditional" =>
          node.dataType = IF node.kids[2] # Null THEN TypeAt(ast, node.kids[2])
                          ELSE IF node.kids[3] = Null THEN "Void"
                          ELSE TypeAt(ast, node.kids[3])
    /\ node.kind \in ClientKind \cup {"Module"} => node.dataType = "Void"

(***************************************************************************)
(* The numbering.  Covered(ast, n, i) are the last positions used once     *)
(* node n and its children before the i-th are numbered; m follows them    *)
(* when it is the position after the largest.                              *)
(***************************************************************************)
Covered(ast, n, i) ==
    {n} \cup {ast[ast[n].kids[j]].last :
                 j \in {j \in DOMAIN ast[n].kids : j < i /\ ast[n].kids[j] # Null}}

IsLastCovered(ast, n, i, c) ==
    /\ c \in Covered(ast, n, i)
    /\ \A d \in Covered(ast, n, i) : d <= c

Numbered(ast, n) ==
    /\ n <= ast[n].last /\ ast[n].last <= Len(ast)
    /\ \A i \in DOMAIN ast[n].kids :
          LET k == ast[n].kids[i] IN
          k # Null =>
             /\ n < k /\ k <= Len(ast) /\ ast[k].last <= ast[n].last
             /\ \A c \in Covered(ast, n, i) :
                   c < k /\ (IsLastCovered(ast, n, i, c) => k = c + 1)
    /\ \A c \in Covered(ast, n, Len(ast[n].kids) + 1) :
          IsLastCovered(ast, n, Len(ast[n].kids) + 1, c) => ast[n].last = c

(***************************************************************************)
(* Every node owns its children and no node has two owners.                *)
(***************************************************************************)
IsTree(ast) ==
    /\ ast \in Seq(Node)
    /\ ast # <<>>
    /\ ast[Root].last = Len(ast)
    /\ \A n \in DOMAIN ast : Members(ast, n) /\ DataTypeRule(ast, n) /\ Numbered(ast, n)

-----------------------------------------------------------------------------
(***************************************************************************)
(* Lexical scoping, read off the tree alone: node b encloses n, and        *)
(* Binds(ast, n, x, b) says that b is the innermost Block around n whose   *)
(* scope declares x.                                                       *)
(***************************************************************************)
Encloses(ast, b, n) == b < n /\ n <= ast[b].last

Declares(ast, b, x) == ast[b].kind = "Block" /\ x \in DOMAIN ast[b].scope

Binds(ast, n, x, b) ==
    /\ b \in DOMAIN ast /\ Encloses(ast, b, n) /\ Declares(ast, b, x)
    /\ \A c \in DOMAIN ast :
          Encloses(ast, c, n) /\ Declares(ast, c, x) => c <= b

(***************************************************************************)
(* Node m is closed before node n by a walk that closes children first.    *)
(***************************************************************************)
ClosesBefore(ast, m, n) ==
    \/ ast[m].last < ast[n].last
    \/ ast[m].last = ast[n].last /\ n < m

=============================================================================
