------------------------------ MODULE AstTerms ------------------------------
(***************************************************************************)
(* Trees for TLC.  A term is a node sequence of module Ast whose root is   *)
(* at position 1; the constructors below, which stand for the make         *)
(* functions and builders of AST.hpp, place the terms they own one after   *)
(* the other behind the new root.  NoTerm is a null pointer.               *)
(***************************************************************************)
EXTENDS Ast, SequencesExt

CONSTANT AnyName                         \* the name of nodes without one

NoScope == [x \in {} |-> "Void"]
NoTerm  == <<>>

TermType(t) == IF t = NoTerm THEN Undefined ELSE t[1].dataType

(***************************************************************************)
(* The term t moved up by d positions.                                     *)
(***************************************************************************)
Moved(t, d) ==
    [i \in DOMAIN t |->
        [t[i] EXCEPT !.last = @ + d,
                     !.kids = [j \in DOMAIN @ |-> IF @[j] = Null THEN Null
                                                  ELSE @[j] + d]]]

(***************************************************************************)
(* The term whose root is node (but for its children and end) and          *)
(* owns the given terms.                                                   *)
(***************************************************************************)
Own(node, terms) ==
    LET place(acc, t) ==
            IF t = NoTerm
            THEN [acc EXCEPT !.kids = Append(@, Null)]
            ELSE [below |-> acc.below \o Moved(t, 1 + Len(acc.below)),
                  kids  |-> Append(acc.kids, 2 + Len(acc.below))]
        all == FoldLeft(place, [below |-> <<>>, kids |-> <<>>], terms)
    IN  <<[node EXCEPT !.kids = all.kids, !.last = 1 + Len(all.below)]>> \o all.below

Plain(kind, type) ==
    [kind |-> kind, kids |-> <<>>, last |-> 1, name |-> AnyName,
     dataType |-> type, scope |-> NoScope, lacks |-> FALSE, repeats |-> {},
     operation |-> "Add"]

Int32Lit   == <<Plain("LiteralInt32", "Int32")>>
FloatLit   == <<Plain("LiteralFloat", "Float")>>
Client     == <<Plain("Invoke", "Void")>>
Ref(x, t)  == <<[Plain("VariableRef", t) EXCEPT !.name = x]>>
Assign(x, t, v) == Own([Plain("AssignVariable", t) EXCEPT !.name = x], <<v>>)
Bin(op, l, r) ==
    Own([Plain("Binary", TermType(r)) EXCEPT !.operation = op], <<l, r>>)
Ret(v) == Own(Plain("Return", TermType(v)), <<v>>)
Cond(c, t, f) ==
    Own(Plain("Conditional", IF t # NoTerm THEN TermType(t)
                             ELSE IF f = NoTerm THEN "Void" ELSE TermType(f)),
        <<c, t, f>>)
BlockOf(scope, exprs) ==
    Own([Plain("Block", IF exprs = <<>> THEN Undefined ELSE TermType(Last(exprs)))
            EXCEPT !.scope = scope],
        exprs)

(***************************************************************************)
(* The root of a term t without its Variable, Scope or a Variable in it;   *)
(* and with several Variables of each name in its Scope.                   *)
(***************************************************************************)
Lacking(t) ==
    <<[t[1] EXCEPT !.lacks = TRUE,
                   !.dataType = IF t[1].kind = "Block" THEN @ ELSE Undefined]>> \o Tail(t)

Repeated(t) == <<[t[1] EXCEPT !.repeats = DOMAIN t[1].scope]>> \o Tail(t)

(***************************************************************************)
(* FunctionBuilder and ModuleBuilder: a function's body is the builder's   *)
(* Block, without variables of its own.                                    *)
(***************************************************************************)
FunctionOf(type, body) == Own(Plain("Function", type), <<body>>)
BuiltFunction(type, exprs) == FunctionOf(type, BlockOf(NoScope, exprs))
ModuleOf(functions) == Own(Plain("Module", "Void"), functions)

(***************************************************************************)
(* The Module that compile() and makeExecutionContext() wrap around e; if  *)
(* e has no type, a Function that has one may still be built around it.    *)
(***************************************************************************)
Wrapped(e) ==
    ModuleOf(<<BuiltFunction(IF TermType(e) = Undefined THEN "Void" ELSE TermType(e), <<e>>)>>)

=============================================================================
