---------------------------- MODULE MCTreeWalker ----------------------------
(***************************************************************************)
(* Modules for the walker: every kind of node, null children in every      *)
(* place a builder or constructor lets one through, empty and nested       *)
(* Blocks, Modules of zero, one and two functions, a null function.        *)
(***************************************************************************)
EXTENDS TreeWalker, AstTerms

Leaves == {Int32Lit, Ref(AnyName, "Int32"), Client}

Inner(S, small) ==
    {Assign(AnyName, "Int32", v) : v \in S \cup {NoTerm}}
    \cup {Ret(v) : v \in S}
    \cup {Bin("Add", l, r) : l \in small, r \in S \cup {NoTerm}}
    \cup {Bin("Add", l, r) : l \in S, r \in small}
    \cup {Cond(c, t, f) : c \in S, t \in small, f \in small \cup {NoTerm}}
    \cup {Cond(Int32Lit, t, f) : t \in {NoTerm}, f \in S \cup {NoTerm}}
    \cup {BlockOf(NoScope, s) : s \in {<<>>, <<NoTerm>>}
                                  \cup {<<e>> : e \in S}
                                  \cup {<<l, e>> : l \in small, e \in S}}

Exprs ==
    LET one == Leaves \cup Inner(Leaves, Leaves)
    IN  one \cup Inner(one, {Int32Lit})

MCPrograms ==
    {ModuleOf(<<BuiltFunction("Int32", <<e>>)>>) : e \in Exprs}
    \cup {ModuleOf(fs) :
            fs \in {<<>>, <<NoTerm>>,
                    <<BuiltFunction("Int32", <<>>), BuiltFunction("Float", <<Int32Lit>>)>>,
                    <<BuiltFunction("Int32", <<Int32Lit>>), NoTerm>>,
                    <<FunctionOf("Int32", Bin("Sub", Int32Lit, Int32Lit))>>,
                    <<FunctionOf("Void", NoTerm)>>}}

=============================================================================
