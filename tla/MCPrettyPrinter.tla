-------------------------- MODULE MCPrettyPrinter --------------------------
(***************************************************************************)
(* Modules to print, one after the other with one printer.                 *)
(***************************************************************************)
EXTENDS PrettyPrinter, AstTerms

Scoped(t) == [x \in {AnyName} |-> t]

Leaves == {Int32Lit, Client, BlockOf(Scoped("Double"), <<Int32Lit>>)}

Inner(S) ==
    {Assign(AnyName, "Int32", v) : v \in S \cup {NoTerm}}
    \cup {Ret(v) : v \in S}
    \cup {Bin("Sub", l, r) : l \in S, r \in {Int32Lit, NoTerm}}
    \cup {Cond(Int32Lit, t, f) : t \in {NoTerm, Ret(FloatLit)}, f \in S \cup {NoTerm}}
    \cup {BlockOf(Scoped("Bool"), s) :
            s \in {<<>>} \cup {<<e, Ref(AnyName, "Bool")>> : e \in S}}

Exprs ==
    Inner(Leaves) \cup Inner({Bin("Add", Ret(FloatLit), Int32Lit)} \cup Inner(Leaves))

(***************************************************************************)
(* Null Variables and Scopes.                                              *)
(***************************************************************************)
Amiss ==
    LET e == BlockOf(Scoped("Double"), <<Int32Lit>>) IN
    {Lacking(Ref(AnyName, "Bool")), Lacking(Assign(AnyName, "Bool", Int32Lit)),
     Lacking(BlockOf(NoScope, <<>>)), Lacking(e), Ret(Lacking(e))}

MCPrograms ==
    {ModuleOf(<<BuiltFunction("Int32", <<e>>)>>) : e \in Exprs \cup Amiss}
    \cup {ModuleOf(fs) :
            fs \in {<<>>, <<NoTerm>>,
                    <<BuiltFunction("Int32", <<>>), FunctionOf("Float", Int32Lit)>>}}

=============================================================================
