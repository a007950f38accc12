----------------------------- MODULE MCCodeGen -----------------------------
(***************************************************************************)
(* Expressions for the code generator, wrapped as compile() wraps them.    *)
(* One name is enough: references to it, and scopes around it, differ in   *)
(* the type of the Variable.                                               *)
(***************************************************************************)
EXTENDS CodeGen, AstTerms

Scoped(t) == [x \in {AnyName} |-> t]

X(t) == Ref(AnyName, t)
SetX(t, v) == Assign(AnyName, t, v)

Atoms == {Int32Lit, FloatLit, X("Int32"), X("Float")}

Sums == {Bin(op, l, r) : op \in {"Sub"}, l \in Atoms, r \in Atoms}

Sets == {SetX(t, v) : t \in {"Int32", "Float"}, v \in Atoms}

(***************************************************************************)
(* Values built from values, and the expressions of a Block.               *)
(***************************************************************************)
Composed ==
    {Bin("Div", l, r) : l \in Sums, r \in {Int32Lit, X("Int32")}}
    \cup {Bin("Add", Int32Lit, r) : r \in Sums \cup Sets}
    \cup {SetX("Int32", s) : s \in Sums \cup Sets}
    \cup {Ret(s) : s \in Sums \cup Sets}

Lines == Atoms \cup Sums \cup Sets \cup {Ret(v) : v \in Atoms}

Scopes == {NoScope, Scoped("Int32"), Scoped("Float")}

Straight ==
    {BlockOf(s, <<a, b>>) : s \in Scopes, a \in Sets \cup {Int32Lit}, b \in Lines \cup Composed}

(***************************************************************************)
(* An inner Block that may shadow the variable, and a use after it.        *)
(***************************************************************************)
Shadowing ==
    {BlockOf(s, <<SetX(t, Int32Lit), BlockOf(u, <<a>>), b>>) :
        s \in Scopes, t \in {"Int32"}, u \in Scopes,
        a \in Sets \cup {X("Int32"), Ret(X("Float")), BlockOf(Scoped("Int32"), <<X("Int32")>>)},
        b \in Sets \cup {Ret(X("Int32")), Bin("Mul", X("Int32"), X("Int32"))}}

(***************************************************************************)
(* Expressions in places where the code generator has no value for them.   *)
(***************************************************************************)
Valueless ==
    {Ret(Int32Lit), BlockOf(NoScope, <<Int32Lit>>), BlockOf(NoScope, <<Int32Lit, Int32Lit>>),
     Cond(Int32Lit, Int32Lit, FloatLit), Cond(Int32Lit, NoTerm, Int32Lit),
     Cond(Int32Lit, NoTerm, NoTerm), BlockOf(NoScope, <<Ret(Int32Lit), Ret(Int32Lit)>>)}

Odd ==
    LET used == {Ret(e) : e \in Valueless}
                \cup {Bin("Add", e, Int32Lit) : e \in Valueless}
                \cup {Bin("Add", Int32Lit, e) : e \in Valueless}
                \cup {SetX("Int32", e) : e \in Valueless}
    IN  Valueless \cup used
        \cup {BlockOf(Scoped("Int32"), <<v, u>>) :
                 v \in {Int32Lit, SetX("Int32", Int32Lit)}, u \in used}
        \cup {BlockOf(NoScope, <<v, v, v>>) : v \in Valueless}

(***************************************************************************)
(* Missing operands, types without arithmetic or without an LLVM type,     *)
(* classes of the client's own, an empty Block.                            *)
(***************************************************************************)
Broken ==
    {Bin("Add", NoTerm, Int32Lit), SetX("Int32", NoTerm), X("Pointer"), Client,
     Ret(X("Double")), BlockOf(Scoped("Double"), <<X("Double")>>),
     BlockOf(Scoped("Pointer"), <<Int32Lit>>), BlockOf(NoScope, <<NoTerm, Int32Lit>>),
     BlockOf(NoScope, <<BlockOf(NoScope, <<>>), Int32Lit>>),
     Bin("Add", BlockOf(NoScope, <<>>), Int32Lit),
     BlockOf(NoScope, <<Ret(NoTerm), Int32Lit>>),
     BlockOf(Scoped("Bool"), <<Bin("Add", X("Bool"), X("Bool"))>>)}

(***************************************************************************)
(* Null Variables and Scopes, and Scopes with two Variables of one name.   *)
(***************************************************************************)
Amiss ==
    LET faulty == {Lacking(X("Int32")), Lacking(SetX("Int32", Int32Lit)),
                   Lacking(BlockOf(NoScope, <<Int32Lit>>)),
                   Lacking(BlockOf(Scoped("Int32"), <<X("Int32")>>)),
                   Repeated(BlockOf(Scoped("Int32"), <<SetX("Int32", Int32Lit), X("Int32")>>))}
    IN  faulty
        \cup {Ret(e) : e \in faulty}
        \cup {Bin("Add", Int32Lit, e) : e \in faulty}
        \cup {BlockOf(Scoped("Int32"), <<e, Int32Lit>>) : e \in faulty}
        \cup {Lacking(BlockOf(Scoped("Pointer"), <<Int32Lit>>)),
              Repeated(BlockOf(Scoped("Pointer"), <<Int32Lit>>))}

MCPrograms ==
    {Wrapped(e) : e \in Atoms \cup Sums \cup Sets \cup Composed \cup Straight
                        \cup Shadowing \cup Odd \cup Broken \cup Amiss}

(***************************************************************************)
(* Fewer Modules, for the questions that are about operands.               *)
(***************************************************************************)
OperandPrograms == {Wrapped(e) : e \in Odd \cup Broken \cup Amiss \cup Composed}

=============================================================================
