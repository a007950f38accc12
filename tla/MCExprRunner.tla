---------------------------- MODULE MCExprRunner ----------------------------
(***************************************************************************)
(* Expressions to run, and what they evaluate to.                          *)
(***************************************************************************)
EXTENDS ExprRunner, AstTerms

Scoped(t) == [x \in {AnyName} |-> t]

X(t) == Ref(AnyName, t)
SetX(t, v) == Assign(AnyName, t, v)

-----------------------------------------------------------------------------
(***************************************************************************)
(* The value of a tree by recursion on it, with an environment that has    *)
(* one frame for each Block around the node, innermost first.  The result  *)
(* is the set of the possible [value, env], since a variable nothing was   *)
(* assigned to may hold anything; value is <<>> when there is none.        *)
(***************************************************************************)
Found(env, x) == CHOOSE i \in DOMAIN env : x \in DOMAIN env[i]
                                             /\ \A j \in 1 .. (i - 1) : x \notin DOMAIN env[j]

LiteralValue(n) ==
    IF ast[n].kind = "LiteralInt32" THEN Int32Value(literals[n]) ELSE FloatValue(n)

RECURSIVE Evals(_, _)
RECURSIVE EvalAll(_, _)

Evals(n, env) ==
    LET node == ast[n]
        x    == node.name
    IN
    CASE node.kind \in {"LiteralInt32", "LiteralFloat"} ->
            {[value |-> LiteralValue(n), env |-> env]}
      [] node.kind = "VariableRef" ->
            {[value |-> v, env |-> env] :
                v \in IF env[Found(env, x)][x] # <<>> THEN {env[Found(env, x)][x]}
                      ELSE Unset(TypeFor(node.dataType))}
      [] node.kind = "AssignVariable" ->
            {[value |-> <<>>, env |-> [r.env EXCEPT ![Found(env, x)][x] = r.value]] :
                r \in Evals(node.kids[1], env)}
      [] node.kind = "Binary" ->
            UNION {{[value |-> IF node.dataType = "Int32"
                               THEN IntResult(node.operation, l.value, r.value)
                               ELSE FloatResult(node.operation, l.value, r.value),
                     env |-> r.env] : r \in {r \in Evals(node.kids[2], l.env) :
                                              node.dataType = "Int32" =>
                                                 ~Traps(node.operation, l.value, r.value)}} :
                      l \in Evals(node.kids[1], env)}
      [] node.kind = "Return" -> Evals(node.kids[1], env)
      [] node.kind = "Block" ->
            {[value |-> r.value, env |-> Tail(r.env)] :
                r \in EvalAll(node.kids, <<[y \in DOMAIN node.scope |-> <<>>]>> \o env)}
      [] OTHER -> {}

EvalAll(kids, env) ==
    IF Len(kids) = 1 THEN Evals(kids[1], env)
    ELSE UNION {EvalAll(Tail(kids), r.env) : r \in Evals(kids[1], env)}

(***************************************************************************)
(* What runInt32Expr and runFloatExpr return is a value the expression     *)
(* has, however it is nested and shadowed; in particular the end of the    *)
(* walk over stacks, scopes and instructions is not felt by the caller.    *)
(***************************************************************************)
ResultIsMeaning ==
    Runnable /\ stage = "returned" /\ api # "compile"
       => result \in {r.value : r \in Evals(Expr, <<>>)}

-----------------------------------------------------------------------------
Atoms == {Int32Lit, X("Int32")}

Sums == {Bin("Sub", X("Int32"), Int32Lit), Bin("Add", Int32Lit, X("Int32")),
         Bin("Mul", Int32Lit, Int32Lit), Bin("Div", Int32Lit, X("Int32"))}

Values == Atoms \cup Sums \cup {Bin("Div", Bin("Sub", X("Int32"), Int32Lit), X("Int32"))}

(***************************************************************************)
(* Runs that mean something: a variable set, used, shadowed or never set.  *)
(***************************************************************************)
Good ==
    {Ret(Int32Lit), Ret(FloatLit), Ret(Bin("Div", Int32Lit, Int32Lit)),
     Ret(Bin("Sub", FloatLit, Bin("Div", FloatLit, FloatLit)))}
    \cup {BlockOf(Scoped("Int32"), <<s, Ret(v)>>) :
             s \in {Int32Lit, SetX("Int32", Int32Lit)}, v \in Values}
    \cup {BlockOf(Scoped("Int32"), <<SetX("Int32", Int32Lit), b, Ret(Sub)>>) :
             b \in {BlockOf(s, <<e>>) : s \in {NoScope, Scoped("Int32")},
                                       e \in {SetX("Int32", Bin("Add", X("Int32"), Int32Lit))}}
                   \cup {BlockOf(Scoped("Float"), <<SetX("Float", FloatLit)>>)},
             Sub \in {X("Int32"), Bin("Sub", Int32Lit, X("Int32"))}}
    \cup {BlockOf(Scoped("Int32"), <<SetX("Int32", Int32Lit),
                                     BlockOf(s, <<SetX(t, v), Ret(X(t))>>)>>) :
             <<s, t, v>> \in {<<NoScope, "Int32", X("Int32")>>,
                              <<Scoped("Int32"), "Int32", X("Int32")>>,
                              <<Scoped("Float"), "Float", Bin("Mul", X("Float"), FloatLit)>>}}

(***************************************************************************)
(* Runs that throw, are refused, or have no meaning: code after a Return   *)
(* or no Return, values of the wrong type, a void variable, a Conditional. *)
(***************************************************************************)
Bad ==
    {Int32Lit, Bin("Add", FloatLit, Int32Lit), Ret(X("Int32")), Ret(Cond(Int32Lit, Int32Lit, NoTerm)),
     BlockOf(NoScope, <<Ret(Int32Lit), Int32Lit>>),
     BlockOf(NoScope, <<Ret(Int32Lit), Ret(Int32Lit)>>),
     BlockOf(NoScope, <<Ret(FloatLit), Bin("Add", Int32Lit, Int32Lit)>>),
     BlockOf(Scoped("Float"), <<SetX("Int32", Int32Lit), Ret(X("Int32"))>>),
     BlockOf(Scoped("Float"), <<Ret(Bin("Add", X("Int32"), Int32Lit))>>),
     BlockOf(Scoped("Void"), <<Ret(Int32Lit)>>), BlockOf(Scoped("Bool"), <<Ret(Int32Lit)>>),
     Ret(Bin("Add", FloatLit, Int32Lit)), Ret(SetX("Int32", Int32Lit)),
     BlockOf(Scoped("Double"), <<Ret(X("Double"))>>), BlockOf(NoScope, <<Ret(NoTerm), Int32Lit>>)}

Conditionals ==
    {BlockOf(Scoped("Int32"),
             <<Cond(Int32Lit, SetX("Int32", Int32Lit), SetX("Int32", Int32Lit)), Ret(X("Int32"))>>)}

(***************************************************************************)
(* Expressions that are null or whose type cannot be told, null Variables  *)
(* and Scopes, and a Scope with two Variables of one name.                 *)
(***************************************************************************)
Amiss ==
    {NoTerm, BlockOf(NoScope, <<>>), BlockOf(NoScope, <<Ret(Int32Lit), NoTerm>>),
     Ret(Lacking(X("Int32"))), Lacking(BlockOf(NoScope, <<Ret(Int32Lit)>>)),
     BlockOf(Scoped("Int32"), <<Lacking(X("Int32")), Ret(Int32Lit)>>),
     BlockOf(Scoped("Int32"), <<Lacking(SetX("Int32", Int32Lit)), Ret(X("Int32"))>>),
     Repeated(BlockOf(Scoped("Int32"), <<Ret(X("Int32"))>>))}

MCPrograms == {Wrapped(e) : e \in Good \cup Bad \cup Conditionals \cup Amiss}

=============================================================================
