------------------------------- MODULE EvalMC -------------------------------
(* Programs for Eval: every form with every filling from small sets of      *)
(* expressions, and loops, errors and macros of each kind.                  *)
EXTENDS Eval

V(x) == [form |-> "var", name |-> x]
N(n) == Const(<<"num", n>>)
P(p) == Const(<<"proc", p>>)
Lam(ps, rest, body) == [form |-> "LAMBDA", params |-> ps, rest |-> rest, body |-> body]
If(es) == [form |-> "IF0", subs |-> es]
Def(x, e) == [form |-> "DEF0", name |-> x, subs |-> <<e>>]
Set(x, e) == [form |-> "SET0", name |-> x, subs |-> <<e>>]
Mac(x, e) == [form |-> "MACRO0", name |-> x, subs |-> <<e>>]
Seq2(a, b) == [form |-> "BEGIN", body |-> <<a, b>>]
Bind(x, e) == [name |-> x, init |-> e]
LetForm(f, name, bs, body) ==
  [form |-> f, name |-> name, bindings |-> bs, body |-> body]
Let(bs, e) == LetForm("LET0", "", bs, <<e>>)
Clause(t, b) == [test |-> t, body |-> b, feed |-> FALSE]
Feed(t, f) == [test |-> t, body |-> <<f>>, feed |-> TRUE]
Cond(cs) == [form |-> "COND0", clauses |-> cs]
Case(key, cs) == [form |-> "CASE0", key |-> key, clauses |-> cs]
When(vs, t, b) == [data |-> vs, test |-> t, body |-> b]
And(es) == [form |-> "AND0", subs |-> es]
Or(es) == [form |-> "OR0", subs |-> es]
Delay1(e) == [form |-> "DELAY", subs |-> <<e>>]
Stream(a, b) == [form |-> "C0STREAM", subs |-> <<a, b>>]
Call0(f) == CallOf(<<f>>)
Call1(f, a) == CallOf(<<f, a>>)
Call2(f, a, b) == CallOf(<<f, a, b>>)
CallCC(k, body) == Call1(P("CONTINUATION"), Lam(<<k>>, "", <<body>>))
Deep == 30
Run(forms, depth) == [forms |-> forms, depth |-> depth, pure |-> FALSE]
List == Lam(<<>>, "l", <<V("l")>>)
-----------------------------------------------------------------------------
(* Expressions without side effects, of x, a number, and y, a list of one. *)

Forms(A, B) ==
  UNION {{Call2(P("CONS"), a, b), Call2(List, a, b),
          If(<<a, b, V("x")>>), If(<<a, b>>),
          Let(<<Bind("x", a), Bind("z", V("x"))>>, Call2(P("CONS"), V("z"), b)),
          LetForm("LET0AST", "", <<Bind("x", a), Bind("z", V("x"))>>,
                  <<Call2(P("CONS"), V("z"), b)>>),
          LetForm("LET0REC", "", <<Bind("f", Lam(<<"x">>, "r", <<Call2(P("CONS"), V("x"), V("r"))>>))>>,
                  <<Call2(V("f"), a, b)>>),
          LetForm("LET0", "g", <<Bind("u", a)>>,
                  <<If(<<V("u"), Call1(V("g"), Const(F)), b>>)>>),
          Cond(<<Clause(a, <<>>), Clause(b, <<V("y")>>)>>),
          Cond(<<Feed(a, Lam(<<"w">>, "", <<Call2(List, V("w"), V("w"))>>)), Clause(N(1), <<b>>)>>),
          Case(a, <<When(<<F>>, N(0), <<b>>), When(<<Nil, <<"num", 1>>>>, N(0), <<V("y"), a>>)>>),
          Case(a, <<When(<<F>>, N(0), <<V("x")>>), When(<<>>, b, <<V("y")>>)>>),
          And(<<a, b>>), Or(<<a, b>>),
          CallOf(<<P("PAPPLY"), List, a, Call2(List, b, a)>>),
          CallOf(<<P("LIST_STAR"), a, b, V("y")>>)} : a \in A, b \in B}

Atomic == {Const(F), V("x"), V("y")}
Pure ==
  {[forms |-> <<CallOf(<<Lam(<<"x">>, "y", <<e>>), N(1), N(2)>>)>>,
    depth |-> Deep, pure |-> TRUE] :
     e \in Forms(Forms(Atomic, {V("x"), V("y")}), {V("x")})
           \cup {And(<<>>), Or(<<>>), LetForm("LET0AST", "", <<>>, <<V("x")>>)}}

(* What they mean: a reference evaluator, in which values are values and   *)
(* environments functions.                                                 *)
With(env, x, v) == [y \in DOMAIN env \cup {x} |-> IF y = x THEN v ELSE env[y]]
ListVal(vs) == LET l[k \in 0..Len(vs)] == IF k = 0 THEN Nil
                                          ELSE <<"pair", vs[Len(vs) + 1 - k], l[k - 1]>>
               IN  l[Len(vs)]

RECURSIVE Meaning(_, _), Body(_, _), Applied(_, _), Spread(_), Elements(_)
RECURSIVE CondOf(_, _), LetStar(_, _, _), AndOrOf(_, _, _)

Spread(vs) ==
  IF Len(vs) = 1 THEN vs[1] ELSE <<"pair", vs[1], Spread(Tail(vs))>>

Elements(l) == IF l = Nil THEN <<>> ELSE <<l[2]>> \o Elements(l[3])

Applied(f, vs) ==
  IF f[1] = "proc"
  THEN CASE f[2] = "CONS" -> <<"pair", vs[1], vs[2]>>
         [] f[2] = "LIST_STAR" -> Spread(vs)
         [] f[2] = "PAPPLY" -> Applied(vs[1], Elements(Spread(Tail(vs))))
  ELSE LET lam == f[2]
           n == Len(lam.params)
           bound == [x \in DOMAIN f[3] \cup {lam.params[k] : k \in 1..n} |->
                       IF \E k \in 1..n : lam.params[k] = x
                       THEN vs[CHOOSE k \in 1..n : lam.params[k] = x]
                       ELSE f[3][x]]
           env == IF lam.rest = "" THEN bound
                  ELSE With(bound, lam.rest, ListVal(SubSeq(vs, n + 1, Len(vs))))
       IN  Body(lam.body, IF f[4] = "" THEN env ELSE
                          IF f[4] \in {lam.params[k] : k \in 1..n} THEN env
                          ELSE With(env, f[4], f))

Body(es, env) == Meaning(es[Len(es)], env)

CondOf(cs, env) ==
  IF cs = <<>> THEN Nil
  ELSE LET v == Meaning(cs[1].test, env)
       IN  CASE v = F -> CondOf(Tail(cs), env)
             [] v # F /\ cs[1].body = <<>> -> v
             [] v # F /\ cs[1].feed -> Applied(Meaning(cs[1].body[1], env), <<v>>)
             [] v # F /\ cs[1].body # <<>> /\ ~cs[1].feed -> Body(cs[1].body, env)

AndOrOf(stop, es, env) ==
  LET v == Meaning(Head(es), env)
  IN  IF Len(es) = 1 \/ (v = F) = stop THEN v ELSE AndOrOf(stop, Tail(es), env)

LetStar(bs, body, env) ==
  IF bs = <<>> THEN Body(body, env)
  ELSE LetStar(Tail(bs), body, With(env, bs[1].name, Meaning(bs[1].init, env)))

Meaning(e, env) ==
  CASE e.form = "const" -> e.value
    [] e.form = "var" -> env[e.name]
    [] e.form = "LAMBDA" -> <<"closure", e, env, "">>
    [] e.form = "call" ->
         Applied(Meaning(e.subs[1], env),
                 [k \in 1..(Len(e.subs) - 1) |-> Meaning(e.subs[k + 1], env)])
    [] e.form = "IF0" ->
         IF Meaning(e.subs[1], env) # F THEN Meaning(e.subs[2], env)
         ELSE IF Len(e.subs) = 3 THEN Meaning(e.subs[3], env) ELSE Nil
    [] e.form = "COND0" -> CondOf(e.clauses, env)
    [] e.form = "CASE0" ->
         LET v == Meaning(e.key, env)
             hits == {j \in DOMAIN e.clauses :
                        e.clauses[j].data = <<>> \/ \E d \in DOMAIN e.clauses[j].data :
                                                     e.clauses[j].data[d] = v}
             c == e.clauses[CHOOSE j \in hits : \A k \in hits : j <= k]
         IN  IF hits = {} \/ (c.data = <<>> /\ Meaning(c.test, env) = F) THEN Nil
             ELSE Body(c.body, env)
    [] e.form = "AND0" -> IF e.subs = <<>> THEN T ELSE AndOrOf(TRUE, e.subs, env)
    [] e.form = "OR0" -> IF e.subs = <<>> THEN F ELSE AndOrOf(FALSE, e.subs, env)
    [] e.form = "LET0AST" -> LetStar(e.bindings, e.body, env)
    [] e.form \in {"LET0", "LET0REC"} ->
         LET f == [params |-> [k \in DOMAIN e.bindings |-> e.bindings[k].name],
                   rest |-> "", body |-> e.body]
         IN  Applied(<<"closure", f, env, e.name>>,
                     [k \in DOMAIN e.bindings |-> Meaning(e.bindings[k].init, env)])

(* The value v of the machine, followed through the heap. *)
RECURSIVE Whole(_)
Whole(v) == IF v[1] # "cell" THEN v
            ELSE IF heap[v[2]].kind = "pair"
                 THEN <<"pair", Whole(heap[v[2]].car), Whole(heap[v[2]].cdr)>>
                 ELSE <<heap[v[2]].kind, 0>>

(* Expressions without side effects have the value that the meaning of     *)
(* their forms gives them: conditionals, lexical variables, rest           *)
(* parameters, spreading of the last argument of apply.                    *)
MeansWhatItSays ==
  sc.op = "HALT" /\ program.pure =>
    Whole(sc.value) = Meaning(program.forms[1], [x \in {} |-> Nil])
-----------------------------------------------------------------------------
(* Escapes to k, promises, shared lists, in operands and in bindings.      *)

Effects ==
  {Call1(V("k"), N(2)), Call1(P("FORCE"), V("p")),
   Call2(P("PAPPLY"), V("list"), V("a")),
   CallCC("j", Call2(V("list"), N(1), Call1(V("j"), Call1(V("j"), N(2))))),
   Set("a", Call2(V("list"), N(7), N(8)))}

Bodies == {Call2(V("list"), N(3), N(4)), N(3), Call1(V("top"), N(5)), V("p")}

Control ==
  UNION {{Run(<<Def("list", List),
                Def("a", Call2(V("list"), N(5), N(6))),
                Def("top", Const(F)), Set("top", CallCC("t", V("t"))),
                Def("p", Delay1(b)),
                Def("r", CallCC("k", f)),
                V("r")>>, Deep) :
            f \in {Call2(V("list"), x, y),
                   CallOf(<<V("list"), x, N(0), y>>),
                   Let(<<Bind("u", x), Bind("w", y)>>, Call2(P("CONS"), V("u"), V("w"))),
                   LetForm("LET0REC", "", <<Bind("u", x), Bind("w", y)>>, <<V("w")>>),
                   LetForm("LET0AST", "", <<Bind("u", x), Bind("w", y)>>, <<V("u")>>),
                   Call2(P("CONS"), x, Call2(P("CONS"), y, V("a"))),
                   CallOf(<<P("PAPPLY"), V("list"), x, Call2(V("list"), y, N(9))>>)}} :
         x, y \in Effects \cup {N(1)}, b \in Bodies}
-----------------------------------------------------------------------------
(* Loops over the list l in tail position.                                 *)

Again == Call1(V("loop"), Call1(P("CDR"), V("l")))
AtEnd == Call2(P("EQ"), V("l"), Const(Nil))
Last1(e) == If(<<AtEnd, N(0), e>>)
LoopBodies ==
  {Last1(Again),
   Last1(Seq2(N(1), Again)),
   Cond(<<Clause(AtEnd, <<N(0)>>), Clause(N(1), <<Again>>)>>),
   Cond(<<Clause(AtEnd, <<>>), Feed(Call1(P("CDR"), V("l")), V("loop")), Clause(N(1), <<N(0)>>)>>),
   Last1(Let(<<Bind("u", N(1))>>, Again)),
   Last1(LetForm("LET0REC", "", <<Bind("u", N(1))>>, <<Again>>)),
   Last1(LetForm("LET0AST", "", <<Bind("u", N(1))>>, <<Again>>)),
   Last1(CallOf(<<P("PAPPLY"), V("loop"), Call1(P("CDR"), V("l")), Const(Nil)>>)),
   Last1(CallCC("k", Again)),
   Last1(Call2(P("PEVAL"), Const(Code(Again)), Call0(P("CURR_ENV")))),
   Last1(Call1(P("PEVAL"), Const(Code(Again))))}
Loops ==
  {Run(<<Def("loop", Lam(<<"l">>, "", <<b>>)),
         Call1(V("loop"), CallOf(<<List, N(1), N(2), N(3), N(4)>>))>>, 3) : b \in LoopBodies}

(* A loop by a continuation that is called again, with no operands         *)
(* waiting: k is called with itself, then with #f.                         *)
Reenter ==
  Run(<<Def("n", Const(F)),
        Def("k", CallCC("c", V("c"))),
        If(<<V("k"), Seq2(Set("n", N(1)), Call1(V("k"), Const(F)))>>)>>, 3)
-----------------------------------------------------------------------------
(* Errors, with a hook that is a closure, one that escapes, and none.      *)

Bad == {V("nowhere"), Call1(P("CAR"), N(1)), Call1(N(1), N(2)), Call0(P("CONS")),
        Call0(Lam(<<"x">>, "", <<V("x")>>)), Set("nowhere", N(1)),
        Call2(P("PEVAL"), N(1), N(2))}
Failing(e) == Call2(V("list"), N(1), e)
Errors ==
  UNION {{Run(<<Def("list", List), Failing(e)>>, Deep),
          Run(<<Def("list", List), Def("*error-hook*", List), Failing(e)>>, Deep),
          Run(<<Def("list", List), Def("*error-hook*", Const(F)),
                Def("r", CallCC("k", Seq2(Set("*error-hook*", V("k")), Failing(e))))>>, Deep)} :
         e \in Bad}

(* Macros, the compile hook, forcing a closure, changes of shared lists.   *)
Others ==
  {Run(<<Mac("m", Lam(<<"form">>, "", <<Const(Code(If(<<V("q"), N(1)>>)))>>)),
         Def("q", N(1)), Call2(List, Call0(V("m")), Call0(V("m")))>>, Deep),
   Run(<<Def("f", Lam(<<"x">>, "", <<Const(Code(N(2)))>>)), Mac("m", V("f")),
         Call1(List, Call1(V("f"), N(1)))>>, Deep),
   Run(<<Def("h", Lam(<<"c">>, "", <<V("c")>>)), Def("*compile-hook*", V("h")),
         Call2(Lam(<<"x">>, "r", <<V("r")>>), N(1), N(2))>>, Deep),
   Run(<<Def("f", Lam(<<>>, "", <<N(1)>>)), Call1(P("FORCE"), V("f"))>>, Deep),
   Run(<<Def("s", Stream(N(1), Stream(N(2), Const(Nil)))),
         Call1(P("CAR"), Call1(P("FORCE"), Call1(P("CDR"), V("s")))),
         Call1(P("FORCE"), Call1(P("CDR"), V("s")))>>, Deep),
   Run(<<Def("a", CallOf(<<List, N(1), N(2)>>)), Def("b", Call2(P("PAPPLY"), List, V("a"))),
         Call2(P("SETCAR"), V("a"), N(7)), Call2(P("SETCDR"), V("b"), Const(Nil)), V("a")>>, Deep),
   Run(<<Def("a", CallOf(<<List, N(1), N(2), N(3)>>)),
         Call2(P("PAPPLY"), P("LIST_STAR"), V("a")),
         Call2(P("PAPPLY"), P("CONS"), Call2(List, V("a"), V("a"))), V("a")>>, Deep),
   Run(<<Def("e", Call1(Lam(<<"x">>, "", <<Call0(P("CURR_ENV"))>>), N(3))),
         Call2(P("PEVAL"), Const(Code(Def("x", N(4)))), V("e")),
         Call2(P("PEVAL"), Const(Code(V("x"))), V("e"))>>, Deep)}

OrdinaryPrograms == Pure \cup Control \cup Loops \cup {Reenter} \cup Errors \cup Others

(* A continuation that is called again after its operands have been used.  *)
ReentrantPrograms ==
  {Run(<<Def("list", List), Def("k", Const(F)), Def("n", Const(F)),
         e,
         If(<<V("n"), N(0), Seq2(Set("n", N(1)), Call1(V("k"), N(5)))>>)>>, Deep) :
     e \in LET Arg0 == CallCC("c", Seq2(Set("k", V("c")), N(1)))
           IN  {Call2(V("list"), N(7), Arg0), CallOf(<<V("list"), Arg0, N(7)>>)}}
=============================================================================
