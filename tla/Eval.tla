-------------------------------- MODULE Eval --------------------------------
(***************************************************************************)
(* The register machine of src/scheme.c that evaluates expressions: one    *)
(* action per opcode of calls, definitions and special forms, application  *)
(* of closures, macros, continuations and procedures, promises, and the    *)
(* few primitives that get hold of the machine's own structures.           *)
(*                                                                         *)
(* Code is an expression tree with variables by name, so reading and the   *)
(* symbol table are left out.  What programs can share and change is kept  *)
(* as it is in the heap: pairs (the lists of evaluated arguments too),     *)
(* closures, promises, continuations, frames of variables.  Cells are      *)
(* never reclaimed here: see Memory.tla for what a program may rely on.    *)
(***************************************************************************)
EXTENDS Naturals, Sequences, FiniteSets

CONSTANT Programs       \* records [forms, depth]: expressions, and how
                        \* many frames they need

VARIABLES program,
          heap,         \* cells, numbered from 1 as they are allocated
          envs,         \* frames of variables, likewise; 1 is global
          sc            \* registers: op args code value envir dump

vars == <<program, heap, envs, sc>>

(* Values carry their type: atoms themselves, a cell its number.           *)
Nil == <<"nil", 0>>
T == <<"bool", 1>>
F == <<"bool", 0>>
Cell(i) == <<"cell", i>>
Id(v) == IF v[1] = "cell" THEN v[2] ELSE 0
Kind(h, v) == IF v[1] = "cell" THEN h[v[2]].kind ELSE v[1]
Make(k, a, d) == [kind |-> k, car |-> a, cdr |-> d]
Pair(a, d) == Make("pair", a, d)
car(h, v) == h[v[2]].car
cdr(h, v) == h[v[2]].cdr

(* The cells of the list at v, and the values in it. *)
ListCells(h, v) ==
  LET from[i \in 0..Len(h)] ==
        IF i = 0 \/ h[i].kind # "pair" THEN <<>> ELSE <<i>> \o from[Id(h[i].cdr)]
  IN  from[Id(v)]
ListOf(h, v) ==
  LET cells == ListCells(h, v) IN [k \in 1..Len(cells) |-> h[cells[k]].car]

(* The list after its first n elements. *)
Rest(h, v, n) == IF n = 0 THEN v ELSE h[ListCells(h, v)[n]].cdr

reverse_in_place(h, term, v) ==
  LET cells == ListCells(h, v)
  IN  [i \in 1..Len(h) |->
         IF \E k \in 1..Len(cells) : cells[k] = i
         THEN LET k == CHOOSE k \in 1..Len(cells) : cells[k] = i
              IN  [h[i] EXCEPT !.cdr = IF k = 1 THEN term ELSE Cell(cells[k - 1])]
         ELSE h[i]]
Last(h, v) == LET cells == ListCells(h, v) IN Cell(cells[Len(cells)])

(* list_star copies the first cell only, and changes the last but one.     *)
list_star(h, v) ==
  LET c == ListCells(h, v)
      n == Len(c)
      new == Cell(Len(h) + 1)
  IN  CASE n = 0 -> [heap |-> h, value |-> Nil]
        [] n = 1 -> [heap |-> h, value |-> h[c[1]].car]
        [] n = 2 -> [heap |-> Append(h, Pair(h[c[1]].car, h[c[2]].car)), value |-> new]
        [] n > 2 -> [heap |-> Append([h EXCEPT ![c[n - 1]].cdr = h[c[n]].car], h[c[1]]),
                     value |-> new]

(* Frames of variables. *)

new_frame_in_env(es, up) == Append(es, [up |-> up, slots |-> <<>>])
new_slot_in_env(es, e, x, v) ==
  [es EXCEPT ![e].slots = <<[name |-> x, value |-> v]>> \o @]
set_slot_in_env(es, at, v) == [es EXCEPT ![at[1]].slots[at[2]].value = v]

(* Mutant: the search goes on when the variable was found. *)
find_slot_in_env_outer(es, e, x, all) ==
  LET slots(f) == {k \in 1..Len(es[f].slots) : es[f].slots[k].name = x}
      look[f \in 0..Len(es)] ==
        IF f = 0 THEN <<>>
        ELSE IF all /\ look[es[f].up] # <<>> THEN look[es[f].up]
        ELSE IF slots(f) # {} THEN <<f, CHOOSE k \in slots(f) : TRUE>> ELSE <<>>
  IN  look[e]

(* Where the variable x is: <<frame, slot>>, or <<>> if it is unbound. *)
find_slot_in_env(es, e, x, all) ==
  LET slots(f) == {k \in 1..Len(es[f].slots) : es[f].slots[k].name = x}
      look[f \in 0..Len(es)] ==
        IF f = 0 THEN <<>>
        ELSE IF slots(f) # {}
             THEN <<f, CHOOSE k \in slots(f) : \A j \in slots(f) : k <= j>>
             ELSE IF all THEN look[es[f].up] ELSE <<>>
  IN  look[e]
Slot(at) == envs[at[1]].slots[at[2]].value
-----------------------------------------------------------------------------
(* Registers.  s_goto, s_save and s_return work on a copy of them.         *)

s_goto(s, o, c) == [s EXCEPT !.op = o, !.code = c]
s_save(s, o, a, c) ==
  [s EXCEPT !.dump = <<[op |-> o, args |-> a, envir |-> s.envir, code |-> c]>> \o @]
s_return(s, v) ==
  IF s.dump = <<>> THEN [s EXCEPT !.op = "HALT", !.value = v]
  ELSE LET f == s.dump[1]
       IN  [op |-> f.op, args |-> f.args, envir |-> f.envir, code |-> f.code,
            value |-> v, dump |-> Tail(s.dump)]
eval(s, e) == s_goto(s, "EVAL", e)
WithArgs(s, v) == [s EXCEPT !.args = v]

(* e is evaluated, and then opcode o goes on with the code c. *)
Then(e, o, c) == eval(s_save(sc, o, Nil, c), e)

Const(v) == [form |-> "const", value |-> v]
CallOf(es) == [form |-> "call", subs |-> es]
Code(e) == <<"code", e>>
Symbol(x) == <<"symbol", x>>

(* The code that the value v is: code that was quoted, or itself. *)
CodeOf(v) == IF v[1] = "code" THEN v[2] ELSE Const(v)

(* _Error_1: the error hook is called with a message, and maybe with the   *)
(* value at fault; with no hook the error is reported.                     *)
Error(s, fault) ==
  LET hook == find_slot_in_env(envs, s.envir, "*error-hook*", TRUE)
  IN  IF hook # <<>>
      THEN eval(s, CallOf(<<Const(Slot(hook)), Const(<<"string", 0>>)>>
                           \o [k \in DOMAIN fault |-> Const(fault[k])]))
      ELSE [s EXCEPT !.op = "ERR0"]

Procs == {"CAR", "CDR", "CONS", "SETCAR", "SETCDR", "EQ", "LIST_STAR", "PAPPLY",
          "PEVAL", "CURR_ENV", "CONTINUATION", "FORCE"}
Syntax == {"LAMBDA", "DEF0", "SET0", "BEGIN", "IF0", "LET0", "LET0AST", "LET0REC",
           "COND0", "CASE0", "DELAY", "AND0", "OR0", "C0STREAM", "MACRO0"}

Init ==
  /\ program \in Programs
  /\ heap = <<>> /\ envs = <<[up |-> 0, slots |-> <<>>]>>
  /\ sc = [op |-> "BEGIN", args |-> Nil, code |-> program.forms, value |-> Nil,
           envir |-> 1, dump |-> <<>>]

(* Opcodes that touch registers only. *)
Goes(o, s) == sc.op = o /\ sc' = s /\ UNCHANGED <<program, heap, envs>>
-----------------------------------------------------------------------------
(* OP_EVAL                                                                 *)

EvalVariable ==
  /\ sc.op = "EVAL" /\ sc.code.form = "var"
  /\ LET at == find_slot_in_env(envs, sc.envir, sc.code.name, TRUE)
     IN  Goes("EVAL", IF at # <<>> THEN s_return(sc, Slot(at))
                      ELSE Error(sc, <<Symbol(sc.code.name)>>))

EvalConst ==
  /\ sc.op = "EVAL" /\ sc.code.form = "const"
  /\ Goes("EVAL", s_return(sc, sc.code.value))

EvalSyntax ==
  /\ sc.op = "EVAL" /\ sc.code.form \in Syntax
  /\ Goes("EVAL", s_goto(sc, sc.code.form,
                         IF sc.code.form = "BEGIN" THEN sc.code.body ELSE sc.code))

EvalCall ==
  /\ sc.op = "EVAL" /\ sc.code.form = "call"
  /\ Goes("EVAL", Then(sc.code.subs[1], "E0ARGS", sc.code))

E0Args ==
  /\ sc.op = "E0ARGS"
  /\ \/ /\ Kind(heap, sc.value) = "macro"
        /\ heap' = Append(heap, Pair(Code(sc.code), Nil))
        /\ sc' = WithArgs(s_goto(s_save(sc, "DOMACRO", Nil, Nil), "APPLY", sc.value),
                           Cell(Len(heap')))
     \/ /\ Kind(heap, sc.value) # "macro"
        /\ sc' = s_goto(sc, "E1ARGS", Tail(sc.code.subs))
        /\ UNCHANGED heap
  /\ UNCHANGED <<program, envs>>

DoMacro == Goes("DOMACRO", eval(sc, CodeOf(sc.value)))

(* What follows when the operands, or the values of a let, are there. *)
After(o) == CASE o = "E1ARGS"  -> "APPLY"
              [] o = "LET1"    -> "LET2"
              [] o = "LET1REC" -> "LET2REC"
Operand(o, x) == IF o = "E1ARGS" THEN x ELSE x.init

(* OP_E1ARGS, OP_LET1 and OP_LET1REC: values are collected in front of the *)
(* list in args, which is saved while the next one is evaluated, and       *)
(* reversed in place when there are no more.                               *)
Operands ==
  /\ sc.op \in {"E1ARGS", "LET1", "LET1REC"}
  /\ LET h == Append(heap, Pair(sc.value, sc.args))
         new == Cell(Len(h))
         first == Last(h, new)
         rev == reverse_in_place(h, Nil, new)
     IN  \/ /\ sc.code # <<>>
            /\ heap' = h
            /\ sc' = WithArgs(eval(s_save(sc, sc.op, new, Tail(sc.code)),
                                    Operand(sc.op, Head(sc.code))), Nil)
         \/ /\ sc.code = <<>>
            /\ heap' = rev
            /\ sc' = WithArgs(s_goto(sc, After(sc.op), car(rev, first)),
                              cdr(rev, first))
  /\ UNCHANGED <<program, envs>>
-----------------------------------------------------------------------------
(* OP_APPLY                                                                *)

(* A frame for the parameters as far as there are arguments. *)
Bound(params, rest, vs, tail, up) ==
  LET n == IF Len(vs) < Len(params) THEN Len(vs) ELSE Len(params)
      slots == [k \in 1..n |-> [name |-> params[n + 1 - k], value |-> vs[n + 1 - k]]]
      more == IF rest # "" /\ n = Len(params)
              THEN <<[name |-> rest, value |-> tail]>> ELSE <<>>
  IN  [up |-> up, slots |-> more \o slots]

ApplyClosure ==
  /\ sc.op = "APPLY" /\ Kind(heap, sc.code) \in {"closure", "macro", "promise"}
  /\ LET lambda == car(heap, sc.code)[2]
         closure_env == cdr(heap, sc.code)[2]
         vs == ListOf(heap, sc.args)
         enough == Len(vs) >= Len(lambda.params)
         s == [sc EXCEPT !.envir = Len(envs) + 1]
     IN  /\ envs' = Append(envs, Bound(lambda.params, lambda.rest, vs,
                                       IF enough
                                       THEN Rest(heap, sc.args, Len(lambda.params))
                                       ELSE Nil,
                                       closure_env))
         /\ sc' = IF enough THEN WithArgs(s_goto(s, "BEGIN", lambda.body), Nil)
                  ELSE [Error([s EXCEPT !.envir = closure_env], <<>>)
                          EXCEPT !.envir = s.envir]
  /\ UNCHANGED <<program, heap>>

(* Mutant: what was waiting for the call goes on, too. *)
ApplyContinuationOnTop ==
  /\ sc.op = "APPLY" /\ Kind(heap, sc.code) = "cont"
  /\ LET k == cdr(heap, sc.code)
     IN  Goes("APPLY", s_return([sc EXCEPT !.dump = k[2] \o @],
                                IF sc.args # Nil THEN car(heap, sc.args) ELSE Nil))

ApplyContinuation ==
  /\ sc.op = "APPLY" /\ Kind(heap, sc.code) = "cont"
  /\ LET k == cdr(heap, sc.code)
     IN  Goes("APPLY", s_return([sc EXCEPT !.dump = k[2]],
                                IF sc.args # Nil THEN car(heap, sc.args) ELSE Nil))

(* Eval_Cycle counts the arguments of a procedure and tests their types.   *)
Arity(p) == CASE p = "CURR_ENV" -> 0..0
              [] p \in {"CAR", "CDR", "CONTINUATION", "FORCE"} -> 1..1
              [] p \in {"CONS", "SETCAR", "SETCDR", "EQ"} -> 2..2
              [] p = "PEVAL" -> 1..2
              [] p \in {"LIST_STAR", "PAPPLY"} -> 1 .. (Len(heap) + 1)
Passes(p, vs) ==
  /\ Len(vs) \in Arity(p)
  /\ p \in {"CAR", "CDR", "SETCAR", "SETCDR"} => Kind(heap, vs[1]) = "pair"
  /\ p = "PEVAL" /\ Len(vs) = 2 => Kind(heap, vs[2]) = "env"

ApplyProc ==
  /\ sc.op = "APPLY" /\ Kind(heap, sc.code) = "proc"
  /\ LET p == IF sc.code[1] = "proc" THEN sc.code[2] ELSE car(heap, sc.code)[2]
     IN  Goes("APPLY", IF Passes(p, ListOf(heap, sc.args))
                       THEN [sc EXCEPT !.op = p] ELSE Error(sc, <<>>))

ApplyOther ==
  /\ sc.op = "APPLY"
  /\ Kind(heap, sc.code) \notin {"closure", "macro", "promise", "cont", "proc"}
  /\ Goes("APPLY", Error(sc, <<>>))
-----------------------------------------------------------------------------
(* Closures, promises, definitions                                         *)

Allocate(cell, s) ==
  heap' = Append(heap, cell) /\ sc' = s /\ UNCHANGED <<program, envs>>
New == Cell(Len(heap) + 1)
Env(e) == <<"env", e>>

(* OP_LAMBDA: the compile hook, if there is one, gets the code first. *)
Lambda ==
  /\ sc.op = "LAMBDA"
  /\ LET hook == find_slot_in_env(envs, sc.envir, "*compile-hook*", TRUE)
     IN  IF hook = <<>>
         THEN Allocate(Make("closure", Code(sc.code), Env(sc.envir)),
                       s_return(sc, New))
         ELSE Allocate(Pair(Code(sc.code), Nil),
                       WithArgs(s_goto(s_save(sc, "LAMBDA1", sc.args, sc.code),
                                       "APPLY", Slot(hook)), New))

Lambda1 ==
  /\ sc.op = "LAMBDA1"
  /\ Allocate(Make("closure", sc.value, Env(sc.envir)), s_return(sc, New))

(* A promise is a closure without parameters, of another type. *)
PromiseOf(e) ==
  Make("promise", Code([params |-> <<>>, rest |-> "", body |-> <<e>>]), Env(sc.envir))

Delay ==
  /\ sc.op = "DELAY"
  /\ Allocate(PromiseOf(sc.code.subs[1]), s_return(sc, New))

(* OP_C0STREAM and OP_C1STREAM. *)
ConsStream0 ==
  Goes("C0STREAM", Then(sc.code.subs[1], "C1STREAM", sc.code.subs[2]))
ConsStream1 ==
  /\ sc.op = "C1STREAM"
  /\ heap' = heap \o <<PromiseOf(sc.code), Pair(sc.value, New)>>
  /\ sc' = s_return([sc EXCEPT !.args = sc.value], Cell(Len(heap) + 2))
  /\ UNCHANGED <<program, envs>>

Force ==
  /\ sc.op = "FORCE"
  /\ LET p == car(heap, sc.args)
     IN  Goes("FORCE", IF Kind(heap, p) = "promise"
                       THEN WithArgs(s_goto(s_save(sc, "SAVE_FORCED", Nil, p),
                                           "APPLY", p), Nil)
                       ELSE s_return([sc EXCEPT !.code = p], p))

(* OP_SAVE_FORCED: the cell of the value is copied over the promise. *)
SaveForced ==
  /\ sc.op = "SAVE_FORCED"
  /\ heap' = [heap EXCEPT ![sc.code[2]] =
                IF sc.value[1] = "cell" THEN heap[sc.value[2]]
                ELSE Make(sc.value[1], sc.value, Nil)]
  /\ sc' = s_return(sc, sc.value)
  /\ UNCHANGED <<program, envs>>

(* define, set! and macro: the value, then the variable. *)
Second(o) == CASE o = "DEF0"   -> "DEF1"
               [] o = "SET0"   -> "SET1"
               [] o = "MACRO0" -> "MACRO1"

Assigning ==
  /\ sc.op \in {"DEF0", "SET0", "MACRO0"}
  /\ Goes(sc.op, Then(sc.code.subs[1], Second(sc.op), sc.code.name))

Assign(all) ==
  LET at == find_slot_in_env(envs, sc.envir, sc.code, all)
  IN  envs' = IF at # <<>> THEN set_slot_in_env(envs, at, sc.value)
              ELSE new_slot_in_env(envs, sc.envir, sc.code, sc.value)
Def1 ==
  /\ sc.op = "DEF1"
  /\ Assign(FALSE)
  /\ sc' = s_return(sc, Symbol(sc.code))
  /\ UNCHANGED <<program, heap>>

(* The very closure becomes a macro. *)
Macro1 ==
  /\ sc.op = "MACRO1"
  /\ heap' = [heap EXCEPT ![sc.value[2]].kind = "macro"]
  /\ Assign(FALSE)
  /\ sc' = s_return(sc, Symbol(sc.code))
  /\ UNCHANGED program

Set1 ==
  /\ sc.op = "SET1"
  /\ LET bound == find_slot_in_env(envs, sc.envir, sc.code, TRUE) # <<>>
     IN  \/ bound /\ Assign(TRUE) /\ sc' = s_return(sc, sc.value)
         \/ ~bound /\ sc' = Error(sc, <<Symbol(sc.code)>>) /\ UNCHANGED envs
  /\ UNCHANGED <<program, heap>>
-----------------------------------------------------------------------------
(* Sequences, conditionals                                                 *)

(* Mutant: the rest is saved when there is none, too. *)
BeginSaves ==
  Goes("BEGIN", IF sc.code = <<>> THEN s_return(sc, sc.value)
                ELSE Then(Head(sc.code), "BEGIN", Tail(sc.code)))

Begin ==
  Goes("BEGIN",
       CASE Len(sc.code) = 0 -> s_return(sc, Nil)
         [] Len(sc.code) = 1 -> eval(sc, Head(sc.code))
         [] Len(sc.code) > 1 -> Then(Head(sc.code), "BEGIN", Tail(sc.code)))

If0 == Goes("IF0", Then(sc.code.subs[1], "IF1", Tail(sc.code.subs)))
If1 == Goes("IF1", eval(sc, IF sc.value # F THEN sc.code[1]
                            ELSE IF Len(sc.code) > 1 THEN sc.code[2] ELSE Const(Nil)))

TryClause(clauses) == Then(clauses[1].test, "COND1", clauses)
Cond0 == Goes("COND0", TryClause(sc.code.clauses))
Cond1 ==
  LET clause == Head(sc.code)
      more == Tail(sc.code)
  IN  Goes("COND1",
           CASE sc.value # F /\ clause.body = <<>> -> s_return(sc, sc.value)
             [] sc.value # F /\ clause.feed ->
                  eval(sc, CallOf(<<clause.body[1], Const(sc.value)>>))
             [] sc.value # F /\ clause.body # <<>> /\ ~clause.feed ->
                  s_goto(sc, "BEGIN", clause.body)
             [] sc.value = F /\ more = <<>> -> s_return(sc, Nil)
             [] sc.value = F /\ more # <<>> -> TryClause(more))

(* Numbers are cells of their own; other atoms there is but one of each.   *)
NumberOf(v) == IF v[1] = "cell" THEN car(heap, v) ELSE v
eqv(v, w) == \/ v = w
             \/ /\ Kind(heap, v) = "num" /\ Kind(heap, w) = "num"
                /\ NumberOf(v) = NumberOf(w)

(* case: the first clause with an eqv datum, or without a list of data.    *)
Case0 == Goes("CASE0", Then(sc.code.key, "CASE1", sc.code.clauses))
Case1 ==
  LET takes(c) == \/ c.data = <<>>
                  \/ \E k \in DOMAIN c.data : eqv(c.data[k], sc.value)
      js == {j \in DOMAIN sc.code : takes(sc.code[j])}
      clause == sc.code[CHOOSE j \in js : \A k \in js : j <= k]
  IN  Goes("CASE1",
           CASE js = {} -> s_return(sc, Nil)
             [] js # {} /\ clause.data # <<>> -> s_goto(sc, "BEGIN", clause.body)
             [] js # {} /\ clause.data = <<>> ->
                  Then(clause.test, "CASE2", clause.body))
Case2 == Goes("CASE2", IF sc.value # F THEN s_goto(sc, "BEGIN", sc.code)
                       ELSE s_return(sc, Nil))

(* and, or: the values that end them; the empty ones. *)
Ends(o) == IF o \in {"AND0", "AND1"} THEN sc.value = F ELSE sc.value # F
TryNext(o, es) == Then(Head(es), o, Tail(es))
AndOr0 ==
  \E o \in {"AND", "OR"} :
    Goes(o \o "0", IF sc.code.subs = <<>> THEN s_return(sc, IF o = "AND" THEN T ELSE F)
                   ELSE TryNext(o \o "1", sc.code.subs))
AndOr1 ==
  \E o \in {"AND1", "OR1"} :
    Goes(o, IF Ends(o) \/ sc.code = <<>> THEN s_return(sc, sc.value)
            ELSE TryNext(o, sc.code))
-----------------------------------------------------------------------------
(* let, letrec, let*                                                       *)

Let0 ==
  /\ sc.op \in {"LET0", "LET0REC"}
  /\ LET s == [s_goto(sc, "LET1", sc.code.bindings)
                 EXCEPT !.args = Nil, !.value = Code(sc.code)]
     IN  \/ sc.op = "LET0" /\ sc' = s /\ UNCHANGED envs
         \/ /\ sc.op = "LET0REC"
            /\ envs' = new_frame_in_env(envs, sc.envir)
            /\ sc' = [s EXCEPT !.op = "LET1REC", !.envir = Len(envs')]
  /\ UNCHANGED <<program, heap>>

(* The variables in front of the slots there are, the last one first. *)
LetSlots(bindings, vs) ==
  [k \in 1..Len(vs) |-> [name |-> bindings[Len(vs) + 1 - k].name,
                         value |-> vs[Len(vs) + 1 - k]]]

(* A named let binds its name to a closure in the frame of its variables. *)
Let2 ==
  /\ sc.op = "LET2"
  /\ LET let == sc.code[2]
         slots == LetSlots(let.bindings, ListOf(heap, sc.args))
         e == Len(envs) + 1
         loop == [params |-> [k \in DOMAIN let.bindings |-> let.bindings[k].name],
                  rest |-> "", body |-> let.body]
         named == let.name # ""
     IN  /\ envs' = Append(envs,
              [up |-> sc.envir,
               slots |-> IF named THEN <<[name |-> let.name, value |-> New]>> \o slots
                         ELSE slots])
         /\ heap' = IF named THEN Append(heap, Make("closure", Code(loop), Env(e)))
                    ELSE heap
         /\ sc' = [s_goto(sc, "BEGIN", let.body) EXCEPT !.args = Nil, !.envir = e]
  /\ UNCHANGED program

Let2Rec ==
  /\ sc.op = "LET2REC"
  /\ envs' = [envs EXCEPT ![sc.envir].slots =
                LetSlots(sc.code[2].bindings, ListOf(heap, sc.args)) \o @]
  /\ sc' = WithArgs(s_goto(sc, "BEGIN", sc.code[2].body), Nil)
  /\ UNCHANGED <<program, heap>>

(* let* makes one frame, after its first value; args holds the body. *)
Let0Ast ==
  /\ sc.op = "LET0AST"
  /\ IF sc.code.bindings = <<>>
     THEN /\ envs' = new_frame_in_env(envs, sc.envir)
          /\ sc' = [s_goto(sc, "BEGIN", sc.code.body) EXCEPT !.envir = Len(envs')]
     ELSE /\ sc' = eval(s_save(sc, "LET1AST", Code(sc.code.body), sc.code.bindings),
                        sc.code.bindings[1].init)
          /\ UNCHANGED envs
  /\ UNCHANGED <<program, heap>>

Let1Ast ==
  /\ sc.op = "LET1AST"
  /\ envs' = new_frame_in_env(envs, sc.envir)
  /\ sc' = [sc EXCEPT !.op = "LET2AST", !.envir = Len(envs')]
  /\ UNCHANGED <<program, heap>>

Let2Ast ==
  /\ sc.op = "LET2AST"
  /\ envs' = new_slot_in_env(envs, sc.envir, sc.code[1].name, sc.value)
  /\ sc' = IF Len(sc.code) > 1
           THEN WithArgs(eval(s_save(sc, "LET2AST", sc.args, Tail(sc.code)),
                              sc.code[2].init), Nil)
           ELSE WithArgs(s_goto(sc, "BEGIN", sc.args[2]), Nil)
  /\ UNCHANGED <<program, heap>>
-----------------------------------------------------------------------------
(* Procedures                                                              *)

Arg(k) == ListOf(heap, sc.args)[k]

Returns(p, v) == Goes(p, s_return(sc, v))
Accessors ==
  \/ Returns("CAR", car(heap, Arg(1)))
  \/ Returns("CDR", cdr(heap, Arg(1)))
  \/ Returns("CURR_ENV", Env(sc.envir))

(* eq? of equal numbers depends on whether they are the same cell. *)
Eq == \E b \in {T, F} :
        /\ Returns("EQ", b)
        /\ \/ b = T <=> Arg(1) = Arg(2)
           \/ Kind(heap, Arg(1)) = "num" /\ eqv(Arg(1), Arg(2))

(* A field of the cell of v is assigned, and r returned. *)
Changes(p, v, field, new, r) ==
  /\ sc.op = p
  /\ heap' = IF field = "car" THEN [heap EXCEPT ![Id(v)].car = new]
             ELSE [heap EXCEPT ![Id(v)].cdr = new]
  /\ sc' = s_return(sc, r)
  /\ UNCHANGED <<program, envs>>

SetCar == Changes("SETCAR", Arg(1), "car", Arg(2), Arg(1))
SetCdr == Changes("SETCDR", Arg(1), "cdr", Arg(2), Arg(1))

(* The pair is the first cell of the list of arguments. *)
Cons == Changes("CONS", sc.args, "cdr", Arg(2), sc.args)

ListStar ==
  /\ sc.op = "LIST_STAR"
  /\ LET l == list_star(heap, sc.args)
     IN  heap' = l.heap /\ sc' = s_return(sc, l.value)
  /\ UNCHANGED <<program, envs>>

(* apply: its last argument is shared with the arguments of the call. *)
PApply ==
  /\ sc.op = "PAPPLY"
  /\ LET l == list_star(heap, cdr(heap, sc.args))
     IN  heap' = l.heap /\ sc' = WithArgs(s_goto(sc, "APPLY", Arg(1)), l.value)
  /\ UNCHANGED <<program, envs>>

PEval ==
  /\ sc.op = "PEVAL"
  /\ Goes("PEVAL", eval([sc EXCEPT !.envir = IF Len(ListOf(heap, sc.args)) > 1
                                             THEN Arg(2)[2] ELSE @], CodeOf(Arg(1))))

(* What the frames of d hold in args: lists, told by their first cells.    *)
Lists(d) == {d[k].args : k \in {j \in 1..Len(d) : d[j].args[1] = "cell"}}
Saved(h, d) == [k \in 1..Len(d) |-> ListOf(h, d[k].args)]

(* mk_continuation, and its procedure is called.  The third part, what the *)
(* frames hold now, is history.                                            *)
Continuation ==
  /\ sc.op = "CONTINUATION"
  /\ heap' = heap \o <<Make("cont", Nil, <<"dump", sc.dump, Saved(heap, sc.dump)>>),
                       Pair(New, Nil)>>
  /\ sc' = WithArgs(s_goto(sc, "APPLY", Arg(1)), Cell(Len(heap) + 2))
  /\ UNCHANGED <<program, envs>>

Next ==
  \/ EvalVariable \/ EvalConst \/ EvalSyntax \/ EvalCall
  \/ E0Args \/ DoMacro \/ Operands
  \/ ApplyClosure \/ ApplyContinuation \/ ApplyProc \/ ApplyOther
  \/ Lambda \/ Lambda1 \/ Delay \/ ConsStream0 \/ ConsStream1 \/ Force \/ SaveForced
  \/ Assigning \/ Def1 \/ Macro1 \/ Set1
  \/ Begin \/ If0 \/ If1 \/ Cond0 \/ Cond1
  \/ Case0 \/ Case1 \/ Case2 \/ AndOr0 \/ AndOr1
  \/ Let0 \/ Let2 \/ Let2Rec \/ Let0Ast \/ Let1Ast \/ Let2Ast
  \/ Accessors \/ Eq \/ SetCar \/ SetCdr \/ Cons \/ ListStar \/ PApply \/ PEval
  \/ Continuation

Spec == Init /\ [][Next]_vars
-----------------------------------------------------------------------------
(* A continuation goes on with the values that had been computed when it   *)
(* was made.  (scheme.h: continuations are for strict compatibility.)      *)
EntryWhole ==
  sc.op = "APPLY" /\ Kind(heap, sc.code) = "cont" =>
    LET k == cdr(heap, sc.code) IN Saved(heap, k[2]) = k[3]

(* Calls in tail position of bodies, if, cond, let in its forms, apply,    *)
(* eval and of what call/cc calls need no frames: a loop written with them *)
(* runs in the number of frames given for its program.                     *)
ProperTail == Len(sc.dump) <= program.depth
=============================================================================
