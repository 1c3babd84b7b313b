----------------------------- MODULE Primitives -----------------------------
(***************************************************************************)
(* The built-in procedures of src/scheme.c on lists, and what Eval_Cycle   *)
(* checks before it enters one: the number of the arguments and the kind   *)
(* of each.  A call written in the program gets an argument list of its    *)
(* own.  One made by apply gets the list that list_star made, whose tail   *)
(* is the program's own list, whatever its shape and whoever else holds it.*)
(*                                                                         *)
(* The cells no one can reach are taken back when a value is stored: the   *)
(* storage manager is module CellHeap.                                     *)
(***************************************************************************)
EXTENDS Integers, Sequences, FiniteSets

CONSTANTS Cells,        \* the cells of pairs
          Nil,          \* ()
          One, Symbol,  \* a number, and a value of another type
          Vars,         \* the variables of the program
          MaxHeld,      \* bounds on the pairs that they reach,
          MaxCalls      \* and on the calls

Procedures == {"cons", "cdr", "set-cdr!", "reverse", "list*", "append",
               "length", "list?", "+", "apply", "list"}
Atoms == {Nil, One, Symbol, "#t", "#f"} \cup Procedures
Values == Cells \cup Atoms

ASSUME CellsAssumption ==
  /\ IsFiniteSet(Cells) /\ Cells \cap Atoms = {}
  /\ Nil \notin {One, Symbol, "#t", "#f"} \cup Procedures
  /\ {MaxHeld, MaxCalls} \subseteq Nat

VARIABLES mem,          \* the pairs: [car, cdr, used]
          held,         \* the values of the variables
          stage,        \* "program", "apply" (OP_APPLY), "check" and "run"
                        \* (an opcode), "value", or "stopped" (no memory)
          code, op, args, value,
          given,        \* history: the program's pairs that apply was given
          calls

primitivesVars == <<mem, held, stage, code, op, args, value, given, calls>>

----------------------------------------------------------------------------
(* Pairs.  The car and cdr of () are () (scheme_init).  An operation       *)
(* returns the memory and its result; "full" is the sink cell.             *)
car(m, x) == IF x \in Cells THEN m.car[x] ELSE Nil
cdr(m, x) == IF x \in Cells THEN m.cdr[x] ELSE Nil
is_pair(x) == x \in Cells

cons(m, a, d) ==
  IF m.used = Cells
  THEN [m |-> [m EXCEPT !.full = TRUE], v |-> Nil]
  ELSE LET c == CHOOSE c \in Cells \ m.used : TRUE
       IN  [m |-> [m EXCEPT !.car[c] = a, !.cdr[c] = d, !.used = @ \cup {c}],
            v |-> c]
SetCdr(m, x, d) == [m EXCEPT !.cdr[x] = d]
Result(m, v) == [m |-> m, v |-> v]

(* A loop, turn by turn.  Each turn takes a cell or goes on along the cells *)
(* of a list, and none comes to the same place again, so no loop makes more *)
(* turns than these; one that is over stays where it is.                    *)
Turns == Cardinality(Cells) + 1
Loop(Turn(_), s) ==
  LET at[k \in 0 .. Turns] == IF k = 0 THEN s ELSE Turn(at[k - 1]) IN at[Turns]

Over(s, n) == [s EXCEPT !.i = n, !.over = TRUE]

(* The two pointers of list_length; fast makes two steps for one of slow. *)
TwoPointers(m, s) ==
  LET f1 == cdr(m, s.fast)
      f2 == cdr(m, f1)
      s1 == cdr(m, s.slow)
  IN  IF s.over THEN s
      ELSE IF s.fast = Nil THEN Over(s, s.i)
      ELSE IF ~is_pair(s.fast) THEN Over(s, -2 - s.i)
      ELSE IF f1 = Nil THEN Over(s, s.i + 1)
      ELSE IF ~is_pair(f1) THEN Over(s, -2 - (s.i + 1))
      ELSE IF f2 = s1 THEN Over(s, -1)
      ELSE [slow |-> s1, fast |-> f2, i |-> s.i + 2, over |-> FALSE]
list_length(m, a) ==
  Loop(LAMBDA s : TwoPointers(m, s),
       [slow |-> a, fast |-> a, i |-> 0, over |-> FALSE]).i

(* The pairs of p before those of v, in reverse: what reverse and revappend *)
(* do.  The loop ends, if p is circular, because no memory is left.         *)
ConsTurn(s) ==
  IF s.m.full \/ ~is_pair(s.p) THEN s
  ELSE LET c == cons(s.m, s.m.car[s.p], s.v)
       IN  [m |-> c.m, v |-> c.v, p |-> s.m.cdr[s.p]]
ConsBackwards(m, v, p) == Loop(ConsTurn, [m |-> m, v |-> v, p |-> p])

LinkTurn(s) ==
  IF s.p = Nil THEN s
  ELSE [m |-> SetCdr(s.m, s.p, s.v), v |-> s.p, p |-> s.m.cdr[s.p]]
LinkBackwards(m, v, p) == Loop(LinkTurn, [m |-> m, v |-> v, p |-> p])

(* #f if b is dotted.                                                      *)
Appended(e) == Result(e.m, IF e.m.full \/ e.p = Nil THEN e.v ELSE "#f")
revappend_in_place(m, a, b) ==
  IF is_pair(b) THEN Appended(LinkBackwards(m, a, b)) ELSE Appended([m |-> m, v |-> a, p |-> b])
revappend(m, a, b) == Appended(ConsBackwards(m, a, b))
reverse(m, a) == LET e == ConsBackwards(m, Nil, a) IN Result(e.m, e.v)
reverse_in_place(m, term, p) == LET e == LinkBackwards(m, term, p) IN Result(e.m, e.v)

(* The last argument becomes the tail.  Only the first pair is a copy: p   *)
(* goes on along the pairs of d.                                           *)
Copied(m, p) == cons(m, car(m, p), cdr(m, p))
CopyTurn(s) ==
  IF s.m.full \/ cdr(s.m, cdr(s.m, s.v)) = Nil THEN s
  ELSE LET c == Copied(s.m, s.v)
       IN  Result(c.m, IF cdr(c.m, cdr(c.m, s.v)) # Nil THEN cdr(c.m, c.v) ELSE s.v)
list_star(m, d) ==
  IF cdr(m, d) = Nil THEN Result(m, car(m, d))
  ELSE LET q == Copied(m, d)
           e == Loop(CopyTurn, q)
       IN  IF e.m.full THEN e
           ELSE Result(SetCdr(e.m, e.v, car(e.m, cdr(e.m, e.v))), q.v)

(* The loop of append looks at cdr(y), to stop before the last argument.    *)
AppendOn(s) ==
  LET r == revappend(s.m, s.v, car(s.m, s.p))
  IN  [m |-> r.m, v |-> r.v, p |-> cdr(s.m, s.p)]
AppendTurnCar(s) ==
  IF s.m.full \/ s.v = "#f" \/ car(s.m, s.p) = Nil THEN s ELSE AppendOn(s)
AppendTurn(s) ==
  IF s.m.full \/ s.v = "#f" \/ cdr(s.m, s.p) = Nil THEN s ELSE AppendOn(s)
append(m, y) ==
  LET e == Loop(AppendTurn, [m |-> m, v |-> Nil, p |-> y])
  IN  IF e.v = "#f" THEN Result(e.m, "error")
      ELSE IF e.m.full THEN Result(e.m, Nil)
      ELSE reverse_in_place(e.m, car(e.m, e.p), e.v)

----------------------------------------------------------------------------
(* The rows of the dispatch table: the bounds on the number of arguments   *)
(* and the tests, the last of which stands for all the others.             *)
Many == 65535           \* INF_ARG
Row(lo, hi, ts) == [min |-> lo, max |-> hi, tests |-> ts]
dispatch_table ==
  [f \in Procedures \ {"list"} |->
    CASE f = "cons" -> Row(2, 2, <<>>)
      [] f = "cdr" -> Row(1, 1, <<"pair">>)
      [] f = "set-cdr!" -> Row(2, 2, <<"pair", "any">>)
      [] f \in {"reverse", "length"} -> Row(1, 1, <<"list">>)
      [] f = "list?" -> Row(1, 1, <<"any">>)
      [] f \in {"list*", "apply"} -> Row(1, Many, <<>>)
      [] f = "append" -> Row(0, Many, <<>>)
      [] f = "+" -> Row(0, Many, <<"number">>)]

Satisfies(kind, v) ==
  CASE kind = "any" -> TRUE
    [] kind = "pair" -> is_pair(v)
    [] kind = "list" -> v = Nil \/ is_pair(v)
    [] kind = "number" -> v = One

(* How many arguments pass: the loop looks at one even if there is none.   *)
TestTurn(m, n, s) ==
  IF s.over THEN s
  ELSE IF ~Satisfies(Head(s.tests), car(m, s.as)) THEN Over(s, s.i)
  ELSE IF s.i + 1 < n
  THEN [tests |-> IF Len(s.tests) > 1 THEN Tail(s.tests) ELSE s.tests,
        as |-> cdr(m, s.as), i |-> s.i + 1, over |-> FALSE]
  ELSE Over(s, s.i + 1)
Passed(m, ts, as, n) ==
  Loop(LAMBDA s : TestTurn(m, n, s),
       [tests |-> ts, as |-> as, i |-> 0, over |-> FALSE]).i

ArgumentsOKNoMin(m, f, as) ==
  LET n == list_length(m, as)
      row == dispatch_table[f]
  IN  /\ row.min > 0 => n >= row.min
      /\ n <= row.max
      /\ row.tests = <<>> \/ Passed(m, row.tests, as, n) >= n
ArgumentsOK(m, f, as) ==
  LET n == list_length(m, as)
      row == dispatch_table[f]
  IN  /\ n >= row.min
      /\ n <= row.max
      /\ row.tests = <<>> \/ Passed(m, row.tests, as, n) >= n

----------------------------------------------------------------------------
(* What an opcode does with its checked arguments.                         *)
Opcode(f, m, as) ==
  LET x == car(m, as)
      y == car(m, cdr(m, as))
  IN  CASE f = "cons" -> Result(SetCdr(m, as, y), as)
        [] f = "cdr" -> Result(m, cdr(m, x))
        [] f = "set-cdr!" -> Result(SetCdr(m, x, y), x)
        [] f = "reverse" -> reverse(m, x)
        [] f = "list*" -> list_star(m, as)
        [] f = "append" -> append(m, as)
        [] f = "length" ->
             Result(m, IF list_length(m, x) < 0 THEN "error" ELSE One)
        [] f = "list?" ->
             Result(m, IF list_length(m, x) >= 0 THEN "#t" ELSE "#f")
        [] f = "+" -> Result(m, One)

Targets(m, S) == ({m.car[c] : c \in S} \cup {m.cdr[c] : c \in S}) \cap Cells
Reach(m, S) == Loop(LAMBDA T : T \cup Targets(m, T), S)
HeldCells(m, h) == Reach(m, {h[x] : x \in Vars} \cap Cells)
Collected(m, h) ==
  LET live == HeldCells(m, h)
  IN  [car |-> [c \in Cells |-> IF c \in live THEN m.car[c] ELSE Nil],
       cdr |-> [c \in Cells |-> IF c \in live THEN m.cdr[c] ELSE Nil],
       used |-> live, full |-> FALSE]

Pairs(m, x) == Reach([m EXCEPT !.car = [c \in Cells |-> Nil]], {x} \cap Cells)

----------------------------------------------------------------------------
PrimitivesInit ==
  /\ mem = [car |-> [c \in Cells |-> Nil], cdr |-> [c \in Cells |-> Nil],
            used |-> {}, full |-> FALSE]
  /\ held = [x \in Vars |-> Nil]
  /\ stage = "program"
  /\ code = Nil /\ op = Nil /\ args = Nil /\ value = Nil
  /\ given = {}
  /\ calls = 0

(* The argument list of a call: OP_E1ARGS.                                 *)
ListOf(m, s) ==
  LET of[k \in 0 .. Len(s)] ==
        IF k = 0 THEN Result(m, Nil)
        ELSE LET r == of[k - 1] IN cons(r.m, s[Len(s) + 1 - k], r.v)
  IN  of[Len(s)]

Operands == {held[x] : x \in Vars} \cup {Nil, One}
Call(f, s) ==
  /\ stage = "program"
  /\ calls < MaxCalls
  /\ calls' = calls + 1
  /\ LET l == ListOf(mem, s)
     IN  IF l.m.full
         THEN stage' = "stopped" /\ UNCHANGED <<mem, args, code>>
         ELSE stage' = "apply" /\ mem' = l.m /\ args' = l.v /\ code' = f
  /\ UNCHANGED <<held, op, value, given>>

Calls ==
  \/ \E f \in Procedures \ {"apply"}, n \in 0 .. 3 :
       \E s \in [1 .. n -> Operands] : (n = 3 => f = "list") /\ Call(f, s)
  \/ \E g \in Procedures, x \in Operands :
       \/ Call("apply", <<g, x>>)
       \/ \E y \in Vars : Call("apply", <<g, x, held[y]>>)

Fails ==
  /\ stage' = "program"
  /\ mem' = Collected(mem, held)
  /\ code' = Nil /\ op' = Nil /\ args' = Nil /\ value' = Nil
  /\ given' = {}
  /\ UNCHANGED <<held, calls>>

(* OP_APPLY.  `list' is the closure (lambda x x) of init.scm.              *)
Apply ==
  /\ stage = "apply"
  /\ CASE code \in DOMAIN dispatch_table ->
            /\ op' = code
            /\ stage' = "check"
            /\ UNCHANGED <<mem, held, code, args, value, given, calls>>
       [] code = "list" ->
            /\ value' = args
            /\ stage' = "value"
            /\ UNCHANGED <<mem, held, code, op, args, given, calls>>
       [] OTHER -> Fails

Check ==
  /\ stage = "check"
  /\ IF ArgumentsOK(mem, op, args)
     THEN stage' = "run" /\ UNCHANGED <<mem, held, code, op, args, value, given, calls>>
     ELSE Fails

Returns(r) ==
  CASE r.m.full -> /\ stage' = "stopped"
                   /\ UNCHANGED <<mem, held, code, op, args, value, given, calls>>
    [] ~r.m.full /\ r.v = "error" -> Fails
    [] OTHER -> /\ mem' = r.m
                /\ value' = r.v
                /\ stage' = "value"
                /\ UNCHANGED <<held, code, op, args, given, calls>>

RunOpcode ==
  /\ stage = "run"
  /\ op # "apply"
  /\ Returns(Opcode(op, mem, args))

PApply ==
  /\ stage = "run"
  /\ op = "apply"
  /\ LET l == list_star(mem, cdr(mem, args))
     IN  IF l.m.full THEN Returns(l)
         ELSE /\ code' = car(mem, args)
              /\ args' = l.v
              /\ mem' = l.m
              /\ given' = given \cup (Pairs(l.m, l.v) \cap HeldCells(mem, held))
              /\ stage' = "apply"
              /\ UNCHANGED <<held, op, value, calls>>

(* The program keeps pairs: other values are operands anyway.              *)
Store(x) ==
  /\ stage = "value"
  /\ is_pair(value)
  /\ held' = [held EXCEPT ![x] = value]
  /\ Cardinality(HeldCells(mem, held')) <= MaxHeld
  /\ mem' = Collected(mem, held')
  /\ stage' = "program"
  /\ code' = Nil /\ op' = Nil /\ args' = Nil /\ value' = Nil
  /\ given' = {}
  /\ UNCHANGED calls

Drop == stage = "value" /\ Fails

PrimitivesNext == Calls \/ Apply \/ Check \/ RunOpcode \/ PApply \/ Drop
        \/ \E x \in Vars : Store(x)

PrimitivesSpec == PrimitivesInit /\ [][PrimitivesNext]_primitivesVars

----------------------------------------------------------------------------
(* Lists by their cdrs, whatever their shape: the cdrs of v, the number of *)
(* its pairs if the last of them is not a pair, the elements and the end.  *)
Onward(m, x) == IF is_pair(x) THEN m.cdr[x] ELSE x
Cdrs(m, v) ==
  LET d[k \in 0 .. Cardinality(Cells)] == IF k = 0 THEN v ELSE Onward(m, d[k - 1])
  IN  d
End(m, v) == Cdrs(m, v)[Cardinality(Cells)]
Circular(m, v) == is_pair(End(m, v))
Length(m, v) == IF Circular(m, v) THEN 0
                ELSE CHOOSE k \in 0 .. Cardinality(Cells) :
                       /\ ~is_pair(Cdrs(m, v)[k])
                       /\ \A j \in 0 .. k - 1 : is_pair(Cdrs(m, v)[j])
Items(m, v) == [k \in 1 .. Length(m, v) |-> m.car[Cdrs(m, v)[k - 1]]]

(* What the comment above list_length calls a list.                        *)
ProperList(m, v) == ~Circular(m, v) /\ End(m, v) = Nil

Suitable(f, m, as) ==
  LET row == dispatch_table[f]
      s == Items(m, as)
  IN  /\ ProperList(m, as)
      /\ Len(s) \in row.min .. row.max
      /\ row.tests # <<>> =>
           \A k \in DOMAIN s :
             Satisfies(row.tests[IF k <= Len(row.tests) THEN k
                                 ELSE Len(row.tests)], s[k])

(* An opcode is entered if and only if its arguments are a proper list,    *)
(* their number is within both bounds and each passes its test, the last   *)
(* test being that of all that follow -- also when there is no argument,   *)
(* and when apply was given a dotted or circular list: opexe_* look at     *)
(* none of this again.                                                     *)
EntersChecked == [][stage = "check" => ((stage' = "run") <=> Suitable(op, mem, args))]_primitivesVars

(* What a call returns is the list its arguments say, although argument    *)
(* lists are reused as results and tails are shared.  Not of a cons or     *)
(* list* that apply gave the program's own list: they write into it.       *)
Front(s) == SubSeq(s, 1, Len(s) - 1)
Last(s) == s[Len(s)]
AllItems(m, s) ==
  LET of[k \in 0 .. Len(s)] ==
        IF k = 0 THEN <<>> ELSE of[k - 1] \o Items(m, s[k])
  IN  of[Len(s)]
Backwards(s) == [k \in DOMAIN s |-> s[Len(s) + 1 - k]]
ResultsMeant ==
  [][LET s == Items(mem, args)
         end == Last(s)
         IsList(front, e) ==
           IF Circular(mem, e) THEN Circular(mem', value')
           ELSE /\ Items(mem', value') = front \o Items(mem, e)
                /\ End(mem', value') = End(mem, e)
     IN  stage = "run" /\ stage' = "value" /\ (op \in {"cons", "list*"} => given = {}) =>
           CASE op = "cons" -> IsList(<<s[1]>>, s[2])
             [] op = "list*" -> IsList(Front(s), end)
             [] op = "list?" -> value' = IF ProperList(mem, s[1]) THEN "#t" ELSE "#f"
             [] op = "length" -> ProperList(mem, s[1])
             [] op = "reverse" -> IsList(Backwards(Items(mem, s[1])), Nil)
             [] op = "append" ->
                  IF s = <<>> THEN value' = Nil
                  ELSE IsList(AllItems(mem, Front(s)), end)
             [] OTHER -> TRUE]_primitivesVars

(* A pair that the program can reach changes only by set-cdr!, or if apply *)
(* gave the procedure the very list it is in: cons and list* then write    *)
(* into the program's list.                                                *)
HeldKept ==
  [][\A c \in HeldCells(mem, held) :
       \/ stage = "run" /\ op = "set-cdr!"
       \/ c \notin HeldCells(mem', held')
       \/ c \in given'
       \/ <<mem'.car[c], mem'.cdr[c]>> = <<mem.car[c], mem.cdr[c]>>]_primitivesVars
=============================================================================
