------------------------------- MODULE ReaderMC -------------------------------
(***************************************************************************)
(* Data and texts for the reader and the printer.                          *)
(***************************************************************************)
EXTENDS Reader

CONSTANTS MaxText       \* the length of texts of any characters

(* Names: some with an abbreviation, an ordinary one, and one that begins  *)
(* with the character that tells ,@ from ,                                 *)
Names == {Quasi, Unquote, Splice, Sym(<<"a">>), Sym(<<"@", "a">>)}
Atoms == Names \cup {Nil}

Conses(As, Ds) == {Pair(a, d) : a \in As, d \in Ds}
Vectors(As) == {Vec(<<>>)} \cup {Vec(<<a>>) : a \in As}
                \cup {Vec(<<a, b>>) : a \in As, b \in {Nil, Unquote}}

Flat == Atoms \cup Conses(Atoms, Atoms) \cup Vectors(Atoms)
Lists == Conses(Flat, Flat) \cup Vectors(Flat)

(* Lists, and each after a quote or the like                               *)
AllData == Flat \cup Lists \cup {Quote} \cup Conses(Lists, {Nil})
           \cup Conses({Quote, Quasi}, Conses(Lists, {Nil}))

Typed == {"(", ")", " ", ".", "'", "bq", ",", "@", "#", "a", "n"}
AllCharacters == Typed \cup {"q", "k", "u", "s"}
AllTexts == UNION {[1..n -> Typed] : n \in 0..MaxText}
            \cup [1..(MaxText + 2) -> {"(", ")", " ", ".", "a"}]
----
(* What is written reads back as the same datum, to its last character,    *)
(* except that the reader turns a quasiquoted vector into a call of vector *)
(* and takes an unquoted name that begins with @ for a splice.             *)
RECURSIVE AsRead(_)
AsRead(d) ==
  CASE d.t = "vec" -> Vec([i \in DOMAIN d.v |-> AsRead(d.v[i])])
    [] IsPair(d) /\ d.car = Quasi /\ ok_abbrev(d.cdr) /\ d.cdr.car.t = "vec" ->
         Named(List(<<Quasi, List(AsRead(d.cdr.car).v, Nil)>>, Nil))
    [] IsPair(d) /\ d.car = Unquote /\ ok_abbrev(d.cdr)
         /\ d.cdr.car.t = "sym" /\ d.cdr.car.s[1] = "@" ->
         List(<<Splice, Sym(Tail(d.cdr.car.s))>>, Nil)
    [] IsPair(d) -> Pair(AsRead(d.car), AsRead(d.cdr))
    [] OTHER -> d

ReadBack ==
  (op \in {"done", "error"} /\ datum # Eof) =>
    op = "done" /\ value = AsRead(datum) /\ pos = Len(text) + 1 /\ nesting = 0
=============================================================================
