-------------------------------- MODULE Reader --------------------------------
(***************************************************************************)
(* The reader and the printer of src/scheme.c: the opcodes OP_RDSEXPR to   *)
(* OP_RDVEC of opexe_5, and OP_P0LIST to OP_PVECFROM, with the frames they *)
(* save, the tokens, and the count of open parentheses.                    *)
(*                                                                         *)
(* A text is a sequence of characters, a letter standing for the letters   *)
(* of a name.  Each behaviour writes a datum and reads the text back, or   *)
(* reads a text of any kind.  `datum' and `text' are its input.            *)
(***************************************************************************)
EXTENDS Integers, Sequences, SequencesExt

CONSTANTS Characters,
          Data,         \* what is written, and read back
          Texts         \* what is only read

VARIABLES op, args, dump,       \* registers, and frames [op, args]
          value, tok,
          text, pos,            \* the characters, and the next one
          nesting,              \* nesting_stack[file_i]
          datum                 \* what was written, or Eof

readerVars == <<op, args, dump, value, tok, text, pos, nesting, datum>>
-----------------------------------------------------------------------------
Nil == [t |-> "nil"]
Eof == [t |-> "eof"]
Sym(s) == [t |-> "sym", s |-> s]
Pair(a, d) == [t |-> "pair", car |-> a, cdr |-> d]
Vec(v) == [t |-> "vec", v |-> v]

IsPair(d) == d.t = "pair"
List(seq, last) == FoldRight(Pair, seq, last)

Quote == Sym(<<"q">>)
Quasi == Sym(<<"k">>)
Unquote == Sym(<<"u">>)
Splice == Sym(<<"s">>)
Named(s) == List(<<Sym(<<"apply">>), Sym(<<"vector">>), s>>, Nil)

(* What is written is data to the last part, and so is each of its parts.  *)
Parts(d) == CASE IsPair(d) -> {d.car, d.cdr}
              [] d.t = "vec" -> Range(d.v)
              [] OTHER -> {}
ASSUME ReaderAssumption ==
  /\ {"(", ")", " ", "n", ".", "'", "bq", ",", "@", "#"} \subseteq Characters
  /\ "EOF" \notin Characters
  /\ Texts \subseteq Seq(Characters)
  /\ UNION {Parts(d) : d \in Data} \subseteq Data
  /\ \A d \in Data : \/ d = Nil \/ IsPair(d)
                     \/ d.t = "sym" /\ d.s \in Seq(Characters)
                     \/ d.t = "vec" /\ d.v \in Seq(Range(d.v))

(* list_length: the rest of d after n pairs.  A list that was read has no  *)
(* more elements than the text has characters.                             *)
Rests(d) ==
  LET rest[n \in Nat] ==
        IF n = 0 THEN d
        ELSE LET r == rest[n - 1] IN IF IsPair(r) THEN r.cdr ELSE r
  IN  [n \in 0..Len(text) |-> rest[n]]
Proper(d) == Nil \in Range(Rests(d))
Elements(d) ==
  LET r == Rests(d)
      n == CHOOSE n \in DOMAIN r : r[n] = Nil /\ \A k \in 0..(n - 1) : r[k] # Nil
  IN  [k \in 1..n |-> r[k - 1].car]
-----------------------------------------------------------------------------
PrintOps == {"P0LIST", "P1LIST", "PVECFROM"}

(* s_return, s_save and s_goto; a text that was written is then read.      *)
Return(v, stack) ==
  IF stack # <<>>
  THEN /\ op' = Last(stack).op /\ args' = Last(stack).args
       /\ dump' = Front(stack) /\ value' = v
  ELSE /\ op' = IF op \in PrintOps THEN "READ" ELSE "done"
       /\ args' = Nil /\ dump' = <<>> /\ value' = v

Saved(o, a) == Append(dump, [op |-> o, args |-> a])
Goto(o, a, stack) == op' = o /\ args' = a /\ dump' = stack /\ UNCHANGED value
Fails == op' = "error" /\ UNCHANGED <<args, dump, value>>

Put(s) == text' = text \o s
printed == <<tok, pos, nesting, datum>>
-----------------------------------------------------------------------------
(* The printer.  Names that have an abbreviation, and the abbreviations    *)
Abbreviations ==
  [n \in {Quote, Quasi, Unquote, Splice} |->
     CASE n = Quote -> <<"'">> [] n = Quasi -> <<"bq">>
       [] n = Unquote -> <<",">> [] n = Splice -> <<",", "@">>]

(* Mutant: what follows the one element is not looked at.                  *)
ok_abbrev_any(x) == IsPair(x)

ok_abbrev(x) == IsPair(x) /\ x.cdr = Nil

(* printatom                                                               *)
Printed(d) == IF d = Nil THEN <<"(", ")">> ELSE d.s

P0List ==
  /\ op = "P0LIST"
  /\ \/ /\ args.t = "vec"
        /\ Put(<<"#", "(">>)
        /\ Goto("PVECFROM", [vec |-> args, i |-> 0], dump)
     \/ /\ args.t \in {"sym", "nil"}
        /\ Put(Printed(args))
        /\ Return(Nil, dump)
     \/ /\ IsPair(args)
        /\ IF args.car \in DOMAIN Abbreviations /\ ok_abbrev(args.cdr)
           THEN /\ Put(Abbreviations[args.car])
                /\ Goto("P0LIST", args.cdr.car, dump)
           ELSE /\ Put(<<"(">>)
                /\ Goto("P0LIST", args.car, Saved("P1LIST", args.cdr))
  /\ UNCHANGED printed

P1List ==
  /\ op = "P1LIST"
  /\ \/ /\ IsPair(args)
        /\ Put(<<" ">>)
        /\ Goto("P0LIST", args.car, Saved("P1LIST", args.cdr))
     \/ /\ args.t = "vec"
        /\ Put(<<" ", ".", " ">>)
        /\ Goto("P0LIST", args, Saved("P1LIST", Nil))
     \/ /\ args.t \in {"sym", "nil"}
        /\ Put((IF args = Nil THEN <<>> ELSE <<" ", ".", " ">> \o Printed(args))
               \o <<")">>)
        /\ Return(Nil, dump)
  /\ UNCHANGED printed

PVecFrom ==
  /\ op = "PVECFROM"
  /\ LET v == args.vec.v
         i == args.i IN
     \/ /\ i = Len(v)
        /\ Put(<<")">>)
        /\ Return(Nil, dump)
     \/ /\ i < Len(v)
        /\ Put(IF i > 0 THEN <<" ">> ELSE <<>>)
        /\ Goto("P0LIST", v[i + 1], Saved("PVECFROM", [args EXCEPT !.i = i + 1]))
  /\ UNCHANGED printed
-----------------------------------------------------------------------------
(* The scanner.  At(k) is inchar.                                          *)
At(k) == IF k <= Len(text) THEN text[k] ELSE "EOF"
Blank == {" ", "n"}
Delimiters == Blank \cup {"(", ")", "EOF"}

(* Where the next token starts, and where a name ends                      *)
SkipSpace(k) == CHOOSE j \in k..(Len(text) + 1) :
                  At(j) \notin Blank /\ \A i \in k..(j - 1) : At(i) \in Blank
UpTo(k) == CHOOSE j \in k..(Len(text) + 1) :
             At(j) \in Delimiters /\ \A i \in k..(j - 1) : At(i) \notin Delimiters

(* token, from character k on: what it is and where the next one starts    *)
Token(k) ==
  LET j == SkipSpace(k)
      c == At(j)
      is(t, n) == [is |-> t, next |-> j + n] IN
  CASE c = "EOF" -> is("EOF", 0)
    [] c = "("   -> is("LPAREN", 1)
    [] c = ")"   -> is("RPAREN", 1)
    [] c = "."   -> IF At(j + 1) \in Blank THEN is("DOT", 2)
                    ELSE IF At(j + 1) = "EOF" THEN is("DOT", 1)
                    ELSE is("ATOM", 0)
    [] c = "'"   -> is("QUOTE", 1)
    [] c = "bq"   -> is("BQUOTE", 1)
    [] c = ","   -> IF At(j + 1) = "@" THEN is("ATMARK", 2) ELSE is("COMMA", 1)
    [] c = "#"   -> IF At(j + 1) = "(" THEN is("VEC", 2) ELSE is("SHARP", 1)
    [] OTHER     -> is("ATOM", 0)

Scan(k) == tok' = Token(k).is /\ pos' = Token(k).next
-----------------------------------------------------------------------------
(* The reader                                                              *)
written == <<text, datum>>

ReadInternal ==
  /\ op = "READ"
  /\ Scan(pos)
  /\ IF Token(pos).is = "EOF" THEN Return(Eof, dump)
     ELSE Goto("RDSEXPR", Nil, dump)
  /\ UNCHANGED <<nesting, written>>

(* Mutant: () counts as open.                                              *)
OpenListEarly(stack) ==
  /\ Scan(pos) /\ nesting' = nesting + 1
  /\ LET t == Token(pos).is IN
     CASE t = "RPAREN" -> Return(Nil, stack)
       [] t = "DOT"    -> Fails
       [] OTHER        -> Goto("RDSEXPR", Nil,
                               Append(stack, [op |-> "RDLIST", args |-> <<>>]))

(* A parenthesis, that of a vector perhaps: its frame is saved already     *)
OpenList(stack) ==
  /\ Scan(pos)
  /\ LET t == Token(pos).is IN
     CASE t = "RPAREN" -> Return(Nil, stack) /\ UNCHANGED nesting
       [] t = "DOT"    -> Fails /\ UNCHANGED nesting
       [] OTHER        -> /\ nesting' = nesting + 1
                          /\ Goto("RDSEXPR", Nil,
                                  Append(stack, [op |-> "RDLIST", args |-> <<>>]))

(* A quote or the like: what follows it is read first.                     *)
ReadQuoted(o) ==
  /\ Scan(pos)
  /\ Goto("RDSEXPR", Nil, Saved(o, Nil))
  /\ UNCHANGED nesting

RdSexpr ==
  /\ op = "RDSEXPR"
  /\ CASE tok = "EOF"    -> Return(Eof, dump) /\ UNCHANGED <<tok, pos, nesting>>
       [] tok = "VEC"    -> OpenList(Saved("RDVEC", Nil))
       [] tok = "LPAREN" -> OpenList(dump)
       [] tok = "QUOTE"  -> ReadQuoted("RDQUOTE")
       [] tok = "COMMA"  -> ReadQuoted("RDUNQUOTE")
       [] tok = "ATMARK" -> ReadQuoted("RDUQTSP")
       [] tok = "BQUOTE" ->
            IF Token(pos).is = "VEC"
            THEN /\ tok' = "LPAREN" /\ pos' = Token(pos).next
                 /\ Goto("RDSEXPR", Nil, Saved("RDQQUOTEVEC", Nil))
                 /\ UNCHANGED nesting
            ELSE ReadQuoted("RDQQUOTE")
       [] tok = "ATOM"   ->
            LET end == UpTo(pos) IN
              /\ Return(Sym(SubSeq(text, pos, end - 1)), dump)
              /\ pos' = end
              /\ UNCHANGED <<tok, nesting>>
       [] OTHER          -> Fails /\ UNCHANGED <<tok, pos, nesting>>
  /\ UNCHANGED written

RdList ==
  /\ op = "RDLIST"
  /\ LET t == Token(pos)
         elements == Append(args, value) IN
     CASE t.is = "EOF" ->
            Return(Eof, dump) /\ Scan(pos) /\ UNCHANGED nesting
       [] t.is = "RPAREN" ->
            /\ Return(List(elements, Nil), dump)
            /\ tok' = "RPAREN"
            /\ pos' = IF At(t.next) = "n" THEN t.next + 1 ELSE t.next
            /\ nesting' = nesting - 1
       [] t.is = "DOT" ->
            Goto("RDSEXPR", Nil, Saved("RDDOT", elements)) /\ Scan(t.next)
            /\ UNCHANGED nesting
       [] OTHER ->
            Goto("RDSEXPR", Nil, Saved("RDLIST", elements)) /\ Scan(pos)
            /\ UNCHANGED nesting
  /\ UNCHANGED written

RdDot ==
  /\ op = "RDDOT"
  /\ Scan(pos)
  /\ IF Token(pos).is # "RPAREN" THEN Fails /\ UNCHANGED nesting
     ELSE nesting' = nesting - 1 /\ Return(List(args, value), dump)
  /\ UNCHANGED written

(* What is made of the datum that followed a quote or the like             *)
QuoteOps == {"RDQUOTE", "RDQQUOTE", "RDUNQUOTE", "RDUQTSP", "RDQQUOTEVEC"}
Expansion ==
  CASE op = "RDQUOTE" -> List(<<Quote, value>>, Nil)
    [] op = "RDQQUOTE" -> List(<<Quasi, value>>, Nil)
    [] op = "RDUNQUOTE" -> List(<<Unquote, value>>, Nil)
    [] op = "RDUQTSP" -> List(<<Splice, value>>, Nil)
    [] op = "RDQQUOTEVEC" -> Named(List(<<Quasi, value>>, Nil))

RdQuoted ==
  /\ op \in QuoteOps
  /\ Return(Expansion, dump)
  /\ UNCHANGED <<tok, pos, nesting, written>>

(* OP_RDVEC goes to OP_VECTOR, whose argument test only a list passes.     *)
RdVec ==
  /\ op = "RDVEC"
  /\ IF Proper(value) THEN Return(Vec(Elements(value)), dump) ELSE Fails
  /\ UNCHANGED <<tok, pos, nesting, written>>
-----------------------------------------------------------------------------
ReaderInit ==
  /\ \/ /\ datum \in Data
        /\ op = "P0LIST" /\ args = datum /\ text = <<>>
     \/ /\ text \in Texts
        /\ op = "READ" /\ args = Nil /\ datum = Eof
  /\ dump = <<>> /\ value = Nil /\ tok = "none" /\ pos = 1 /\ nesting = 0

Done == op \in {"done", "error"} /\ UNCHANGED readerVars

ReaderNext ==
  \/ P0List \/ P1List \/ PVecFrom
  \/ ReadInternal \/ RdSexpr \/ RdList \/ RdDot \/ RdQuoted \/ RdVec
  \/ Done

ReaderSpec == ReaderInit /\ [][ReaderNext]_readerVars
-----------------------------------------------------------------------------
(* Of any text, what was read without an error leaves in nesting_stack the *)
(* parentheses that were opened and not closed: the top level reports      *)
(* them, if it is not 0.                                                   *)
CountOf(c) == Cardinality({k \in 1..(pos - 1) : At(k) = c})

UnclosedCounted == op = "done" => nesting = CountOf("(") - CountOf(")")
=============================================================================
