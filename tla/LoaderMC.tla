------------------------------ MODULE LoaderMC ------------------------------
(* Small sessions for Loader: the files f1, f2, f3 and standard input hold *)
(* sequences of a few kinds of expressions.                                *)
EXTENDS Loader, SequencesExt

CONSTANTS f1, f2, f3

It(o) == [op |-> o, file |-> Missing]
LoadOf(n) == [op |-> "load", file |-> n]
CatchOf(n) == [op |-> "catch", file |-> n]

(* The programs of the session s in which each file holds a sequence of    *)
(* the set given for it.                                                   *)
Holding(s, Typed, InF, InG, InH) ==
  {[session |-> s,
    contents |-> [n \in Names \cup {Stdin} |->
                    CASE n = Stdin -> t [] n = f1 -> a [] n = f2 -> b [] n = f3 -> c]] :
     t \in Typed, a \in InF, b \in InG, c \in InH}

Empty == {<<>>}

(* At the prompt anything is typed; the files it loads do not fail. *)
AtPrompt ==
  Holding(<<Stdin>>,
          BoundedSeq({It("error"), It("read"), LoadOf(f1), CatchOf(f1),
                      LoadOf(Missing), CatchOf(Missing)}, 2),
          BoundedSeq({It("value"), It("read"), It("open"), LoadOf(f2)}, 2),
          BoundedSeq({It("value"), It("read")}, 1),
          Empty)

(* Scripts, which load themselves and each other, and fail. *)
Scripts ==
  UNION {Holding(s, Empty, Empty,
                 BoundedSeq({It("value"), It("error"), It("readbad"),
                             LoadOf(f2), LoadOf(f3), LoadOf(Missing)}, 2),
                 BoundedSeq({It("error"), It("read"), It("open"), LoadOf(f2)}, 2)) :
         s \in {<<f2>>, <<f2, f3>>}}

(* Everything at once, before, at and after a prompt where something is typed. *)
AnyPrograms ==
  UNION {Holding(s,
                 BoundedSeq({It("error"), It("readbad"), LoadOf(f1), CatchOf(f1)}, 2)
                   \ Empty,
                 BoundedSeq({It("error"), It("readbad"), It("open"), LoadOf(f2),
                             CatchOf(f1), CatchOf(f2)}, 2),
                 BoundedSeq({It("readbad"), It("open"), LoadOf(f1)}, 1),
                 Empty) :
         s \in {<<Stdin>>, <<f1, Stdin, f2>>}}

(* Continuations kept at the prompt and in the files that are loaded there *)
(* within a catch, and called anywhere.                                    *)
Jumping ==
  Holding(<<Stdin>>,
          BoundedSeq({It("keep"), It("escape"), It("error"), LoadOf(f1), CatchOf(f1)}, 2)
            \ Empty,
          BoundedSeq({It("keep"), It("jump"), It("error"), CatchOf(f2)}, 2),
          BoundedSeq({It("keep"), It("jump")}, 1),
          Empty)

AllPrograms == AtPrompt \cup Scripts \cup AnyPrograms \cup Jumping

(* Files that fail, loaded at the prompt and by a script that catches it. *)
FailingPrograms ==
  Holding(<<Stdin>>, {<<LoadOf(f1)>>}, BoundedSeq({It("value"), It("error")}, 2),
          Empty, Empty)
  \cup Holding(<<f1>>, Empty, {<<CatchOf(f2), It("value")>>},
              BoundedSeq({It("value"), It("error")}, 2), Empty)
=============================================================================
