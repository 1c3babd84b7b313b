----------------------------- MODULE DynamicWind -----------------------------
(***************************************************************************)
(* dynamic-wind and the call/cc that goes with it, of src/init.scm: the    *)
(* list of active windings, which continuations compare with the one they  *)
(* were made with, cell by cell, to find the after and before thunks that  *)
(* are to run on the way.                                                  *)
(*                                                                         *)
(* The program is whatever Scheme code may do: in a body, in a before or   *)
(* after thunk, or at the top level it calls dynamic-wind, makes and calls *)
(* continuations, returns, or fails with no handler.  `stack' is what      *)
(* waits for it, the innermost call first.  `outer' and `base' are history *)
(* variables.                                                              *)
(***************************************************************************)
EXTENDS Naturals, Sequences

CONSTANTS MaxWinds,     \* bounds on the calls of dynamic-wind,
          MaxConts,     \* on the continuations made,
          MaxJumps,     \* on their calls
          MaxErrors     \* and on the errors

ASSUME BoundsAssumption ==
  /\ MaxWinds \in Nat /\ MaxConts \in Nat
  /\ MaxJumps \in Nat /\ MaxErrors \in Nat

VARIABLES active,       \* *active-windings*: cells [id, w], w a winding
          conses,       \* the windings that cells were made for, in order
          stack,        \* what waits: see below
          pc,           \* "run": the program runs; "back": it returned
          conts,        \* continuations: [stack, ws, base]
          winds, jumps, errors,
          outer,        \* windings active when dynamic-wind was called
          base          \* windings that errors left active

counts == <<winds, jumps, errors>>
vars == <<active, conses, stack, pc, conts, winds, jumps, errors, outer, base>>

(* A list is the sequence of its cells: eq? of lists is equality.          *)
Windings(list) == [k \in 1..Len(list) |-> list[k].w]

(* What waits for the program, or for a call within the library:           *)
(*   before, after   activate-winding! and deactivate-top-winding! for     *)
(*                   their thunks                                          *)
(*   thunk, result   dynamic-wind for its before thunk, and for the thunk  *)
(*   pop, push       pop-many and push-many, to be called (again)          *)
(*   enter           push-many, about to activate w                        *)
(*   jump            the continuation k, to be called                      *)
Frame(at, w) == [at |-> at, w |-> w, ws |-> <<>>, shared |-> <<>>]
Pop(shared) == [Frame("pop", 0) EXCEPT !.shared = shared]
Push(ws, shared) == [Frame("push", 0) EXCEPT !.ws = ws, !.shared = shared]
Jump(k) == Frame("jump", k)

Init ==
  /\ active = <<>> /\ conses = <<>>
  /\ stack = <<>> /\ pc = "run"
  /\ conts = <<>>
  /\ winds = 0 /\ jumps = 0 /\ errors = 0
  /\ outer = <<>> /\ base = <<>>
-----------------------------------------------------------------------------
(* The program                                                             *)

dynamic_wind ==
  /\ pc = "run" /\ winds < MaxWinds
  /\ winds' = winds + 1
  /\ outer' = Append(outer, Windings(active))
  /\ stack' = <<Frame("before", winds'), Frame("thunk", winds')>> \o stack
  /\ UNCHANGED <<active, conses, pc, conts, jumps, errors, base>>

call_cc ==
  /\ pc = "run" /\ Len(conts) < MaxConts
  /\ conts' = Append(conts, [stack |-> stack, ws |-> active, base |-> base])
  /\ UNCHANGED <<active, conses, stack, pc, counts, outer, base>>

Return ==
  /\ pc = "run" /\ stack # <<>>
  /\ pc' = "back"
  /\ UNCHANGED <<active, conses, stack, conts, counts, outer, base>>

(* ERR1 goes to the top level; nobody looks after the active windings.     *)
ToTopLevel ==
  /\ stack' = <<>> /\ pc' = "run"
  /\ base' = Windings(active)
  /\ UNCHANGED active

Error ==
  /\ pc = "run" /\ errors < MaxErrors
  /\ errors' = errors + 1
  /\ ToTopLevel
  /\ UNCHANGED <<conses, conts, winds, jumps, outer>>

(* The last n cells. *)
list_tail(x, n) == SubSeq(x, Len(x) - n + 1, Len(x))

(* Mutant: lists of different lengths are not aligned. *)
shared_tail_unaligned(x, y) ==
  LET common == {n \in 0..Len(x) : n = Len(y) - (Len(x) - n) /\ list_tail(x, n) = list_tail(y, n)}
  IN  list_tail(x, CHOOSE n \in common \cup {0} : \A m \in common : m <= n)

(* The first tail that the two lists share. *)
shared_tail(x, y) ==
  LET common == {n \in 0..Len(x) : n <= Len(y) /\ list_tail(x, n) = list_tail(y, n)}
  IN  list_tail(x, CHOOSE n \in common : \A m \in common : m <= n)

(* A continuation is called: set-active-windings!, then jump.              *)
CallContinuation(k) ==
  /\ pc = "run" /\ jumps < MaxJumps
  /\ jumps' = jumps + 1
  /\ pc' = "back"
  /\ LET ws == conts[k].ws
         shared == shared_tail(ws, active)
     IN  stack' = (IF ws = active THEN <<Jump(k)>>
                   ELSE <<Pop(shared), Push(ws, shared), Jump(k)>>) \o stack
  /\ UNCHANGED <<active, conses, conts, winds, errors, outer, base>>
-----------------------------------------------------------------------------
(* The library, when what it called has returned                           *)

Top(at) == pc = "back" /\ stack # <<>> /\ stack[1].at = at
(* Behind the last call is the top level, which runs the next expression.  *)
Goes(s, p) ==
  /\ stack' = s
  /\ pc' = IF s = <<>> THEN "run" ELSE p
  /\ UNCHANGED <<conts, counts, outer>>
Stays(s, p) == Goes(s, p) /\ UNCHANGED <<active, conses, base>>

Activate ==
  /\ Top("before")
  /\ conses' = Append(conses, stack[1].w)
  /\ active' = <<[id |-> Len(conses'), w |-> stack[1].w]>> \o active
  /\ Goes(Tail(stack), "back")
  /\ UNCHANGED base

(* Mutant: the winding is still active in its own after thunk. *)
deactivate_top_winding_late(waiting) ==
  IF active = <<>> THEN ToTopLevel /\ UNCHANGED <<conses, conts, counts, outer>>
  ELSE Stays(<<Frame("after", active[1].w)>> \o waiting, "run")

(* deactivate-top-winding!: car of the empty list is an error. *)
deactivate_top_winding(waiting) ==
  IF active = <<>> THEN ToTopLevel /\ UNCHANGED <<conses, conts, counts, outer>>
  ELSE /\ active' = Tail(active)
       /\ Goes(<<Frame("after", active[1].w)>> \o waiting, "run")
       /\ UNCHANGED <<conses, base>>

CallThunk ==
  Top("thunk") /\ Stays(<<Frame("result", stack[1].w)>> \o Tail(stack), "run")
ThunkReturned == Top("result") /\ deactivate_top_winding(Tail(stack))
AfterReturned == Top("after") /\ Stays(Tail(stack), "back")

pop_many ==
  /\ Top("pop")
  /\ IF active = stack[1].shared THEN Stays(Tail(stack), "back")
     ELSE deactivate_top_winding(stack)

(* Mutant: the outer windings are entered last. *)
push_many_inner_first ==
  /\ Top("push")
  /\ LET ws == stack[1].ws
         shared == stack[1].shared
     IN  Stays((IF ws = shared THEN <<>>
                ELSE <<Frame("enter", ws[1].w), Push(Tail(ws), shared)>>) \o Tail(stack),
               "back")

push_many ==
  /\ Top("push")
  /\ LET ws == stack[1].ws
         shared == stack[1].shared
     IN  Stays((IF ws = shared THEN <<>>
                ELSE <<Push(Tail(ws), shared), Frame("enter", ws[1].w)>>) \o Tail(stack),
               "back")

(* activate-winding! calls the before thunk. *)
Enter == Top("enter") /\ Stays(<<Frame("before", stack[1].w)>> \o Tail(stack), "run")

(* The built-in continuation. *)
Arrive ==
  /\ Top("jump")
  /\ base' = conts[stack[1].w].base
  /\ Goes(conts[stack[1].w].stack, "run")
  /\ UNCHANGED <<active, conses>>

Program ==
  \/ dynamic_wind \/ call_cc \/ Return \/ Error
  \/ \E k \in 1..Len(conts) : CallContinuation(k)
Library ==
  \/ Activate \/ CallThunk \/ ThunkReturned \/ AfterReturned
  \/ pop_many \/ push_many \/ Enter \/ Arrive

Next == Program \/ Library
Spec == Init /\ [][Next]_vars
-----------------------------------------------------------------------------
(* The windings whose thunks are running. *)
Around(s) ==
  LET in[n \in 0..Len(s)] ==
        IF n = 0 THEN <<>>
        ELSE LET f == s[Len(s) + 1 - n]
             IN  (IF f.at = "result" THEN <<f.w>> ELSE <<>>) \o in[n - 1]
  IN  in[Len(s)]
Switching == \E k \in 1..Len(stack) : stack[k].at \in {"pop", "push", "jump"}

(* Whatever continuations were called, and whether extents were left by    *)
(* them, by errors or by returns: the active windings are those in whose   *)
(* thunks control is, the innermost first, and behind them those that      *)
(* errors left active.  (init.scm: the continuation adjusts the windings   *)
(* "to what they were when we made this".)                                 *)
ActiveMatches ==
  pc = "run" /\ ~Switching => Windings(active) = Around(stack) \o base

(* A before or after thunk, whoever calls it, finds active exactly the     *)
(* windings that were so when its dynamic-wind was called: the outer ones  *)
(* have been entered before and are left after it, its own is not active.  *)
ThunkContext ==
  pc = "run" /\ stack # <<>> /\ stack[1].at \in {"before", "after"} =>
    Windings(active) = outer[stack[1].w]

(* Both: wherever the program runs, in a thunk, before or after it, or at  *)
(* the top level, the list of windings is the one for this place.          *)
WindingsMatch == ActiveMatches /\ ThunkContext

(* The longest end that two sequences of windings have in common. *)
CommonEnd(x, y) ==
  LET common == {n \in 0..Len(x) : n <= Len(y) /\ list_tail(x, n) = list_tail(y, n)}
  IN  CHOOSE n \in common : \A m \in common : m <= n

(* A winding that is entered again gets another cell, to which no earlier  *)
(* list leads.                                                             *)
Reentered == \E c, d \in 1..Len(conses) : c < d /\ conses[c] = conses[d]

(* The call of a continuation leaves and enters only extents that here and *)
(* there do not have in common.                                            *)
KeepsShared ==
  LET direct == stack'[1].at = "jump"
      k == stack'[IF direct THEN 1 ELSE 3].w
      kept == IF direct THEN active ELSE stack'[1].shared
  IN  jumps' > jumps =>
        Len(kept) = CommonEnd(Windings(active), Windings(conts[k].ws))

(* As long as no extent was entered again, calls of continuations run the  *)
(* thunks between here and there and no others.                            *)
SharedKept == [][~Reentered => KeepsShared]_vars
=============================================================================
