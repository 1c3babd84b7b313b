--------------------------- MODULE NestedCallProofs ---------------------------
(***************************************************************************)
(* For every value of the bounds: a C function finds the interpreter as it *)
(* was called (CallerRestored), what it allocated is kept (LocalsRooted),  *)
(* and no call of Scheme goes on twice (ResumedOnce).  The first two       *)
(* follow from Nested: the calls of Scheme that are open and the C         *)
(* functions that made them pair off, the entry of c_nest for each being   *)
(* what the function was called with.  The last follows from Places: each  *)
(* call waits in one dump.                                                 *)
(***************************************************************************)
EXTENDS NestedCall, SequenceTheorems, TLAPS

Frames == [id : Nat, envir : Nat]
Saved == [recent : SUBSET Nat, envir : Nat, dump : Seq(Frames)]
Active == [local : SUBSET Nat, old_repl : BOOLEAN,
           was : [dump : Seq(Frames), envir : Nat, repl : BOOLEAN]]

(* The types, as far as the proof needs them.                              *)
Types ==
  /\ dump \in Seq(Frames) /\ envir \in Nat
  /\ recent \in SUBSET Nat
  /\ c_nest \in Seq(Saved)
  /\ interactive_repl \in BOOLEAN
  /\ cstack \in Seq(Active)
  /\ conts \in SUBSET Seq(Frames)
  /\ pc \in {"scheme", "foreign", "ended"}
  /\ calls \in Nat /\ tokens \in Nat

(* C function f called Scheme, and save_from_C_call put s by.              *)
Paired(f, s) ==
  /\ f.was = [dump |-> s.dump, envir |-> s.envir, repl |-> f.old_repl]
  /\ f.local \subseteq s.recent

Nested(cs, waits) ==
  /\ Len(cs) = Len(waits)
  /\ \A n \in 1..Len(waits) : Paired(cs[n], waits[n])

IInv ==
  /\ Types
  /\ pc = "foreign" =>
       /\ Len(cstack) > 0
       /\ Nested(Front(cstack), c_nest)
       /\ Last(cstack).was = [dump |-> dump, envir |-> envir,
                              repl |-> interactive_repl]
       /\ Last(cstack).local \subseteq recent
  /\ pc = "scheme" => Nested(cstack, c_nest)
-----------------------------------------------------------------------------
LEMMA FrontLength ==
  ASSUME NEW S, NEW seq \in Seq(S), Len(seq) > 0
  PROVE  Len(Front(seq)) = Len(seq) - 1
<1> DEFINE n == Len(seq) - 1
           k == Len(SubSeq(seq, 1, n))
<1>1. n \in Nat /\ \A i \in 1..n : seq[i] \in S
  OBVIOUS
<1>2. k = IF 1 <= n THEN n - 1 + 1 ELSE 0
  <2> HIDE DEF n
  <2> QED BY <1>1, SubSeqProperties
<1>3. k = n
  <2> HIDE DEF k, n
  <2> QED BY <1>1, <1>2
<1> QED BY <1>3 DEF Front

(* The end of a cycle keeps the invariant: the C function that goes on is  *)
(* the one whose state is restored.                                        *)
LEMMA EndCycleKeeps ==
  ASSUME Types, cstack' \in Seq(Active), Nested(cstack', c_nest),
         EndCycle(cstack'), calls' \in Nat, tokens' \in Nat,
         conts' \in SUBSET Seq(Frames)
  PROVE  IInv'
<1>1. CASE c_nest = <<>>
  <2>1. pc' = "ended" /\ UNCHANGED <<dump, envir, recent, c_nest,
                                     interactive_repl>>
    BY <1>1 DEF EndCycle
  <2> QED BY <2>1 DEF IInv, Types
<1>2. CASE c_nest # <<>>
  <2> DEFINE m == Len(c_nest)
  <2>1. /\ m \in Nat /\ m > 0 /\ Len(cstack') = m
        /\ c_nest[m] \in Saved /\ cstack'[m] \in Active
    BY <1>2 DEF Types, Nested
  <2>2. /\ pc' = "foreign"
        /\ recent' = c_nest[m].recent /\ envir' = c_nest[m].envir
        /\ dump' = c_nest[m].dump
        /\ c_nest' = SubSeq(c_nest, 1, m - 1)
        /\ interactive_repl' = cstack'[m].old_repl
    BY <1>2, <2>1 DEF EndCycle, Last, Front
  <2>3. Types'
    <3>1. c_nest' \in Seq(Saved) BY <2>1, <2>2 DEF Types
    <3> QED BY <2>1, <2>2, <3>1 DEF Types, Saved, Active
  <2>4. Paired(cstack'[m], c_nest[m])
    BY <2>1 DEF Nested
  <2>5. Nested(SubSeq(cstack', 1, m - 1), c_nest')
    BY <2>1, <2>2 DEF Nested, Types
  <2> QED BY <2>1, <2>2, <2>3, <2>4, <2>5 DEF IInv, Last, Front, Paired
<1> QED BY <1>1, <1>2

(* So does the next form of the program.                                   *)
LEMMA ReadFormKeeps ==
  ASSUME Types, cstack' \in Seq(Active), Nested(cstack', c_nest),
         NEW rest \in Seq(Frames), ReadForm(rest),
         calls' \in Nat, tokens' \in Nat, conts' \in SUBSET Seq(Frames)
  PROVE  IInv'
<1>1. Top \in Frames BY DEF Top, Frames
<1>2. dump' \in Seq(Frames)
  <2>1. (IF tty THEN <<>> ELSE rest) \in Seq(Frames) OBVIOUS
  <2>2. <<Top>> \in Seq(Frames) BY <1>1
  <2>3. dump' = (IF tty THEN <<>> ELSE rest) \o <<Top>> BY DEF ReadForm
  <2> HIDE DEF Frames, Top
  <2> DEFINE a == IF tty THEN <<>> ELSE rest
             b == <<Top>>
  <2>4. a \o b \in Seq(Frames)
    <3>1. a \in Seq(Frames) /\ b \in Seq(Frames) BY <2>1, <2>2
    <3> HIDE DEF a, b
    <3> QED BY <3>1
  <2> QED BY <2>3, <2>4
<1>3. /\ envir' \in Nat /\ recent' = {} /\ pc' = "scheme"
      /\ UNCHANGED <<c_nest, interactive_repl>>
  BY DEF ReadForm, Global, Top
<1>4. Types' BY <1>2, <1>3 DEF Types
<1> QED BY <1>3, <1>4 DEF IInv, Nested, Paired

(* And s_return.                                                           *)
LEMMA ResumeKeeps ==
  ASSUME Types, cstack' \in Seq(Active), Nested(cstack', c_nest),
         NEW stack \in Seq(Frames), Resume(stack, cstack'),
         calls' \in Nat, tokens' \in Nat, conts' \in SUBSET Seq(Frames)
  PROVE  IInv'
<1>1. CASE stack = <<>>
  BY <1>1, EndCycleKeeps DEF Resume
<1>2. CASE stack # <<>>
  <2>1. Front(stack) \in Seq(Frames) /\ Last(stack) \in Frames
    BY <1>2 DEF Front, Last
  <2>2. CASE Last(stack) = Top
    <3>1. ReadForm(Front(stack)) \/ EndCycle(cstack')
      BY <1>2, <2>2 DEF Resume
    <3> QED BY <2>1, <3>1, EndCycleKeeps, ReadFormKeeps
  <2>3. CASE Last(stack) # Top
    <3>1. /\ dump' = Front(stack) /\ envir' = Last(stack).envir
          /\ recent' = {} /\ pc' = "scheme"
          /\ UNCHANGED <<c_nest, interactive_repl>>
      BY <1>2, <2>3 DEF Resume
    <3>2. Types' BY <2>1, <3>1 DEF Types, Frames
    <3> QED BY <3>1, <3>2 DEF IInv, Nested, Paired
  <2> QED BY <2>2, <2>3
<1> QED BY <1>1, <1>2
-----------------------------------------------------------------------------
LEMMA InitIInv == Init => IInv
<1> SUFFICES ASSUME Init PROVE IInv
  OBVIOUS
<1>1. Top \in Frames BY DEF Top, Frames
<1>2. <<Top>> \in Seq(Frames) BY <1>1
<1> QED BY <1>2 DEF Init, IInv, Types, Nested, Global, Saved, Active

LEMMA NextIInv == IInv /\ [Next]_vars => IInv'
<1> SUFFICES ASSUME IInv, [Next]_vars PROVE IInv'
  OBVIOUS
<1> USE DEF history, counts
<1>1. Types BY DEF IInv
<1>2. CASE Return
  <2>1. Nested(cstack', c_nest) /\ cstack' \in Seq(Active)
    BY <1>1, <1>2 DEF Return, IInv, Types
  <2>2. Resume(dump, cstack') BY <1>2 DEF Return
  <2> QED BY <1>1, <1>2, <2>1, <2>2, ResumeKeeps DEF Return, Types
<1>3. CASE Call
  <2>1. Types'
    <3>1. [id |-> calls', envir |-> envir] \in Frames
      BY <1>1, <1>3 DEF Call, Types, Frames
    <3>2. dump' \in Seq(Frames) BY <1>1, <1>3, <3>1 DEF Call, Types
    <3> QED BY <1>1, <1>3, <3>2 DEF Call, Types
  <2> QED BY <1>3, <2>1 DEF Call, IInv, Nested, Paired
<1>4. CASE CallCC
  BY <1>1, <1>4 DEF CallCC, IInv, Types, Nested, Paired
<1>5. ASSUME NEW k \in conts, CallContinuation(k) PROVE IInv'
  <2>1. Nested(cstack', c_nest) /\ cstack' \in Seq(Active)
    BY <1>1, <1>5 DEF CallContinuation, IInv, Types
  <2>2. Resume(k, cstack') /\ k \in Seq(Frames)
    BY <1>1, <1>5 DEF CallContinuation, Types
  <2> QED BY <1>1, <1>5, <2>1, <2>2, ResumeKeeps DEF CallContinuation, Types
<1>6. CASE Error
  <2>1. Nested(cstack', c_nest) /\ cstack' \in Seq(Active)
    BY <1>1, <1>6 DEF Error, IInv, Types
  <2>2. ReadForm(dump) \/ EndCycle(cstack')
    BY <1>6 DEF Error
  <2> QED
    BY <1>1, <1>6, <2>1, <2>2, ReadFormKeeps, EndCycleKeeps DEF Error, Types
<1>7. CASE Quit
  <2>1. Nested(cstack', c_nest) /\ cstack' \in Seq(Active)
    BY <1>1, <1>7 DEF Quit, IInv, Types
  <2>2. EndCycle(cstack') BY <1>7 DEF Quit
  <2> QED BY <1>1, <1>7, <2>1, <2>2, EndCycleKeeps DEF Quit, Types
<1>8. CASE CallForeign
  <2> DEFINE f == [local |-> {tokens'}, old_repl |-> interactive_repl,
                   was |-> [dump |-> dump, envir |-> envir,
                            repl |-> interactive_repl]]
  <2>1. f \in Active /\ cstack' = Append(cstack, f)
    BY <1>1, <1>8 DEF CallForeign, Types, Active
  <2>2. Types'
    <3>1. cstack' \in Seq(Active)
      <4> HIDE DEF f
      <4> QED BY <1>1, <2>1 DEF Types
    <3> QED BY <1>1, <1>8, <3>1 DEF CallForeign, Types
  <2>3. Front(cstack') = cstack /\ Last(cstack') = f /\ Len(cstack') > 0
    <3> HIDE DEF f
    <3> QED BY <1>1, <2>1 DEF Types, Front, Last
  <2>4. Nested(Front(cstack'), c_nest')
    BY <1>8, <2>3 DEF CallForeign, IInv
  <2>5. /\ pc' = "foreign" /\ f.local \subseteq recent'
        /\ f.was = [dump |-> dump', envir |-> envir',
                    repl |-> interactive_repl']
    BY <1>8 DEF CallForeign
  <2> HIDE DEF f
  <2> QED BY <2>2, <2>3, <2>4, <2>5 DEF IInv
<1>9. CASE Allocate
  <2> DEFINE m == Len(cstack)
  <2>1. m \in Nat /\ m > 0 /\ cstack[m] \in Active
    BY <1>1, <1>9 DEF Allocate, IInv, Types
  <2>2. cstack' = [cstack EXCEPT ![m] =
                     [cstack[m] EXCEPT !.local = @ \cup {tokens'}]]
    BY <1>9 DEF Allocate
  <2>3. [cstack[m] EXCEPT !.local = @ \cup {tokens'}] \in Active
    <3>1. cstack[m].local \cup {tokens'} \in SUBSET Nat
      BY <1>1, <1>9, <2>1 DEF Allocate, Types, Active
    <3> QED BY <2>1, <3>1 DEF Active
  <2>4. cstack' \in Seq(Active) /\ Len(cstack') = m
    BY <1>1, <2>1, <2>2, <2>3 DEF Types
  <2>5. Types'
    BY <1>1, <1>9, <2>4 DEF Allocate, Types
  <2>6. Front(cstack') = Front(cstack)
    <3>1. \A n \in 1..(m - 1) : cstack'[n] = cstack[n]
      BY <1>1, <2>1, <2>2 DEF Types
    <3>2. /\ Front(cstack) = [n \in 1..(m - 1) |-> cstack[n]]
          /\ Front(cstack') = [n \in 1..(m - 1) |-> cstack'[n]]
      BY <1>1, <2>1, <2>4 DEF Types, Front
    <3> HIDE DEF m
    <3> QED BY <3>1, <3>2
  <2>7. /\ Last(cstack').was = Last(cstack).was
        /\ Last(cstack').local = Last(cstack).local \cup {tokens'}
    BY <1>1, <2>1, <2>2, <2>4 DEF Types, Last, Active
  <2> QED BY <1>9, <2>1, <2>4, <2>5, <2>6, <2>7 DEF Allocate, IInv
<1>10. CASE CallScheme
  <2> DEFINE m == Len(cstack)
             s == [recent |-> recent, envir |-> envir, dump |-> dump]
             f == [cstack[m] EXCEPT !.old_repl = interactive_repl]
  <2>1. m \in Nat /\ m > 0 /\ cstack[m] \in Active
    BY <1>1, <1>10 DEF CallScheme, IInv, Types
  <2>2. cstack' = [cstack EXCEPT ![m] = f] /\ c_nest' = Append(c_nest, s)
    BY <1>10 DEF CallScheme, Save
  <2>3. f \in Active /\ s \in Saved
    BY <1>1, <2>1 DEF Types, Active, Saved
  <2>4. Paired(f, s)
    BY <1>10, <2>1 DEF CallScheme, IInv, Last, Paired, Active
  <2>5. /\ cstack' \in Seq(Active) /\ Len(cstack') = m /\ cstack'[m] = f
        /\ \A n \in 1..(m - 1) : cstack'[n] = Front(cstack)[n]
    <3> HIDE DEF f, s
    <3> QED BY <1>1, <2>1, <2>2, <2>3 DEF Types, Front
  <2>6. /\ c_nest' \in Seq(Saved) /\ Len(c_nest') = Len(c_nest) + 1
        /\ c_nest'[Len(c_nest) + 1] = s
        /\ \A n \in 1..Len(c_nest) : c_nest'[n] = c_nest[n]
    <3> HIDE DEF f, s
    <3> QED BY <1>1, <2>2, <2>3 DEF Types
  <2>7. Nested(Front(cstack), c_nest) /\ Len(Front(cstack)) = m - 1
    <3>1. Len(Front(cstack)) = m - 1
      <4>1. cstack \in Seq(Active) BY <1>1 DEF Types
      <4> QED BY <2>1, <4>1, FrontLength
    <3> QED BY <1>10, <3>1 DEF CallScheme, IInv
  <2>8. Nested(cstack', c_nest')
    <3> HIDE DEF f, s
    <3>1. Len(c_nest) \in Nat /\ Len(c_nest) = m - 1
      BY <1>1, <2>7 DEF Nested, Types
    <3> QED BY SMTT(30), <2>1, <2>4, <2>5, <2>6, <2>7, <3>1 DEF Nested
  <2>9. Types'
    <3>1. <<>> \in Seq(Frames) OBVIOUS
    <3>2. dump' = <<>> /\ envir' \in Nat /\ recent' = {}
      BY <1>1, <1>10 DEF CallScheme, Save, Types, Global
    <3>3. /\ interactive_repl' = FALSE /\ pc' = "scheme"
          /\ UNCHANGED <<conts, calls, tokens>>
      BY <1>10 DEF CallScheme
    <3> QED BY <1>1, <2>5, <2>6, <3>1, <3>2, <3>3 DEF Types
  <2> QED BY <1>10, <2>8, <2>9 DEF CallScheme, IInv
<1>11. CASE ForeignReturn
  <2>1. Nested(cstack', c_nest) /\ cstack' \in Seq(Active)
    BY <1>1, <1>11 DEF ForeignReturn, IInv, Types, Front
  <2>2. Resume(dump, cstack') BY <1>11 DEF ForeignReturn
  <2> QED BY <1>1, <1>11, <2>1, <2>2, ResumeKeeps DEF ForeignReturn, Types
<1>12. CASE UNCHANGED vars
  BY <1>12 DEF vars, IInv, Types, Nested, Paired
<1>13. CASE Done
  BY <1>12, <1>13 DEF Done
<1> QED
  BY <1>2, <1>3, <1>4, <1>5, <1>6, <1>7, <1>8, <1>9, <1>10, <1>11, <1>12,
     <1>13 DEF Next

LEMMA Invariance == Spec => []IInv
BY InitIInv, NextIInv, PTL DEF Spec
-----------------------------------------------------------------------------
(* For every program and every nesting of C functions: whatever the Scheme *)
(* code that a C function called did (scheme_call, scheme_eval), the       *)
(* function finds the dump, the environment and the mode of the            *)
(* interpreter that it was called with.                                    *)
THEOREM CallerIsRestored == Spec => []CallerRestored
<1>1. IInv => CallerRestored
  BY DEF IInv, CallerRestored
<1> QED BY <1>1, Invariance, PTL

(* What the C functions that run have allocated hangs from sink, or from   *)
(* what save_from_C_call put by: the collector finds it.                   *)
THEOREM LocalsAreRooted == Spec => []LocalsRooted
<1>1. IInv => LocalsRooted
  <2> SUFFICES ASSUME IInv, pc # "ended", NEW n \in DOMAIN cstack
               PROVE  cstack[n].local \subseteq
                        recent \cup UNION {c_nest[m].recent :
                                             m \in DOMAIN c_nest}
    BY DEF LocalsRooted
  <2>1. Types /\ n \in 1..Len(cstack) /\ DOMAIN c_nest = 1..Len(c_nest)
    BY DEF IInv, Types
  <2>2. CASE n \in 1..Len(c_nest) /\ cstack[n].local \subseteq c_nest[n].recent
    BY <2>1, <2>2
  <2>3. CASE pc = "scheme"
    BY <2>1, <2>2, <2>3 DEF IInv, Nested, Paired
  <2>4. CASE pc = "foreign"
    <3>1. CASE n = Len(cstack)
      BY <2>4, <3>1 DEF IInv, Last
    <3>2. CASE n # Len(cstack)
      <4>1. n \in 1..Len(Front(cstack)) /\ Front(cstack)[n] = cstack[n]
        BY <2>1, <3>2 DEF Types, Front
      <4> QED BY <2>2, <2>4, <4>1 DEF IInv, Nested, Paired
    <3> QED BY <3>1, <3>2
  <2> QED BY <2>1, <2>3, <2>4 DEF Types
<1> QED BY <1>1, Invariance, PTL
-----------------------------------------------------------------------------
(* No call goes on twice                                                   *)

(* The calls that wait in the dump s, and the calls that went on.          *)
WaitsIn(s) == {s[m].id : m \in 1..Len(s)} \ {0}
Gone == {resumed[i] : i \in 1..Len(resumed)}

(* No call waits twice in s; the top level may, after an error.            *)
Once(s) ==
  /\ \A i, j \in 1..Len(s) : s[i].id = s[j].id => i = j \/ s[i].id = 0
  /\ \A i \in 1..Len(s) : s[i].id = 0 => s[i] = Top

(* Every call that is not over waits in one place, in the dump or in a     *)
(* dump that save_from_C_call put by, and those that went on in none.      *)
Places(s, saved, gone) ==
  /\ Once(s) /\ WaitsIn(s) \cap gone = {}
  /\ WaitsIn(s) \subseteq 1..calls /\ gone \subseteq 1..calls
  /\ \A n \in 1..Len(saved) :
       /\ Once(saved[n].dump) /\ WaitsIn(saved[n].dump) \subseteq 1..calls
       /\ WaitsIn(saved[n].dump) \cap (gone \cup WaitsIn(s)) = {}
  /\ \A n, m \in 1..Len(saved) :
       n # m => WaitsIn(saved[n].dump) \cap WaitsIn(saved[m].dump) = {}

Resumptions ==
  /\ resumed \in Seq(Nat)
  /\ \A i, j \in 1..Len(resumed) : resumed[i] = resumed[j] => i = j

WInv == Resumptions /\ Places(dump, c_nest, Gone)
RInv == crossed \in BOOLEAN /\ (~crossed => WInv)


LEMMA FrontOnce ==
  ASSUME NEW s \in Seq(Frames), Once(s), Len(s) > 0
  PROVE  /\ Once(Front(s)) /\ WaitsIn(Front(s)) \subseteq WaitsIn(s)
         /\ Last(s) # Top => /\ Last(s).id \in WaitsIn(s)
                             /\ Last(s).id \notin WaitsIn(Front(s))
<1>1. Len(Front(s)) = Len(s) - 1 /\ \A i \in 1..(Len(s) - 1) : Front(s)[i] = s[i]
  BY FrontLength DEF Front
<1>2. Len(s) \in Nat /\ Len(s) \in 1..Len(s)
  OBVIOUS
<1>3. Once(Front(s))
  BY <1>1, <1>2 DEF Once
<1>4. WaitsIn(Front(s)) \subseteq WaitsIn(s)
  BY <1>1, <1>2 DEF WaitsIn
<1>5. ASSUME Last(s) # Top
      PROVE  Last(s).id \in WaitsIn(s) /\ Last(s).id \notin WaitsIn(Front(s))
  <2>1. Last(s).id # 0
    BY <1>2, <1>5 DEF Once, Last
  <2>2. \A i \in 1..(Len(s) - 1) : s[i].id # s[Len(s)].id
    BY <1>2, <2>1 DEF Once, Last
  <2> QED BY <1>1, <1>2, <2>1, <2>2 DEF WaitsIn, Last
<1> QED BY <1>3, <1>4, <1>5

LEMMA PushOnce ==
  ASSUME NEW s \in Seq(Frames), Once(s), NEW f \in Frames,
         f = Top \/ (f.id # 0 /\ f.id \notin WaitsIn(s))
  PROVE  /\ Append(s, f) \in Seq(Frames) /\ Once(Append(s, f))
         /\ WaitsIn(Append(s, f)) = WaitsIn(s) \cup ({f.id} \ {0})
<1> DEFINE t == Append(s, f)
<1>1. /\ t \in Seq(Frames) /\ Len(t) = Len(s) + 1 /\ Len(s) \in Nat
      /\ t[Len(s) + 1] = f /\ \A i \in 1..Len(s) : t[i] = s[i]
  OBVIOUS
<1>2. \A i \in 1..Len(t) : i \in 1..Len(s) \/ i = Len(s) + 1
  BY <1>1
<1>3. Top.id = 0
  BY DEF Top
<1> HIDE DEF t
<1>4. Once(t)
  <2>1. \A i \in 1..Len(s) : s[i].id # f.id \/ s[i].id = 0
    BY <1>3 DEF WaitsIn
  <2>2. f.id = 0 => f = Top
    BY <1>3
  <2> QED BY <1>1, <1>2, <2>1, <2>2 DEF Once
<1>5. WaitsIn(t) = WaitsIn(s) \cup ({f.id} \ {0})
  BY <1>1, <1>2 DEF WaitsIn
<1> QED BY <1>1, <1>4, <1>5 DEF t

LEMMA PrefixOnce ==
  ASSUME NEW s \in Seq(Frames), Once(s), NEW k \in Seq(Frames), Within(k, s)
  PROVE  Once(k) /\ WaitsIn(k) \subseteq WaitsIn(s)
<1>1. Len(k) \in Nat /\ Len(s) \in Nat /\ Len(k) <= Len(s)
  BY DEF Within
<1>2. \A i \in 1..Len(k) : k[i] = s[i]
  BY <1>1 DEF Within
<1>3. \A i \in 1..Len(k) : i \in 1..Len(s)
  BY <1>1
<1> QED BY SMTT(40), <1>2, <1>3 DEF Once, WaitsIn

LEMMA NoneWaits == Once(<<>>) /\ WaitsIn(<<>>) = {} /\ <<>> \in Seq(Frames)
BY DEF Once, WaitsIn

(* Fewer calls wait in the dump. *)
LEMMA FewerWait ==
  ASSUME WInv, calls \in Nat, UNCHANGED <<c_nest, resumed, calls>>,
         Once(dump'), WaitsIn(dump') \subseteq WaitsIn(dump)
  PROVE  WInv'
<1>1. Gone' = Gone
  BY DEF Gone
<1> QED BY <1>1 DEF WInv, Resumptions, Places

LEMMA EndCycleWaits ==
  ASSUME Types, WInv, NEW cs, EndCycle(cs), UNCHANGED <<resumed, calls>>
  PROVE  WInv'
<1>1. CASE c_nest = <<>>
  <2>1. UNCHANGED <<dump, c_nest>>
    BY <1>1 DEF EndCycle
  <2> QED BY <2>1, FewerWait DEF WInv, Places, Types
<1>2. CASE c_nest # <<>>
  <2> DEFINE m == Len(c_nest)
  <2>1. m \in Nat /\ m > 0 /\ m \in 1..m
    BY <1>2 DEF Types
  <2>2. dump' = c_nest[m].dump /\ c_nest' = SubSeq(c_nest, 1, m - 1)
    BY <1>2 DEF EndCycle, Last, Front
  <2>3. Len(c_nest') = m - 1 /\ \A n \in 1..(m - 1) : c_nest'[n] = c_nest[n]
    BY <2>1, <2>2, FrontLength DEF Types, Front
  <2>4. \A n \in 1..(m - 1) : n \in 1..m /\ n # m
    BY <2>1
  <2>5. Gone' = Gone
    BY DEF Gone
  <2> HIDE DEF m
  <2>6. /\ Once(c_nest[m].dump) /\ WaitsIn(c_nest[m].dump) \subseteq 1..calls
        /\ WaitsIn(c_nest[m].dump) \cap Gone = {} /\ Gone \subseteq 1..calls
    BY <2>1 DEF WInv, Places, m
  <2>7. \A n \in 1..(m - 1) :
          /\ Once(c_nest[n].dump) /\ WaitsIn(c_nest[n].dump) \subseteq 1..calls
          /\ WaitsIn(c_nest[n].dump) \cap Gone = {}
          /\ WaitsIn(c_nest[n].dump) \cap WaitsIn(c_nest[m].dump) = {}
    BY <2>1, <2>4 DEF WInv, Places, m
  <2>8. \A n, l \in 1..(m - 1) :
          n # l => WaitsIn(c_nest[n].dump) \cap WaitsIn(c_nest[l].dump) = {}
    BY <2>4 DEF WInv, Places, m
  <2>9. \A n \in 1..(m - 1) : c_nest'[n].dump = c_nest[n].dump
    BY <2>3
  <2>10. Places(dump, c_nest, Gone)'
    BY <2>2, <2>3, <2>5, <2>6, <2>7, <2>8, <2>9 DEF Places
  <2> QED BY <2>10 DEF WInv, Resumptions
<1> QED BY <1>1, <1>2


LEMMA ReadFormWaits ==
  ASSUME Types, WInv, NEW rest \in Seq(Frames), Once(rest), WaitsIn(rest) \subseteq WaitsIn(dump),
         ReadForm(rest), UNCHANGED <<resumed, calls>>
  PROVE  WInv'
<1>1. Top \in Frames /\ Top.id = 0
  BY DEF Top, Frames
<1> DEFINE r == IF tty THEN <<>> ELSE rest
<1>2. r \in Seq(Frames) /\ Once(r) /\ WaitsIn(r) \subseteq WaitsIn(dump)
  BY NoneWaits
<1>3. dump' = r \o <<Top>> /\ UNCHANGED c_nest
  BY DEF ReadForm
<1> HIDE DEF r
<1>4. r \o <<Top>> = Append(r, Top)
  BY <1>1, <1>2
<1>5. Once(dump') /\ WaitsIn(dump') = WaitsIn(r)
  <2>1. Once(Append(r, Top)) /\ WaitsIn(Append(r, Top)) = WaitsIn(r) \cup ({Top.id} \ {0})
    BY <1>1, <1>2, PushOnce
  <2> QED BY <1>1, <1>3, <1>4, <2>1
<1> QED BY <1>2, <1>3, <1>5, FewerWait DEF Types

LEMMA ResumeWaits ==
  ASSUME Types, WInv, NEW stack \in Seq(Frames), Once(stack),
         WaitsIn(stack) \subseteq WaitsIn(dump),
         NEW cs, Resume(stack, cs), UNCHANGED calls
  PROVE  WInv'
<1>1. CASE stack = <<>>
  BY <1>1, EndCycleWaits DEF Resume
<1>2. CASE stack # <<>> /\ Last(stack) = Top
  <2>1. Len(stack) > 0 /\ Front(stack) \in Seq(Frames)
    BY <1>2 DEF Front
  <2>2. Once(Front(stack)) /\ WaitsIn(Front(stack)) \subseteq WaitsIn(dump)
    BY <2>1, FrontOnce
  <2>3. (ReadForm(Front(stack)) \/ EndCycle(cs)) /\ UNCHANGED resumed
    BY <1>2 DEF Resume
  <2> QED BY <2>1, <2>2, <2>3, ReadFormWaits, EndCycleWaits
<1>3. CASE stack # <<>> /\ Last(stack) # Top
  <2> DEFINE id == Last(stack).id
  <2>0. Len(stack) > 0 /\ Last(stack) \in Frames
    BY <1>3 DEF Last
  <2>1. Len(stack) > 0 /\ Last(stack) \in Frames /\ id \in Nat
    BY <2>0 DEF Frames
  <2>2. /\ Once(Front(stack)) /\ WaitsIn(Front(stack)) \subseteq WaitsIn(dump)
        /\ id \in WaitsIn(dump) /\ id \notin WaitsIn(Front(stack))
    BY <1>3, <2>1, FrontOnce
  <2>3. dump' = Front(stack) /\ resumed' = Append(resumed, id) /\ UNCHANGED c_nest
    BY <1>3 DEF Resume
  <2> HIDE DEF id
  <2>4. /\ id \notin Gone /\ id \in 1..calls
        /\ \A n \in 1..Len(c_nest) : id \notin WaitsIn(c_nest[n].dump)
    BY <2>2 DEF WInv, Places
  <2>5. Gone' = Gone \cup {id}
    <3>1. /\ Len(resumed') = Len(resumed) + 1 /\ Len(resumed) \in Nat
          /\ resumed'[Len(resumed) + 1] = id
          /\ \A i \in 1..Len(resumed) : resumed'[i] = resumed[i]
      BY <2>1, <2>3 DEF WInv, Resumptions
    <3>2. \A i : i \in 1..Len(resumed') <=> i \in 1..Len(resumed) \/ i = Len(resumed) + 1
      BY <3>1
    <3> QED BY <3>1, <3>2 DEF Gone
  <2>6. Resumptions'
    <3>1. /\ Len(resumed') = Len(resumed) + 1 /\ Len(resumed) \in Nat
          /\ resumed'[Len(resumed) + 1] = id /\ resumed' \in Seq(Nat)
          /\ \A i \in 1..Len(resumed) : resumed'[i] = resumed[i]
      BY <2>1, <2>3 DEF WInv, Resumptions
    <3>2. \A i \in 1..Len(resumed) : resumed[i] # id
      BY <2>4 DEF Gone
    <3>3. \A i : i \in 1..Len(resumed') <=> i \in 1..Len(resumed) \/ i = Len(resumed) + 1
      BY <3>1
    <3> QED BY <3>1, <3>2, <3>3 DEF WInv, Resumptions
  <2>7. Places(dump, c_nest, Gone)'
    <3>1. \A S : S \subseteq WaitsIn(dump) /\ id \notin S
              => S \cap Gone' = {} /\ S \subseteq 1..calls
      BY <2>5 DEF WInv, Places
    <3>2. /\ Once(dump') /\ WaitsIn(dump') \cap Gone' = {} /\ WaitsIn(dump') \subseteq 1..calls
          /\ WaitsIn(dump') \subseteq WaitsIn(dump)
      BY <2>2, <2>3, <3>1
    <3>3. Gone' \subseteq 1..calls
      BY <2>4, <2>5 DEF WInv, Places
    <3>4. \A n \in 1..Len(c_nest) :
            /\ Once(c_nest[n].dump) /\ WaitsIn(c_nest[n].dump) \subseteq 1..calls
            /\ WaitsIn(c_nest[n].dump) \cap (Gone' \cup WaitsIn(dump')) = {}
      BY <2>4, <2>5, <3>2 DEF WInv, Places
    <3> QED BY <2>3, <3>2, <3>3, <3>4 DEF WInv, Places
  <2> QED BY <2>6, <2>7 DEF WInv
<1> QED BY <1>1, <1>2, <1>3

LEMMA InitRInv == Init => RInv
<1> SUFFICES ASSUME Init PROVE RInv
  OBVIOUS
<1>1. Top \in Frames /\ Top.id = 0
  BY DEF Top, Frames
<1>2. dump = Append(<<>>, Top)
  BY <1>1 DEF Init
<1>3. Once(dump) /\ WaitsIn(dump) = {}
  <2>1. WaitsIn(dump) = WaitsIn(<<>>) \cup ({Top.id} \ {0}) /\ Once(dump)
    BY <1>1, <1>2, NoneWaits, PushOnce
  <2> QED BY <1>1, <2>1, NoneWaits
<1>4. c_nest = <<>> /\ resumed = <<>> /\ Gone = {} /\ crossed = FALSE
  BY DEF Init, Gone
<1>5. Places(dump, c_nest, Gone)
  BY <1>3, <1>4 DEF Places
<1>6. Resumptions
  BY <1>4 DEF Resumptions
<1> QED BY <1>4, <1>5, <1>6 DEF RInv, WInv

LEMMA NextRInv == IInv /\ RInv /\ [Next]_vars => RInv'
<1> SUFFICES ASSUME IInv, RInv, [Next]_vars PROVE RInv'
  OBVIOUS
<1> USE DEF history, counts
<1>1. Types /\ calls \in Nat /\ dump \in Seq(Frames)
  BY DEF IInv, Types
<1>2. ASSUME WInv PROVE Once(dump)
  BY <1>2 DEF WInv, Places
<1>3. CASE Return
  BY <1>1, <1>2, <1>3, ResumeWaits DEF Return, RInv
<1>4. CASE Call
  <2> DEFINE f == [id |-> calls', envir |-> envir]
  <2>1. /\ calls' = calls + 1 /\ dump' = Append(dump, f) /\ f \in Frames /\ f.id = calls'
        /\ UNCHANGED <<c_nest, resumed, crossed>>
    BY <1>1, <1>4 DEF Call, Types, Frames
  <2> HIDE DEF f
  <2>2. SUFFICES ASSUME WInv PROVE WInv'
    BY <2>1 DEF RInv
  <2>3. calls' # 0 /\ calls' \notin 1..calls /\ 1..calls \subseteq 1..calls'
    BY <1>1, <2>1
  <2>4. WaitsIn(dump') = WaitsIn(dump) \cup {calls'} /\ Once(dump')
    <3>1. f.id # 0 /\ f.id \notin WaitsIn(dump)
      BY <2>1, <2>2, <2>3 DEF WInv, Places
    <3>2. Once(Append(dump, f)) /\ WaitsIn(Append(dump, f)) = WaitsIn(dump) \cup ({f.id} \ {0})
      BY <1>1, <1>2, <2>1, <2>2, <3>1, PushOnce
    <3> QED BY <2>1, <2>3, <3>2
  <2>5. Gone' = Gone
    BY <2>1 DEF Gone
  <2>6. calls' \in 1..calls'
    BY <1>1, <2>1
  <2>7. Places(dump, c_nest, Gone)'
    <3>1. \A n \in 1..Len(c_nest) :
            /\ Once(c_nest[n].dump) /\ WaitsIn(c_nest[n].dump) \subseteq 1..calls'
            /\ WaitsIn(c_nest[n].dump) \cap (Gone \cup WaitsIn(dump')) = {}
      BY <2>2, <2>3, <2>4 DEF WInv, Places
    <3>2. /\ WaitsIn(dump') \cap Gone = {} /\ WaitsIn(dump') \subseteq 1..calls'
          /\ Gone \subseteq 1..calls'
      BY <2>2, <2>3, <2>4, <2>6 DEF WInv, Places
    <3> QED BY <2>1, <2>2, <2>4, <2>5, <3>1, <3>2 DEF WInv, Places
  <2> QED BY <2>1, <2>2, <2>7 DEF WInv, Resumptions
<1>5. ASSUME NEW k \in conts, CallContinuation(k) PROVE RInv'
  <2>1. crossed' = (crossed \/ ~Within(k, dump)) /\ Resume(k, cstack) /\ UNCHANGED calls
        /\ k \in Seq(Frames)
    BY <1>1, <1>5 DEF CallContinuation, Types
  <2>2. SUFFICES ASSUME ~crossed' PROVE WInv'
    BY <2>1 DEF RInv
  <2>3. WInv /\ Within(k, dump)
    BY <2>1, <2>2 DEF RInv
  <2> QED BY <1>1, <1>2, <2>1, <2>3, PrefixOnce, ResumeWaits
<1>6. CASE Error
  <2>1. ReadForm(dump) \/ EndCycle(cstack)
    BY <1>6 DEF Error
  <2> QED BY <1>1, <1>2, <1>6, <2>1, ReadFormWaits, EndCycleWaits DEF Error, RInv
<1>7. CASE Quit
  BY <1>1, <1>7, EndCycleWaits DEF Quit, RInv
<1>8. CASE CallScheme
  <2>1. /\ c_nest' = Append(c_nest, [recent |-> recent, envir |-> envir, dump |-> dump])
        /\ dump' = <<>> /\ UNCHANGED <<resumed, crossed, calls>>
    BY <1>8 DEF CallScheme, Save
  <2>2. SUFFICES ASSUME WInv PROVE WInv'
    BY <2>1 DEF RInv
  <2> DEFINE m == Len(c_nest)
  <2>3. /\ m \in Nat /\ Len(c_nest') = m + 1 /\ c_nest'[m + 1].dump = dump
        /\ \A n \in 1..m : c_nest'[n].dump = c_nest[n].dump
    BY <1>1, <2>1 DEF Types
  <2>4. \A n : n \in 1..(m + 1) <=> n \in 1..m \/ n = m + 1
    BY <2>3
  <2>5. Gone' = Gone /\ Once(dump') /\ WaitsIn(dump') = {}
    BY <2>1, NoneWaits DEF Gone
  <2>6. /\ Once(dump) /\ WaitsIn(dump) \subseteq 1..calls /\ WaitsIn(dump) \cap Gone = {}
        /\ Gone \subseteq 1..calls
        /\ \A n \in 1..m : /\ Once(c_nest[n].dump) /\ WaitsIn(c_nest[n].dump) \subseteq 1..calls
                           /\ WaitsIn(c_nest[n].dump) \cap (Gone \cup WaitsIn(dump)) = {}
        /\ \A n, l \in 1..m :
             n # l => WaitsIn(c_nest[n].dump) \cap WaitsIn(c_nest[l].dump) = {}
    BY <2>2 DEF WInv, Places
  <2> HIDE DEF m
  <2>7. \A n \in 1..Len(c_nest') :
          /\ Once(c_nest'[n].dump) /\ WaitsIn(c_nest'[n].dump) \subseteq 1..calls
          /\ WaitsIn(c_nest'[n].dump) \cap Gone = {}
    BY <2>3, <2>4, <2>6
  <2>8. \A n, l \in 1..Len(c_nest') :
          n # l => WaitsIn(c_nest'[n].dump) \cap WaitsIn(c_nest'[l].dump) = {}
    BY <2>3, <2>4, <2>6
  <2>9. Places(dump, c_nest, Gone)'
    BY <2>1, <2>5, <2>6, <2>7, <2>8 DEF Places
  <2> QED BY <2>1, <2>2, <2>9 DEF WInv, Resumptions
<1>9. CASE ForeignReturn
  BY <1>1, <1>2, <1>9, ResumeWaits DEF ForeignReturn, RInv
<1>10. CASE CallCC \/ CallForeign \/ Allocate \/ Done \/ UNCHANGED vars
  <2>1. UNCHANGED <<dump, c_nest, resumed, crossed, calls>>
    BY <1>10 DEF CallCC, CallForeign, Allocate, Done, vars
  <2> QED BY <1>1, <1>2, <2>1, FewerWait DEF RInv
<1> QED
  BY <1>3, <1>4, <1>5, <1>6, <1>7, <1>8, <1>9, <1>10 DEF Next

(* As long as continuations are called within the stack they were made on, *)
(* every call of a program goes on once at most, however deep its cycles   *)
(* nest, whichever of them end by an error or by quit, and in whatever     *)
(* mode: a dump that save_from_C_call puts by shares no frame with the one *)
(* that the new cycle runs on.                                             *)
THEOREM CallsResumeOnce == Spec => []ResumedOnce
<1>1. RInv => ResumedOnce
  <2>1. resumed \in Seq(Nat) => DOMAIN resumed = 1..Len(resumed)
    OBVIOUS
  <2> QED BY <2>1 DEF RInv, WInv, Resumptions, ResumedOnce
<1>2. Spec => []RInv
  BY InitRInv, NextRInv, Invariance, PTL DEF Spec
<1> QED BY <1>1, <1>2, PTL
=============================================================================
