------------------------------ MODULE NestedCall ------------------------------
(***************************************************************************)
(* The embedding interface of src/scheme.c: a foreign function, in C, that *)
(* a Scheme program calls and that calls Scheme in turn, through           *)
(* scheme_call or scheme_eval.  Each such call runs an evaluation cycle of *)
(* its own on the one interpreter there is: save_from_C_call puts by what  *)
(* the cycle would spoil, and restore_from_C_call puts it back.            *)
(*                                                                         *)
(* A frame of the dump is named by the number of the call that made it;    *)
(* the frame 0 is that of the top level, which reads the next form.  What  *)
(* C functions allocate are tokens.  `was' (in cstack), `resumed' and      *)
(* `crossed' are history variables: no guard mentions them.                *)
(***************************************************************************)
EXTENDS Integers, Sequences, FiniteSets

CONSTANTS MaxCalls,     \* bounds on the calls of closures,
          MaxForeign,   \* on the foreign functions called,
          MaxTokens,    \* on what they allocate,
          MaxConts,     \* on the continuations made,
          MaxJumps,     \* on their calls
          MaxForms      \* and on the forms of the program

ASSUME BoundsAssumption ==
  {MaxCalls, MaxForeign, MaxTokens, MaxConts, MaxJumps, MaxForms} \subseteq Nat

VARIABLES dump, envir,  \* of the interpreter: frames, the top one last
          recent,       \* what hangs from sink: cells not to be collected
          c_nest,       \* what save_from_C_call put by, the last call last
          interactive_repl, retcode,
          cstack,       \* the C functions that run: [local, old_repl, was]
          pc,           \* "scheme", "foreign" or "ended"
          conts,        \* continuations: dumps
          tty,          \* the program is read from the terminal
          calls, foreigns, tokens, jumps, forms,
          resumed,      \* the frames resumed, in order
          crossed       \* a continuation of another dump was called

counts == <<calls, foreigns, tokens, jumps, forms>>
history == <<resumed, crossed>>
vars == <<dump, envir, recent, c_nest, interactive_repl, retcode, cstack, pc,
          conts, tty, counts, history>>

Top == [id |-> 0, envir |-> 0]
Global == 0

Last(s) == s[Len(s)]
Front(s) == SubSeq(s, 1, Len(s) - 1)

(* scheme_load_file                                                        *)
Init ==
  /\ tty \in BOOLEAN
  /\ dump = <<Top>> /\ envir = Global
  /\ recent = {} /\ c_nest = <<>>
  /\ interactive_repl = tty /\ retcode = 0
  /\ cstack = <<>> /\ pc = "scheme"
  /\ conts = {}
  /\ calls = 0 /\ foreigns = 0 /\ tokens = 0 /\ jumps = 0 /\ forms = 1
  /\ resumed = <<>> /\ crossed = FALSE
-----------------------------------------------------------------------------
(* Mutant: restore_from_C_call forgets the environment.                    *)
EndCycleElsewhere(cs) ==
  IF c_nest = <<>>
  THEN /\ pc' = "ended"
       /\ UNCHANGED <<dump, envir, recent, c_nest, interactive_repl>>
  ELSE /\ pc' = "foreign"
       /\ recent' = Last(c_nest).recent
       /\ dump' = Last(c_nest).dump
       /\ c_nest' = Front(c_nest)
       /\ interactive_repl' = Last(cs).old_repl
       /\ UNCHANGED envir

(* The cycle ends.  The outermost one ends the program; another returns to *)
(* scheme_call or scheme_eval, and these to the last C function of cs.     *)
EndCycle(cs) ==
  IF c_nest = <<>>
  THEN /\ pc' = "ended"
       /\ UNCHANGED <<dump, envir, recent, c_nest, interactive_repl>>
  ELSE /\ pc' = "foreign"
       /\ recent' = Last(c_nest).recent
       /\ envir' = Last(c_nest).envir
       /\ dump' = Last(c_nest).dump
       /\ c_nest' = Front(c_nest)
       /\ interactive_repl' = Last(cs).old_repl

(* The top level (OP_T0LVL) reads the next form, with nothing else waiting *)
(* if it reads from the terminal.                                          *)
ReadForm(rest) ==
  /\ forms < MaxForms /\ forms' = forms + 1
  /\ dump' = (IF tty THEN <<>> ELSE rest) \o <<Top>>
  /\ envir' = (IF tty THEN Global ELSE Top.envir)
  /\ recent' = {} /\ pc' = "scheme"
  /\ UNCHANGED <<c_nest, interactive_repl>>

(* s_return: the top frame of stack goes on.                               *)
Resume(stack, cs) ==
  IF stack = <<>>
  THEN EndCycle(cs) /\ UNCHANGED <<forms, resumed>>
  ELSE IF Last(stack) = Top
  THEN /\ ReadForm(Front(stack)) \/ (EndCycle(cs) /\ UNCHANGED forms)
       /\ UNCHANGED resumed
  ELSE /\ dump' = Front(stack) /\ envir' = Last(stack).envir
       /\ recent' = {} /\ pc' = "scheme"
       /\ resumed' = Append(resumed, Last(stack).id)
       /\ UNCHANGED <<c_nest, interactive_repl, forms>>

Return ==
  /\ pc = "scheme"
  /\ Resume(dump, cstack)
  /\ UNCHANGED <<retcode, cstack, conts, tty, calls, foreigns, tokens, jumps,
                 crossed>>

(* A closure is called: its operands, or what follows the call, wait.      *)
Call ==
  /\ pc = "scheme" /\ calls < MaxCalls
  /\ calls' = calls + 1
  /\ dump' = Append(dump, [id |-> calls', envir |-> envir])
  /\ envir' = calls'
  /\ recent' = {}
  /\ UNCHANGED <<c_nest, interactive_repl, retcode, cstack, pc, conts, tty,
                 foreigns, tokens, jumps, forms, history>>

(* call/cc                                                                 *)
CallCC ==
  /\ pc = "scheme"
  /\ dump \notin conts /\ Cardinality(conts) < MaxConts
  /\ conts' = conts \cup {dump}
  /\ recent' = {}
  /\ UNCHANGED <<dump, envir, c_nest, interactive_repl, retcode, cstack, pc,
                 tty, counts, history>>

(* A continuation is called (also by the error hook, for a catch): its     *)
(* dump is the dump now, and its top frame goes on.  `crossed' is whether  *)
(* this leaves the stack it was called on for another one.                 *)
Within(k, stack) == Len(k) <= Len(stack) /\ SubSeq(stack, 1, Len(k)) = k

CallContinuation(k) ==
  /\ pc = "scheme" /\ jumps < MaxJumps
  /\ jumps' = jumps + 1
  /\ Resume(k, cstack)
  /\ crossed' = (crossed \/ ~Within(k, dump))
  /\ UNCHANGED <<retcode, cstack, conts, tty, calls, foreigns, tokens>>

(* An error no hook handles: back to the top level if the cycle is that of *)
(* the terminal, else the cycle ends.                                      *)
Error ==
  /\ pc = "scheme"
  /\ retcode' = -1
  /\ IF interactive_repl THEN ReadForm(dump) \/ (EndCycle(cstack) /\ UNCHANGED forms)
     ELSE EndCycle(cstack) /\ UNCHANGED forms
  /\ UNCHANGED <<cstack, conts, tty, calls, foreigns, tokens, jumps, history>>

(* (quit n), whose cycle ends whatever waits                               *)
Quit ==
  /\ pc = "scheme"
  /\ \E n \in {0, 1} : retcode' = n
  /\ EndCycle(cstack)
  /\ UNCHANGED <<cstack, conts, tty, calls, foreigns, tokens, jumps, forms,
                 history>>
-----------------------------------------------------------------------------
(* A foreign function is called: the cells of its arguments are kept (a    *)
(* token stands for them).                                                 *)
CallForeign ==
  /\ pc = "scheme"
  /\ foreigns < MaxForeign /\ foreigns' = foreigns + 1
  /\ tokens < MaxTokens /\ tokens' = tokens + 1
  /\ pc' = "foreign"
  /\ recent' = {tokens'}
  /\ cstack' = Append(cstack, [local |-> {tokens'},
                               old_repl |-> interactive_repl,
                               was |-> [dump |-> dump, envir |-> envir,
                                        repl |-> interactive_repl]])
  /\ UNCHANGED <<dump, envir, c_nest, interactive_repl, retcode, conts, tty,
                 calls, jumps, forms, history>>

(* It allocates, and holds what it gets in a C variable.                   *)
Allocate ==
  /\ pc = "foreign"
  /\ tokens < MaxTokens /\ tokens' = tokens + 1
  /\ recent' = recent \cup {tokens'}
  /\ cstack' = [cstack EXCEPT ![Len(cstack)].local = @ \cup {tokens'}]
  /\ UNCHANGED <<dump, envir, c_nest, interactive_repl, retcode, pc, conts,
                 tty, calls, foreigns, jumps, forms, history>>

(* Mutant: the dump stack is not truncated.                                *)
SaveWhole ==
  /\ c_nest' = Append(c_nest, [recent |-> recent, envir |-> envir,
                               dump |-> dump])
  /\ UNCHANGED dump

(* Mutant: what hangs from sink is not put by.                             *)
SaveNoSink ==
  /\ c_nest' = Append(c_nest, [recent |-> {}, envir |-> envir,
                               dump |-> dump])
  /\ dump' = <<>>

(* save_from_C_call                                                        *)
Save ==
  /\ c_nest' = Append(c_nest, [recent |-> recent, envir |-> envir,
                               dump |-> dump])
  /\ dump' = <<>>

(* It calls Scheme, in the global environment (scheme_call) or in the one  *)
(* there is (scheme_eval).                                                 *)
CallScheme ==
  /\ pc = "foreign"
  /\ pc' = "scheme"
  /\ cstack' = [cstack EXCEPT ![Len(cstack)].old_repl = interactive_repl]
  /\ interactive_repl' = FALSE
  /\ Save
  /\ envir' \in {Global, envir}
  /\ retcode' = 0
  /\ recent' = {}
  /\ UNCHANGED <<conts, tty, counts, history>>

(* It returns to the program: the top frame goes on with its value.        *)
ForeignReturn ==
  /\ pc = "foreign"
  /\ cstack' = Front(cstack)
  /\ Resume(dump, Front(cstack))
  /\ UNCHANGED <<retcode, conts, tty, calls, foreigns, tokens, jumps, crossed>>
-----------------------------------------------------------------------------
Done == pc = "ended" /\ UNCHANGED vars

Next ==
  \/ Return \/ Call \/ CallCC \/ (\E k \in conts : CallContinuation(k))
  \/ Error \/ Quit
  \/ CallForeign \/ Allocate \/ CallScheme \/ ForeignReturn
  \/ Done

Spec == Init /\ [][Next]_vars
-----------------------------------------------------------------------------
(* Whatever the Scheme code that a C function called did -- an error, a    *)
(* quit, a jump out of it -- the C function finds the dump, the            *)
(* environment and the mode of the interpreter that it was called with.    *)
CallerRestored ==
  pc = "foreign" =>
    Last(cstack).was = [dump |-> dump, envir |-> envir,
                        repl |-> interactive_repl]

(* What an active C function got by allocating, its arguments among it, is *)
(* never collected under it, also while Scheme code that it called runs.   *)
LocalsRooted ==
  pc # "ended" =>
    \A n \in DOMAIN cstack :
      cstack[n].local \subseteq
        recent \cup UNION {c_nest[m].recent : m \in DOMAIN c_nest}

(* As long as each continuation is called within the stack it was made on, *)
(* no call goes on twice: nested cycles do not run what waits outside.     *)
ResumedOnce ==
  ~crossed => \A i, j \in DOMAIN resumed : resumed[i] = resumed[j] => i = j

(* A cycle that a C function started never goes on with what waited before *)
(* it: "Truncate the dump stack so TS will return here when done, not      *)
(* directly resume pre-C-call operations" (src/scheme.c, 4901).            *)
Waiting == UNION {{c_nest[n].dump[m].id : m \in DOMAIN c_nest[n].dump} :
                  n \in DOMAIN c_nest}

PreCallOperationsWait ==
  [][resumed' # resumed => resumed'[Len(resumed')] \notin Waiting]_vars
=============================================================================
