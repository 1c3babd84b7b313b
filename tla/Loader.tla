------------------------------- MODULE Loader -------------------------------
(***************************************************************************)
(* The read-eval loop of src/scheme.c over the stack of files being        *)
(* loaded: OP_T0LVL, OP_T1LVL, OP_VALUEPRINT and OP_LOAD, file_push and    *)
(* file_pop, the counting of open parentheses, the current input port, the *)
(* way an error takes (ERR0 and ERR1, or a handler of catch in init.scm),  *)
(* the program's own continuations, which may leave loads and catches, and *)
(* the loop of main() over its files.                                      *)
(*                                                                         *)
(* An expression is what it does to this machinery: see Items.  `dump' is  *)
(* the stack of continuation frames, its top first.                        *)
(***************************************************************************)
EXTENDS Integers, Sequences

CONSTANTS Names,        \* the files that can be loaded
          Stdin,        \* the standard input
          Missing,      \* the name of a file that does not exist
          Programs,     \* the contents of all files, and the sequence of
                        \* files that main() is given
          MAXFIL        \* size of the load stack

(* What an expression does:                                                *)
(*   value    nothing that matters here     error  fails, with a rest      *)
(*   open     is a list without its last parenthesis                       *)
(*   read     reads from a string port      readbad  so, with an error     *)
(*   load     (begin (load f) ...)          catch  (catch v (load f))      *)
(*   keep     (call/cc (lambda (c) (set! k c)))                            *)
(*   jump     (k v), with one of the continuations kept so far             *)
(*   escape   (catch v (k v)), with one of these or its own,               *)
(*            (call/cc (lambda (k) (catch v (k v))))                       *)
Items == [op : {"value", "error", "open", "read", "readbad", "keep", "jump", "escape"},
          file : {Missing}]
         \cup [op : {"load", "catch"}, file : Names \cup {Missing}]
Nothing == [op |-> "value", file |-> Missing]

ASSUME LoaderAssumption ==
  /\ Stdin \notin Names /\ Missing \notin Names
  /\ MAXFIL \in Nat \ {0}
  /\ \A p \in Programs :
       /\ p.session \in Seq(Names \cup {Stdin})
       /\ p.contents \in [Names \cup {Stdin} -> Seq(Items)]

VARIABLES contents,     \* what is in each file
          session,      \* files that main() has not come to yet
          op, args,     \* the next opcode, and the args of its frame
          code,         \* the expression that was read
          dump,         \* continuation frames
          load_stack,   \* the open files: [file, pos, eof], file_i from 0
          file_i, nesting, nesting_stack,
          inport, save_inport,
          interactive_repl, retcode,
          handlers,     \* continuations pushed by catch
          kept,         \* continuations in variables of the program
          owed,         \* history: file_i where an unclosed list was read
                        \* that no error has reported, -1 if there is none
          skipped       \* history: the program has left a catch, or come
                        \* back into one, by a continuation it kept

input == <<inport, save_inport>>
files == <<load_stack, file_i, nesting_stack>>
own == <<kept, skipped>>
fixed == <<contents, session, interactive_repl, own>>
vars == <<contents, session, op, args, code, dump, load_stack, file_i, nesting,
          nesting_stack, inport, save_inport, interactive_repl, retcode,
          handlers, kept, owed, skipped>>

(* A frame that waits for the end of a load names the file, OP_SET_INPORT  *)
(* the port.                                                               *)
Frame(o, a) == [op |-> o, arg |-> a]
Frames == [op : {"T0LVL", "T1LVL", "VALUEPRINT"}, arg : {"none"}]
          \cup [op : {"REST", "UNCATCH"}, arg : Names \cup {Missing, "none"}]
          \cup [op : {"SET_INPORT"}, arg : {"load", "string"}]
Opened(f) == [file |-> f, pos |-> 1, eof |-> FALSE]

(* s_return: the top frame of d goes on, or the cycle ends. *)
Return(d) ==
  \/ d = <<>> /\ op' = "main" /\ UNCHANGED args /\ dump' = d
  \/ d # <<>> /\ op' = Head(d).op /\ args' = Head(d).arg /\ dump' = Tail(d)

file_interactive ==
  file_i = 0 /\ load_stack[0].file = Stdin /\ inport = "load"

Init ==
  /\ \E p \in Programs : contents = p.contents /\ session = p.session
  /\ op = "main" /\ args = "none" /\ code = Nothing /\ dump = <<>>
  /\ load_stack = [k \in 0..(MAXFIL - 1) |-> [Opened(Stdin) EXCEPT !.eof = TRUE]]
  /\ file_i = 0
  /\ nesting = 0 /\ nesting_stack = [k \in 0..(MAXFIL - 1) |-> 0]
  /\ inport = "load" /\ save_inport = "load"
  /\ interactive_repl = FALSE /\ retcode = 0
  /\ handlers = <<>> /\ kept = {}
  /\ owed = -1 /\ skipped = FALSE
-----------------------------------------------------------------------------
(* Errors                                                                  *)

(* _Error_1 with the stack at d.  The innermost catch takes over, or ERR0  *)
(* and ERR1 report the error and go on at the top level, if there is a     *)
(* user, with whatever is on the stack.                                    *)
Fail(d) ==
  \/ /\ handlers # <<>>
     /\ handlers' = Tail(handlers)
     /\ Return(Head(handlers))
     /\ UNCHANGED retcode
  \/ /\ handlers = <<>>
     /\ op' = IF interactive_repl THEN "T0LVL" ELSE "main"
     /\ dump' = d /\ retcode' = -1
     /\ UNCHANGED <<args, handlers>>

(* The check at the head of opexe_5, through which reading and printing go. *)
Unmatched(d) ==
  /\ nesting # 0
  /\ nesting' = 0 /\ owed' = -1
  /\ \/ handlers # <<>> /\ handlers' = Tail(handlers) /\ Return(Head(handlers))
     \/ /\ handlers = <<>> /\ UNCHANGED <<args, handlers>>
        /\ op' = IF interactive_repl THEN "T0LVL" ELSE "main"
        /\ dump' = d
  /\ retcode' = -1
-----------------------------------------------------------------------------
(* The load stack                                                          *)

(* Mutant: one file more is pushed than there is room for. *)
CanPushOneMore(f) == file_i < MAXFIL /\ f # Missing

(* file_push finds room, and fopen the file. *)
CanPush(f) == file_i < MAXFIL - 1 /\ f # Missing

file_push(f) ==
  /\ file_i' = file_i + 1
  /\ load_stack' = [k \in DOMAIN load_stack \cup {file_i + 1} |->
                      IF k = file_i + 1 THEN Opened(f) ELSE load_stack[k]]
  /\ nesting_stack' = [k \in DOMAIN nesting_stack \cup {file_i + 1} |->
                         IF k = file_i + 1 THEN 0 ELSE nesting_stack[k]]

(* Mutant: the parentheses left open in the file are forgotten. *)
file_pop_forgets ==
  file_i' = file_i - 1 /\ UNCHANGED <<nesting, load_stack, nesting_stack>>

(* Mutant: the stack is not popped. *)
file_pop_stays ==
  nesting' = nesting_stack[file_i] /\ UNCHANGED files

file_pop ==
  /\ nesting' = nesting_stack[file_i]
  /\ file_i' = file_i - 1
  /\ UNCHANGED <<load_stack, nesting_stack>>

(* OP_LOAD of f, called with the stack at d: s_goto T0LVL without pushing  *)
(* a frame, or "unable to open".                                           *)
Load(f, d) ==
  \/ /\ CanPush(f)
     /\ file_push(f)
     /\ op' = "T0LVL" /\ dump' = d
     /\ UNCHANGED <<args, retcode, handlers>>
  \/ ~CanPush(f) /\ Fail(d) /\ UNCHANGED files
-----------------------------------------------------------------------------
(* The loop                                                                *)

(* main() and scheme_load_named_file(): the next file, when the cycle has  *)
(* ended for the one before.                                               *)
StartFile ==
  /\ op = "main" /\ session # <<>>
  /\ session' = Tail(session)
  /\ load_stack' = [load_stack EXCEPT ![0] = Opened(Head(session))]
  /\ file_i' = 0 /\ dump' = <<>> /\ retcode' = 0
  /\ interactive_repl' = (interactive_repl \/ Head(session) = Stdin)
  /\ inport' = "load" /\ op' = "T0LVL"
  /\ owed' = -1
  /\ UNCHANGED <<contents, args, code, nesting, nesting_stack, save_inport, handlers, own>>

(* dump_stack_reset for the user, when the prompt is written. *)
PromptStack == IF file_interactive THEN <<>> ELSE dump

(* OP_T0LVL, the end of a file: QUIT, or back to what called load. *)
EndOfFile ==
  /\ op = "T0LVL" /\ load_stack[file_i].eof
  /\ \/ /\ file_i = 0
        /\ op' = "main" /\ UNCHANGED <<args, dump, files, nesting>>
     \/ /\ file_i > 0
        /\ file_pop /\ Return(dump)
  /\ UNCHANGED <<fixed, code, input, retcode, handlers, owed>>

(* OP_T0LVL, the next expression. *)
TopLevel ==
  /\ op = "T0LVL" /\ ~load_stack[file_i].eof
  /\ nesting' = 0
  /\ save_inport' = inport /\ inport' = "load"
  /\ dump' = <<Frame("T1LVL", "none"), Frame("VALUEPRINT", "none"),
               Frame("T0LVL", "none")>> \o PromptStack
  /\ op' = "READ"
  /\ UNCHANGED <<fixed, args, code, files, retcode, handlers, owed>>

(* Mutant: inchar() does not set port_saw_EOF. *)
SawEofNever == UNCHANGED load_stack

(* inchar() at the end of the file that is loaded. *)
SawEof == load_stack' = [load_stack EXCEPT ![file_i].eof = TRUE]

(* OP_READ_INTERNAL up to the return of what it read: an expression, or    *)
(* the end of the file, maybe in the middle of a list.                     *)
Read ==
  /\ op = "READ"
  /\ LET f == load_stack[file_i] IN
     \/ /\ f.pos > Len(contents[f.file])
        /\ SawEof /\ code' = Nothing
        /\ UNCHANGED <<nesting_stack, owed>>
     \/ /\ f.pos <= Len(contents[f.file])
        /\ contents[f.file][f.pos].op # "open"
        /\ code' = contents[f.file][f.pos]
        /\ load_stack' = [load_stack EXCEPT ![file_i].pos = @ + 1]
        /\ UNCHANGED <<nesting_stack, owed>>
     \/ /\ f.pos <= Len(contents[f.file])
        /\ contents[f.file][f.pos].op = "open"
        /\ nesting_stack' = [nesting_stack EXCEPT ![file_i] = @ + 1]
        /\ SawEof /\ code' = Nothing
        /\ owed' = file_i
  /\ Return(dump)
  /\ UNCHANGED <<fixed, file_i, nesting, input, retcode, handlers>>

(* OP_T1LVL: what was read is evaluated, with the port from before. *)
TopLevel1 ==
  /\ op = "T1LVL"
  /\ inport' = save_inport /\ op' = "EVAL"
  /\ UNCHANGED <<fixed, args, code, dump, files, nesting, save_inport, retcode, handlers, owed>>

EvalValue ==
  /\ op = "EVAL" /\ code.op = "value"
  /\ Return(dump)
  /\ UNCHANGED <<fixed, code, files, nesting, input, retcode, handlers, owed>>

(* An error, such as a call of a continuation that was never kept. *)
EvalError ==
  /\ op = "EVAL" /\ \/ code.op = "error"
                    \/ code.op = "jump" /\ kept = {}
  /\ Fail(<<Frame("REST", "none")>> \o dump)
  /\ UNCHANGED <<fixed, code, files, nesting, input, owed>>

(* Mutant: OP_READ leaves the port it read from in place. *)
ReadFrameDropped == Frame("REST", "none")

(* OP_READ from a port other than the current one: OP_SET_INPORT is to     *)
(* bring the current one back.                                             *)
ReadFrame == Frame("SET_INPORT", inport)

EvalRead ==
  /\ op = "EVAL" /\ code.op \in {"read", "readbad"}
  /\ inport' = "string"
  /\ LET d == <<ReadFrame>> \o dump
     IN  \/ code.op = "read" /\ Return(d) /\ UNCHANGED <<retcode, handlers>>
         \/ code.op = "readbad" /\ Fail(d)
  /\ UNCHANGED <<fixed, code, files, nesting, save_inport, owed>>

(* OP_SET_INPORT, with what it finds at the head of opexe_5. *)
SetInport ==
  /\ op = "SET_INPORT"
  /\ \/ /\ Unmatched(dump) /\ UNCHANGED inport
     \/ /\ nesting = 0 /\ inport' = args /\ Return(dump)
        /\ UNCHANGED <<nesting, retcode, handlers, owed>>
  /\ UNCHANGED <<fixed, code, files, save_inport>>

(* Mutant: the body of load leaves no frame for what follows it. *)
LoadFramesNone(f) == <<>>

LoadFrames(f) == <<Frame("REST", f)>>

EvalLoad ==
  /\ op = "EVAL" /\ code.op = "load"
  /\ Load(code.file, LoadFrames(code.file) \o dump)
  /\ UNCHANGED <<fixed, code, nesting, input, owed>>

(* catch: the current continuation is pushed on *handlers*, and the body   *)
(* is followed by (pop-handler).  A failure of load goes to that handler.  *)
EvalCatch ==
  /\ op = "EVAL" /\ code.op = "catch"
  /\ \/ /\ CanPush(code.file)
        /\ file_push(code.file)
        /\ handlers' = <<dump>> \o handlers
        /\ op' = "T0LVL" /\ dump' = <<Frame("UNCATCH", code.file)>> \o dump
        /\ UNCHANGED args
     \/ /\ ~CanPush(code.file)
        /\ Return(dump)
        /\ UNCHANGED <<files, handlers>>
  /\ UNCHANGED <<fixed, code, nesting, input, retcode, owed>>

(* call/cc: a continuation is the stack, and nothing else.  Neither        *)
(* *handlers* nor the load stack are part of it.                           *)
EvalKeep ==
  /\ op = "EVAL" /\ code.op = "keep"
  /\ kept' = kept \cup {dump}
  /\ Return(dump)
  /\ UNCHANGED <<contents, session, interactive_repl, skipped, code, files, nesting,
                 input, retcode, handlers, owed>>

(* Going on with the stack k where the stack is d leaves no catch, and     *)
(* comes back into none.                                                   *)
Catches(d) == {i \in DOMAIN d : d[i].op = "UNCATCH"}
SameCatches(d, k) ==
  \/ Catches(d) = {} /\ Catches(k) = {}
  \/ \E n \in 0..Len(d) :
       k = SubSeq(d, n + 1, Len(d)) /\ \A i \in Catches(d) : i > n

(* OP_APPLY of a continuation: the stack is replaced.  What waits on the   *)
(* stack that is left is not called any more, (pop-handler) included.      *)
Jump ==
  /\ op = "EVAL" /\ code.op = "jump"
  /\ \E k \in kept :
       Return(k) /\ skipped' = (skipped \/ ~SameCatches(dump, k))
  /\ UNCHANGED <<contents, session, interactive_repl, kept, code, files, nesting,
                 input, retcode, handlers, owed>>

(* catch, with a body that a continuation leaves at once: the handler has  *)
(* been pushed.                                                            *)
EvalEscape ==
  /\ op = "EVAL" /\ code.op = "escape"
  /\ handlers' = <<dump>> \o handlers
  /\ \E k \in kept \cup {dump} : Return(k)
  /\ skipped' = TRUE
  /\ UNCHANGED <<contents, session, interactive_repl, kept, code, files, nesting,
                 input, retcode, owed>>

(* The rest of an expression, which reads or prints something or not. *)
Rest ==
  /\ op = "REST"
  /\ \/ Unmatched(dump)
     \/ Return(dump) /\ UNCHANGED <<nesting, retcode, handlers, owed>>
  /\ UNCHANGED <<fixed, code, files, input>>

(* Mutant: catch does not pop its handler when its body is done. *)
UncatchKeeps ==
  /\ op = "UNCATCH"
  /\ Return(dump)
  /\ UNCHANGED <<fixed, code, files, nesting, input, retcode, handlers, owed>>

(* pop-handler; with no handler left, its car is an error.          *)
Uncatch ==
  /\ op = "UNCATCH"
  /\ \/ /\ handlers # <<>>
        /\ handlers' = Tail(handlers)
        /\ Return(dump) /\ UNCHANGED retcode
     \/ handlers = <<>> /\ Fail(dump)
  /\ UNCHANGED <<fixed, code, files, nesting, input, owed>>

(* OP_VALUEPRINT: P0LIST, one of the opcodes of opexe_5, prints the value  *)
(* for the user.                                                           *)
ValuePrint ==
  /\ op = "VALUEPRINT"
  /\ \/ file_interactive /\ Unmatched(dump)
     \/ /\ ~file_interactive \/ nesting = 0
        /\ Return(dump) /\ UNCHANGED <<nesting, retcode, handlers, owed>>
  /\ UNCHANGED <<fixed, code, files, input>>

Next ==
  \/ StartFile
  \/ EndOfFile \/ TopLevel \/ Read \/ TopLevel1
  \/ EvalValue \/ EvalError \/ EvalRead \/ EvalLoad \/ EvalCatch
  \/ EvalKeep \/ Jump \/ EvalEscape
  \/ SetInport \/ Rest \/ Uncatch \/ ValuePrint

Spec == Init /\ [][Next]_vars
FairSpec == Spec /\ WF_vars(Next)
-----------------------------------------------------------------------------
(* Properties                                                              *)

(* Types; the load stack never holds more than MAXFIL files, however files *)
(* load each other (file_push).                                            *)
TypeOK ==
  /\ contents \in [Names \cup {Stdin} -> Seq(Items)]
  /\ session \in Seq(Names \cup {Stdin})
  /\ op \in {"main", "READ", "EVAL"} \cup {f.op : f \in Frames}
  /\ args \in {f.arg : f \in Frames} /\ code \in Items
  /\ op = "SET_INPORT" => args \in {"load", "string"}
  /\ dump \in Seq(Frames)
  /\ file_i \in 0..(MAXFIL - 1)
  /\ load_stack \in [0..(MAXFIL - 1) -> [file : Names \cup {Stdin},
                                         pos : Nat \ {0}, eof : BOOLEAN]]
  /\ nesting \in Nat /\ nesting_stack \in [0..(MAXFIL - 1) -> Nat]
  /\ {inport, save_inport} \subseteq {"load", "string"}
  /\ retcode \in {0, -1} /\ interactive_repl \in BOOLEAN
  /\ handlers \in Seq(Seq(Frames)) /\ kept \subseteq Seq(Frames)
  /\ owed \in -1..(MAXFIL - 1) /\ skipped \in BOOLEAN

(* What follows does not hold of every program (see the README).  As long  *)
(* as there is no user, it does if no file catches or keeps a              *)
(* continuation; then, if no file fails -- what they load exists, is read  *)
(* with room left on the load stack and leaves no list open -- and nothing *)
(* typed fails within a read from a string or keeps a continuation.        *)
Does(n, ops) == \E k \in DOMAIN contents[n] : contents[n][k].op \in ops
Orderly ==
  IF ~interactive_repl
  THEN \A n \in Names : ~Does(n, {"catch", "keep", "escape"})
  ELSE /\ MAXFIL > 2
       /\ \A n \in Names :
            /\ ~Does(n, {"catch", "error", "readbad", "keep", "jump", "escape"})
            /\ \A k \in DOMAIN contents[n] :
                 contents[n][k].op = "load" =>
                   /\ contents[n][k].file \in Names
                   /\ ~Does(contents[n][k].file, {"load", "open"})
       /\ ~Does(Stdin, {"readbad", "keep", "escape"})

(* When a file has been read to its end, what goes on is the expression    *)
(* that loaded this very file, OP_T0LVL having pushed and popped its own   *)
(* frames in pairs: not another load, nor an expression given up before.   *)
LoadReturns ==
  op = "T0LVL" /\ file_i > 0 /\ load_stack[file_i].eof =>
    /\ dump # <<>>
    /\ Head(dump).op \in {"REST", "UNCATCH"}
    /\ Head(dump).arg = load_stack[file_i].file

(* The file that main() is at is left only at its end; a file that is not  *)
(* standard input may also be left after a failure, which main() then      *)
(* reports since retcode is set.                                           *)
ReadToTheEnd ==
  op = "main" => load_stack[0].eof \/ (~interactive_repl /\ retcode # 0)

(* When the next expression is due, the current input port is again the    *)
(* one that the program is read from, whatever was read in between.        *)
InputRestored == op = "T0LVL" => inport = "load"

(* A load takes the interpreter away and brings it back where it was: to   *)
(* the expression, to the port, and in the end to the file that loaded.    *)
LoadsComeBack == Orderly => LoadReturns /\ ReadToTheEnd /\ InputRestored

(* A list left open in a file that the user loads is reported before the   *)
(* next prompt: nesting goes from nesting_stack through file_pop to the    *)
(* head of opexe_5, and OP_T0LVL clears it only afterwards.                *)
UnmatchedReported ==
  Orderly /\ op = "T0LVL" /\ file_i = 0 /\ load_stack[0].file = Stdin =>
    owed # 1

(* At the prompt no catch is active any more.                              *)
NoneActive == op = "T0LVL" /\ file_interactive => handlers = <<>>

(* push-handler and pop-handler are called in pairs: on returns from a     *)
(* catch, on errors that it takes, and on jumps that stay within the same  *)
(* catches.  A program that leaves a catch, or comes back into one, by a   *)
(* continuation of its own goes around (pop-handler), and its handler may  *)
(* be at the prompt: that is the condition (see the README).               *)
CatchesLeft == ~skipped => NoneActive

(* Whatever was typed, the prompt comes with nothing left of it unsaid or  *)
(* undone: lists left open are reported, for Orderly programs, and catches *)
(* are over, unless the program has skipped one.                           *)
PromptClean == UnmatchedReported /\ CatchesLeft

(* The loop comes to the end of every session, with files that load each   *)
(* other or themselves, errors, and jumps out of loads and back into them. *)
Ends == <>(op = "main" /\ session = <<>>)
=============================================================================
