---------------------------- MODULE LoaderProofs ----------------------------
(* For any files, however they load each other, and any bound on the load  *)
(* stack: the variables of the loader keep their types (the load stack is  *)
(* never overrun), no catch that was not skipped is active at the prompt,  *)
(* loads come back to what loaded, and lists left open are reported before *)
(* the next prompt.                                                        *)
(*                                                                         *)
(* CatchInv holds until the program leaves a catch, or comes back into     *)
(* one, by a continuation that it kept: the handlers are stacks that were  *)
(* there when each was set, below their frames on the present stack, and   *)
(* each load above the outermost has its file.  OrderInv holds of programs *)
(* that are Orderly: the stack is what the open files account for.         *)
EXTENDS Loader, SequenceTheorems, TLAPS

(* What leaves of the proofs need to know of frames and expressions. *)
LEMMA FrameFacts ==
  /\ Frame("T0LVL", "none") \in Frames
  /\ Frame("T1LVL", "none") \in Frames
  /\ Frame("VALUEPRINT", "none") \in Frames
  /\ \A n \in Names \cup {Missing, "none"} :
       Frame("REST", n) \in Frames /\ Frame("UNCATCH", n) \in Frames
  /\ \A p \in {"load", "string"} : Frame("SET_INPORT", p) \in Frames
  /\ \A r \in Frames : r.op = "SET_INPORT" => r.arg \in {"load", "string"}
  BY DEF Frame, Frames

LEMMA ItemFacts ==
  /\ Nothing \in Items
  /\ \A i \in Items : i.file \in Names \cup {Missing}
  BY DEF Items, Nothing

Ops == {"main", "READ", "EVAL"} \cup {f.op : f \in Frames}
Args == {f.arg : f \in Frames}

LEMMA OpFacts == /\ \A o \in {"main", "READ", "EVAL", "T0LVL", "T1LVL", "VALUEPRINT", "REST",
                              "UNCATCH", "SET_INPORT"} : o \in Ops
                 /\ "none" \in Args
  <1>1. Frame("T0LVL", "none").op = "T0LVL" /\ Frame("T0LVL", "none").arg = "none"
        /\ Frame("T1LVL", "none").op = "T1LVL"
        /\ Frame("VALUEPRINT", "none").op = "VALUEPRINT"
        /\ Frame("REST", "none").op = "REST"
        /\ Frame("UNCATCH", "none").op = "UNCATCH"
        /\ Frame("SET_INPORT", "load").op = "SET_INPORT"
    BY DEF Frame
  <1> QED
    BY <1>1, FrameFacts DEF Ops, Args

(* Returning to a stack of frames. *)
LEMMA ReturnFacts ==
  ASSUME NEW d \in Seq(Frames), args \in Args, Return(d)
  PROVE  /\ op' \in Ops /\ args' \in Args /\ dump' \in Seq(Frames)
         /\ op' = "SET_INPORT" => args' \in {"load", "string"}
  <1>1. CASE d = <<>>
    BY <1>1, OpFacts DEF Return
  <1>2. CASE d # <<>>
    <2>1. Head(d) \in Frames /\ Tail(d) \in Seq(Frames)
      BY <1>2
    <2>2. op' = Head(d).op /\ args' = Head(d).arg /\ dump' = Tail(d)
      BY <1>2 DEF Return
    <2>3. Head(d).op \in Ops /\ Head(d).arg \in Args
      BY <2>1 DEF Ops, Args
    <2> QED
      BY <2>1, <2>2, <2>3, FrameFacts
  <1> QED
    BY <1>1, <1>2

LEMMA FailFacts ==
  ASSUME NEW d \in Seq(Frames), TypeOK, Fail(d)
  PROVE  /\ op' \in Ops /\ args' \in Args /\ dump' \in Seq(Frames)
         /\ op' = "SET_INPORT" => args' \in {"load", "string"}
         /\ retcode' \in {0, -1} /\ handlers' \in Seq(Seq(Frames))
  <1>0. args \in Args /\ handlers \in Seq(Seq(Frames)) /\ retcode \in {0, -1}
    BY DEF TypeOK, Args
  <1>1. CASE handlers # <<>>
    <2>1. Head(handlers) \in Seq(Frames) /\ Tail(handlers) \in Seq(Seq(Frames))
      BY <1>0, <1>1
    <2>2. Return(Head(handlers)) /\ handlers' = Tail(handlers) /\ retcode' = retcode
      BY <1>1 DEF Fail
    <2> QED
      BY <1>0, <2>1, <2>2, ReturnFacts
  <1>2. CASE handlers = <<>>
    BY <1>0, <1>2, OpFacts DEF Fail
  <1> QED
    BY <1>1, <1>2

LEMMA UnmatchedFacts ==
  ASSUME NEW d \in Seq(Frames), TypeOK, Unmatched(d)
  PROVE  /\ op' \in Ops /\ args' \in Args /\ dump' \in Seq(Frames)
         /\ op' = "SET_INPORT" => args' \in {"load", "string"}
         /\ retcode' \in {0, -1} /\ handlers' \in Seq(Seq(Frames))
         /\ nesting' = 0 /\ owed' = -1
  <1>0. args \in Args /\ handlers \in Seq(Seq(Frames))
    BY DEF TypeOK, Args
  <1>1. nesting' = 0 /\ owed' = -1 /\ retcode' = -1
    BY DEF Unmatched
  <1>2. CASE handlers # <<>>
    <2>1. Head(handlers) \in Seq(Frames) /\ Tail(handlers) \in Seq(Seq(Frames))
      BY <1>0, <1>2
    <2>2. Return(Head(handlers)) /\ handlers' = Tail(handlers)
      BY <1>2 DEF Unmatched
    <2> QED
      BY <1>0, <1>1, <2>1, <2>2, ReturnFacts
  <1>3. CASE handlers = <<>>
    BY <1>0, <1>1, <1>3, OpFacts DEF Unmatched
  <1> QED
    BY <1>2, <1>3
-----------------------------------------------------------------------------
(* The types in the parts that steps change together. *)
OpenFile == [file : Names \cup {Stdin}, pos : Nat \ {0}, eof : BOOLEAN]

FilesOK ==
  /\ file_i \in 0..(MAXFIL - 1)
  /\ load_stack \in [0..(MAXFIL - 1) -> OpenFile]
  /\ nesting_stack \in [0..(MAXFIL - 1) -> Nat]
FlowOK ==
  /\ op \in Ops /\ args \in Args /\ dump \in Seq(Frames)
  /\ op = "SET_INPORT" => args \in {"load", "string"}
  /\ retcode \in {0, -1} /\ handlers \in Seq(Seq(Frames))
ReadOK ==
  /\ contents \in [Names \cup {Stdin} -> Seq(Items)]
  /\ session \in Seq(Names \cup {Stdin})
  /\ interactive_repl \in BOOLEAN
  /\ kept \subseteq Seq(Frames) /\ skipped \in BOOLEAN
RestOK ==
  /\ code \in Items /\ nesting \in Nat /\ owed \in -1..(MAXFIL - 1)
  /\ inport \in {"load", "string"} /\ save_inport \in {"load", "string"}

LEMMA Parts == TypeOK <=> FilesOK /\ FlowOK /\ ReadOK /\ RestOK
  BY DEF TypeOK, FilesOK, FlowOK, ReadOK, RestOK, OpenFile, Ops, Args

LEMMA PartsNext == TypeOK' <=> FilesOK' /\ FlowOK' /\ ReadOK' /\ RestOK'
  BY DEF TypeOK, FilesOK, FlowOK, ReadOK, RestOK, OpenFile, Ops, Args

LEMMA OpenFileFacts ==
  /\ \A n \in Names \cup {Stdin} : Opened(n) \in OpenFile
  /\ \A r \in OpenFile : [r EXCEPT !.eof = TRUE] \in OpenFile
  /\ \A r \in OpenFile : [r EXCEPT !.pos = @ + 1] \in OpenFile
  <1>1. \A n \in Names \cup {Stdin} : Opened(n) \in OpenFile
    BY DEF OpenFile, Opened
  <1>2. \A r \in OpenFile : [r EXCEPT !.eof = TRUE] \in OpenFile
    BY DEF OpenFile
  <1>3. \A r \in OpenFile : [r EXCEPT !.pos = @ + 1] \in OpenFile
    BY DEF OpenFile
  <1> QED
    BY <1>1, <1>2, <1>3

(* A file pushed on a stack with room for it. *)
LEMMA PushFacts ==
  ASSUME NEW n \in Names, FilesOK, file_i < MAXFIL - 1, file_push(n)
  PROVE  FilesOK'
  <1>1. file_i + 1 \in 0..(MAXFIL - 1)
    BY LoaderAssumption DEF FilesOK
  <1>2. Opened(n) \in OpenFile
    BY DEF Opened, OpenFile
  <1>3. DOMAIN load_stack \cup {file_i + 1} = 0..(MAXFIL - 1)
        /\ DOMAIN nesting_stack \cup {file_i + 1} = 0..(MAXFIL - 1)
    BY <1>1 DEF FilesOK
  <1> QED
    BY <1>1, <1>2, <1>3 DEF FilesOK, file_push

LEMMA InitTyped == Init => TypeOK
  <1> SUFFICES ASSUME Init PROVE TypeOK
    OBVIOUS
  <1>1. 0 \in 0..(MAXFIL - 1) /\ -1 \in -1..(MAXFIL - 1)
    BY LoaderAssumption
  <1>2. [Opened(Stdin) EXCEPT !.eof = TRUE] \in OpenFile
    BY OpenFileFacts
  <1>6. FilesOK
    BY <1>1, <1>2 DEF Init, FilesOK
  <1>3. FlowOK
    BY OpFacts DEF Init, FlowOK
  <1>4. ReadOK
    BY LoaderAssumption DEF Init, ReadOK
  <1>5. RestOK
    BY <1>1, ItemFacts DEF Init, RestOK
  <1> QED
    BY <1>6, <1>3, <1>4, <1>5, Parts

LEMMA StartFileTyped == ASSUME TypeOK, StartFile PROVE TypeOK'
  <1> USE DEF StartFile, own
  <1>1. Head(session) \in Names \cup {Stdin} /\ Tail(session) \in Seq(Names \cup {Stdin})
    BY Parts DEF ReadOK
  <1>2. 0 \in 0..(MAXFIL - 1) /\ -1 \in -1..(MAXFIL - 1)
    BY LoaderAssumption
  <1>3. FilesOK'
    BY <1>1, <1>2, Parts DEF FilesOK, OpenFile, Opened
  <1>4. FlowOK'
    BY OpFacts, Parts DEF FlowOK
  <1>5. ReadOK'
    BY <1>1, Parts DEF ReadOK
  <1>6. RestOK'
    BY <1>2, Parts DEF RestOK
  <1> QED
    BY <1>3, <1>4, <1>5, <1>6, PartsNext

LEMMA EndOfFileTyped == ASSUME TypeOK, EndOfFile PROVE TypeOK'
  <1>1. ReadOK'
    BY Parts DEF ReadOK, EndOfFile, fixed, own
  <1>2. CASE file_i = 0 /\ op' = "main" /\ UNCHANGED <<args, dump, files, nesting>>
    <2>1. FilesOK' /\ RestOK'
      BY <1>2, Parts DEF EndOfFile, FilesOK, RestOK, files, input
    <2>2. FlowOK'
      BY <1>2, Parts, OpFacts DEF EndOfFile, FlowOK
    <2> QED
      BY <1>1, <2>1, <2>2, PartsNext
  <1>3. CASE file_i > 0 /\ file_pop /\ Return(dump)
    <2>1. FilesOK'
      BY <1>3, Parts, LoaderAssumption DEF FilesOK, file_pop
    <2>2. FlowOK'
      BY <1>3, Parts, ReturnFacts DEF FlowOK, EndOfFile
    <2>3. RestOK'
      BY <1>3, Parts DEF RestOK, FilesOK, EndOfFile, file_pop, input
    <2> QED
      BY <1>1, <2>1, <2>2, <2>3, PartsNext
  <1> QED
    BY <1>2, <1>3 DEF EndOfFile

LEMMA TopLevelTyped == ASSUME TypeOK, TopLevel PROVE TypeOK'
  <1>1. PromptStack \in Seq(Frames)
    BY Parts DEF FlowOK, PromptStack
  <1>2. dump' \in Seq(Frames)
    BY <1>1, FrameFacts DEF TopLevel
  <1> QED
    BY <1>2, Parts, PartsNext, OpFacts
    DEF TopLevel, FilesOK, FlowOK, ReadOK, RestOK, files, fixed, own

LEMMA ReadTyped == ASSUME TypeOK, Read PROVE TypeOK'
  <1> DEFINE l == load_stack[file_i]
             c == contents[l.file]
  <1>1. l \in OpenFile /\ c \in Seq(Items) /\ file_i \in 0..(MAXFIL - 1)
    BY Parts DEF FilesOK, ReadOK, OpenFile
  <1>2. FlowOK'
    <2>1. Return(dump) /\ retcode' = retcode /\ handlers' = handlers
      BY DEF Read
    <2> QED
      BY <2>1, Parts, ReturnFacts DEF FlowOK
  <1>3. ReadOK'
    BY Parts DEF ReadOK, Read, fixed, own
  <1>4. [l EXCEPT !.eof = TRUE] \in OpenFile /\ [l EXCEPT !.pos = @ + 1] \in OpenFile
    BY <1>1, OpenFileFacts
  <1>5. CASE l.pos > Len(c) /\ SawEof /\ code' = Nothing /\ UNCHANGED <<nesting_stack, owed>>
    <2>1. FilesOK'
      BY <1>1, <1>4, <1>5, Parts DEF FilesOK, SawEof, Read
    <2>2. RestOK'
      BY <1>5, ItemFacts, Parts DEF RestOK, Read, input
    <2> QED
      BY <1>2, <1>3, <2>1, <2>2, PartsNext
  <1>6. CASE /\ l.pos <= Len(c)
             /\ code' = c[l.pos]
             /\ load_stack' = [load_stack EXCEPT ![file_i].pos = @ + 1]
             /\ UNCHANGED <<nesting_stack, owed>>
    <2>1. FilesOK'
      BY <1>1, <1>4, <1>6, Parts DEF FilesOK, Read
    <2>2. c[l.pos] \in Items
      BY <1>1, <1>6 DEF OpenFile
    <2>3. RestOK'
      BY <1>6, <2>2, Parts DEF RestOK, Read, input
    <2> QED
      BY <1>2, <1>3, <2>1, <2>3, PartsNext
  <1>7. CASE /\ nesting_stack' = [nesting_stack EXCEPT ![file_i] = @ + 1]
             /\ SawEof /\ code' = Nothing
             /\ owed' = file_i
    <2>1. FilesOK'
      BY <1>1, <1>4, <1>7, Parts DEF FilesOK, SawEof, Read
    <2>2. RestOK'
      BY <1>1, <1>7, ItemFacts, Parts DEF RestOK, Read, input
    <2> QED
      BY <1>2, <1>3, <2>1, <2>2, PartsNext
  <1> QED
    BY <1>5, <1>6, <1>7 DEF Read

LEMMA TopLevel1Typed == ASSUME TypeOK, TopLevel1 PROVE TypeOK'
  BY Parts, PartsNext, OpFacts
  DEF TopLevel1, FilesOK, FlowOK, ReadOK, RestOK, files, fixed, own

(* Steps that leave the files alone need only be looked at for the rest. *)
LEMMA SameFiles ==
  ASSUME TypeOK, UNCHANGED files, UNCHANGED fixed, FlowOK', RestOK'
  PROVE  TypeOK'
  BY Parts, PartsNext DEF FilesOK, ReadOK, files, fixed, own

LEMMA EvalValueTyped == ASSUME TypeOK, EvalValue PROVE TypeOK'
  <1>1. FlowOK'
    <2>1. Return(dump) /\ retcode' = retcode /\ handlers' = handlers
      BY DEF EvalValue
    <2> QED
      BY <2>1, Parts, ReturnFacts DEF FlowOK
  <1>2. RestOK'
    BY Parts DEF RestOK, EvalValue, input
  <1> QED
    BY <1>1, <1>2, SameFiles DEF EvalValue

LEMMA EvalErrorTyped == ASSUME TypeOK, EvalError PROVE TypeOK'
  <1>1. <<Frame("REST", "none")>> \o dump \in Seq(Frames)
    BY Parts, FrameFacts DEF FlowOK
  <1>2. FlowOK'
    BY <1>1, FailFacts DEF EvalError, FlowOK
  <1>3. RestOK'
    BY Parts DEF RestOK, EvalError, input
  <1> QED
    BY <1>2, <1>3, SameFiles DEF EvalError

LEMMA EvalReadTyped == ASSUME TypeOK, EvalRead PROVE TypeOK'
  <1> DEFINE d == <<ReadFrame>> \o dump
  <1>1. d \in Seq(Frames)
    BY Parts, FrameFacts DEF FlowOK, RestOK, ReadFrame
  <1>2. FlowOK'
    <2>1. CASE Return(d) /\ UNCHANGED <<retcode, handlers>>
      BY <1>1, <2>1, Parts, ReturnFacts DEF FlowOK
    <2>2. CASE Fail(d)
      BY <1>1, <2>2, FailFacts DEF FlowOK
    <2> QED
      BY <2>1, <2>2 DEF EvalRead
  <1>3. RestOK'
    BY Parts DEF RestOK, EvalRead
  <1> QED
    BY <1>2, <1>3, SameFiles DEF EvalRead

(* Unmatched parentheses, or s_return. *)
LEMMA CheckedReturn ==
  ASSUME TypeOK,
         \/ Unmatched(dump)
         \/ Return(dump) /\ UNCHANGED <<nesting, retcode, handlers, owed>>
  PROVE  FlowOK' /\ nesting' \in Nat /\ owed' \in -1..(MAXFIL - 1)
  <1>1. -1 \in -1..(MAXFIL - 1)
    BY LoaderAssumption
  <1>2. CASE Unmatched(dump)
    <2>1. dump \in Seq(Frames)
      BY Parts DEF FlowOK
    <2> QED
      BY <1>1, <1>2, <2>1, UnmatchedFacts DEF FlowOK
  <1>3. CASE Return(dump) /\ UNCHANGED <<nesting, retcode, handlers, owed>>
    BY <1>3, Parts, ReturnFacts DEF FlowOK, RestOK
  <1> QED
    BY <1>2, <1>3

LEMMA SetInportTyped == ASSUME TypeOK, SetInport PROVE TypeOK'
  <1>1. FlowOK' /\ nesting' \in Nat /\ owed' \in -1..(MAXFIL - 1)
    BY CheckedReturn DEF SetInport
  <1>2. inport' \in {"load", "string"}
    BY Parts DEF SetInport, FlowOK, RestOK
  <1>3. RestOK'
    BY <1>1, <1>2, Parts DEF SetInport, RestOK
  <1> QED
    BY <1>1, <1>3, SameFiles DEF SetInport

LEMMA LoadFacts ==
  ASSUME TypeOK, NEW n \in Names \cup {Missing}, NEW d \in Seq(Frames), Load(n, d)
  PROVE  FilesOK' /\ FlowOK'
  <1>1. CASE CanPush(n) /\ file_push(n) /\ op' = "T0LVL" /\ dump' = d
             /\ UNCHANGED <<args, retcode, handlers>>
    <2>1. FilesOK'
      BY <1>1, Parts, PushFacts DEF CanPush
    <2>2. FlowOK'
      BY <1>1, Parts, OpFacts DEF FlowOK
    <2> QED
      BY <2>1, <2>2
  <1>2. CASE Fail(d) /\ UNCHANGED files
    BY <1>2, Parts, FailFacts DEF FilesOK, FlowOK, files
  <1> QED
    BY <1>1, <1>2 DEF Load

LEMMA EvalLoadTyped == ASSUME TypeOK, EvalLoad PROVE TypeOK'
  <1>1. code.file \in Names \cup {Missing}
    BY Parts, ItemFacts DEF RestOK
  <1>2. LoadFrames(code.file) \o dump \in Seq(Frames)
    BY <1>1, Parts, FrameFacts DEF FlowOK, LoadFrames
  <1>3. FilesOK' /\ FlowOK'
    BY <1>1, <1>2, LoadFacts DEF EvalLoad
  <1>4. ReadOK' /\ RestOK'
    BY Parts DEF EvalLoad, ReadOK, RestOK, fixed, own, input
  <1> QED
    BY <1>3, <1>4, PartsNext

LEMMA EvalCatchTyped == ASSUME TypeOK, EvalCatch PROVE TypeOK'
  <1>1. code.file \in Names \cup {Missing} /\ dump \in Seq(Frames)
    BY Parts, ItemFacts DEF RestOK, FlowOK
  <1>2. ReadOK' /\ RestOK'
    BY Parts DEF EvalCatch, ReadOK, RestOK, fixed, own, input
  <1>3. CASE /\ CanPush(code.file)
             /\ file_push(code.file)
             /\ handlers' = <<dump>> \o handlers
             /\ op' = "T0LVL" /\ dump' = <<Frame("UNCATCH", code.file)>> \o dump
             /\ UNCHANGED args
    <2>1. FilesOK'
      BY <1>1, <1>3, Parts, PushFacts DEF CanPush
    <2>2. dump' \in Seq(Frames) /\ handlers' \in Seq(Seq(Frames))
      BY <1>1, <1>3, Parts, FrameFacts DEF FlowOK
    <2>3. FlowOK'
      BY <1>3, <2>2, Parts, OpFacts DEF FlowOK, EvalCatch
    <2> QED
      BY <1>2, <2>1, <2>3, PartsNext
  <1>4. CASE Return(dump) /\ UNCHANGED <<files, handlers>>
    <2>1. FlowOK'
      BY <1>4, Parts, ReturnFacts DEF FlowOK, EvalCatch
    <2>2. FilesOK'
      BY <1>4, Parts DEF FilesOK, files
    <2> QED
      BY <1>2, <2>1, <2>2, PartsNext
  <1> QED
    BY <1>3, <1>4 DEF EvalCatch

(* Keeping a continuation, and calling one. *)
LEMMA OwnTyped ==
  ASSUME TypeOK, NEW d \in Seq(Frames), Return(d), UNCHANGED files,
         UNCHANGED <<contents, session, interactive_repl, code, nesting, input, retcode, owed>>,
         handlers' \in Seq(Seq(Frames)), kept' \subseteq Seq(Frames), skipped' \in BOOLEAN
  PROVE  TypeOK'
  <1>1. FlowOK'
    BY Parts, ReturnFacts DEF FlowOK
  <1>2. FilesOK' /\ ReadOK' /\ RestOK'
    BY Parts DEF FilesOK, ReadOK, RestOK, files, input
  <1> QED
    BY <1>1, <1>2, PartsNext

LEMMA EvalKeepTyped == ASSUME TypeOK, EvalKeep PROVE TypeOK'
  <1>1. dump \in Seq(Frames) /\ handlers \in Seq(Seq(Frames))
        /\ kept \subseteq Seq(Frames) /\ skipped \in BOOLEAN
    BY Parts DEF FlowOK, ReadOK
  <1> QED
    BY <1>1, OwnTyped DEF EvalKeep

LEMMA JumpTyped == ASSUME TypeOK, Jump PROVE TypeOK'
  <1>1. handlers \in Seq(Seq(Frames)) /\ kept \subseteq Seq(Frames) /\ skipped \in BOOLEAN
    BY Parts DEF FlowOK, ReadOK
  <1>2. PICK k \in kept : Return(k) /\ skipped' = (skipped \/ ~SameCatches(dump, k))
    BY DEF Jump
  <1> QED
    BY <1>1, <1>2, OwnTyped DEF Jump

LEMMA EvalEscapeTyped == ASSUME TypeOK, EvalEscape PROVE TypeOK'
  <1>1. dump \in Seq(Frames) /\ handlers \in Seq(Seq(Frames)) /\ kept \subseteq Seq(Frames)
    BY Parts DEF FlowOK, ReadOK
  <1>2. <<dump>> \o handlers \in Seq(Seq(Frames))
    BY <1>1
  <1>3. PICK k \in kept \cup {dump} : Return(k)
    BY DEF EvalEscape
  <1> QED
    BY <1>1, <1>2, <1>3, OwnTyped DEF EvalEscape

LEMMA RestTyped == ASSUME TypeOK, Rest PROVE TypeOK'
  <1>1. FlowOK' /\ nesting' \in Nat /\ owed' \in -1..(MAXFIL - 1)
    BY CheckedReturn DEF Rest
  <1>2. RestOK'
    BY <1>1, Parts DEF Rest, RestOK, input
  <1> QED
    BY <1>1, <1>2, SameFiles DEF Rest

LEMMA UncatchTyped == ASSUME TypeOK, Uncatch PROVE TypeOK'
  <1>1. dump \in Seq(Frames) /\ handlers \in Seq(Seq(Frames))
    BY Parts DEF FlowOK
  <1>2. FlowOK'
    <2>1. CASE handlers # <<>> /\ handlers' = Tail(handlers) /\ Return(dump)
               /\ UNCHANGED retcode
      <3>1. handlers' \in Seq(Seq(Frames))
        BY <1>1, <2>1
      <3> QED
        BY <1>1, <2>1, <3>1, Parts, ReturnFacts DEF FlowOK
    <2>2. CASE Fail(dump)
      BY <1>1, <2>2, FailFacts DEF FlowOK
    <2> QED
      BY <2>1, <2>2 DEF Uncatch
  <1>3. RestOK'
    BY Parts DEF Uncatch, RestOK, input
  <1> QED
    BY <1>2, <1>3, SameFiles DEF Uncatch

LEMMA ValuePrintTyped == ASSUME TypeOK, ValuePrint PROVE TypeOK'
  <1>1. FlowOK' /\ nesting' \in Nat /\ owed' \in -1..(MAXFIL - 1)
    BY CheckedReturn DEF ValuePrint
  <1>2. RestOK'
    BY <1>1, Parts DEF ValuePrint, RestOK, input
  <1> QED
    BY <1>1, <1>2, SameFiles DEF ValuePrint

LEMMA StutterTyped == ASSUME TypeOK, UNCHANGED vars PROVE TypeOK'
  BY Parts, PartsNext DEF FilesOK, FlowOK, ReadOK, RestOK, vars

(* Every variable keeps its type for any set of files and any contents; in *)
(* particular file_i never leaves load_stack (file_push, file_pop), and    *)
(* OP_SET_INPORT always finds a port in its frame.                         *)
THEOREM TypeCorrect == Spec => []TypeOK
  <1>1. TypeOK /\ [Next]_vars => TypeOK'
    BY StartFileTyped, EndOfFileTyped, TopLevelTyped, ReadTyped, TopLevel1Typed,
       EvalValueTyped, EvalErrorTyped, EvalReadTyped, EvalLoadTyped, EvalCatchTyped,
       EvalKeepTyped, JumpTyped, EvalEscapeTyped,
       SetInportTyped, RestTyped, UncatchTyped, ValuePrintTyped, StutterTyped
    DEF Next
  <1> QED
    BY InitTyped, <1>1, PTL DEF Spec
-----------------------------------------------------------------------------
(* The q-th frame from the bottom of a stack, and where its UNCATCHes are. *)
Bottom(d, q) == d[Len(d) - q + 1]
Uncatches(d) == {q \in 1..Len(d) : Bottom(d, q).op = "UNCATCH"}

LEMMA Pushed ==
  ASSUME NEW d \in Seq(Frames), NEW f \in Frames
  PROVE  LET e == <<f>> \o d
         IN  /\ e \in Seq(Frames) /\ Len(e) = Len(d) + 1 /\ e # <<>>
             /\ Head(e) = f /\ Tail(e) = d
             /\ Bottom(e, Len(d) + 1) = f
             /\ \A q \in 1..Len(d) : Bottom(e, q) = Bottom(d, q)
  <1> DEFINE e == <<f>> \o d
  <1>1. e \in Seq(Frames) /\ Len(e) = Len(d) + 1 /\ e # <<>>
    OBVIOUS
  <1>2. e[1] = f /\ \A k \in 1..Len(d) : e[k + 1] = d[k]
    OBVIOUS
  <1>3. Head(e) = f /\ Tail(e) = d
    <2>1. Len(Tail(e)) = Len(d) /\ Tail(e) \in Seq(Frames)
      BY <1>1
    <2>2. \A k \in 1..Len(d) : Tail(e)[k] = d[k]
      BY <1>1, <1>2
    <2> QED
      BY <1>1, <1>2, <2>1, <2>2
  <1>4. \A q \in 1..Len(d) : Bottom(e, q) = Bottom(d, q)
    BY <1>1, <1>2 DEF Bottom
  <1>5. Bottom(e, Len(d) + 1) = f
    <2>1. Len(d) \in Nat /\ Len(e) - (Len(d) + 1) + 1 = 1
      BY <1>1
    <2> QED
      BY <1>2, <2>1 DEF Bottom
  <1> QED
    BY <1>1, <1>3, <1>4, <1>5

LEMMA Popped ==
  ASSUME NEW d \in Seq(Frames), d # <<>>
  PROVE  /\ Tail(d) \in Seq(Frames) /\ Len(Tail(d)) = Len(d) - 1
         /\ Len(d) \in Nat \ {0}
         /\ Head(d) \in Frames /\ Bottom(d, Len(d)) = Head(d)
         /\ \A q \in 1..(Len(d) - 1) : Bottom(Tail(d), q) = Bottom(d, q)
  <1>1. /\ Tail(d) \in Seq(Frames) /\ Len(Tail(d)) = Len(d) - 1
        /\ Len(d) \in Nat \ {0} /\ Head(d) = d[1] /\ Head(d) \in Frames
    OBVIOUS
  <1>2. \A k \in 1..(Len(d) - 1) : Tail(d)[k] = d[k + 1]
    BY <1>1
  <1> QED
    BY <1>1, <1>2 DEF Bottom

LEMMA UncatchesPushed ==
  ASSUME NEW d \in Seq(Frames), NEW f \in Frames
  PROVE  Uncatches(<<f>> \o d) = Uncatches(d) \cup (IF f.op = "UNCATCH" THEN {Len(d) + 1} ELSE {})
  <1> DEFINE e == <<f>> \o d
  <1>0. /\ Len(e) = Len(d) + 1
        /\ Bottom(e, Len(d) + 1) = f
        /\ \A q \in 1..Len(d) : Bottom(e, q) = Bottom(d, q)
    BY Pushed
  <1>1. Len(d) \in Nat
    OBVIOUS
  <1> HIDE DEF e
  <1>2. \A q : q \in 1..Len(e) <=> q \in 1..Len(d) \/ q = Len(d) + 1
    BY <1>0, <1>1
  <1>3. ~(Len(d) + 1 \in 1..Len(d))
    BY <1>1
  <1>4. Uncatches(e) = Uncatches(d) \cup (IF f.op = "UNCATCH" THEN {Len(d) + 1} ELSE {})
    BY <1>0, <1>2, <1>3 DEF Uncatches
  <1> QED
    BY <1>4 DEF e

LEMMA UncatchesPopped ==
  ASSUME NEW d \in Seq(Frames), d # <<>>
  PROVE  Uncatches(Tail(d)) = Uncatches(d) \ {Len(d)}
         /\ (Len(d) \in Uncatches(d) <=> Head(d).op = "UNCATCH")
  <1>1. /\ Tail(d) \in Seq(Frames) /\ Len(Tail(d)) = Len(d) - 1
        /\ Len(d) \in Nat \ {0}
        /\ Head(d) \in Frames /\ Bottom(d, Len(d)) = Head(d)
        /\ \A q \in 1..(Len(d) - 1) : Bottom(Tail(d), q) = Bottom(d, q)
    BY Popped
  <1>2. \A q : q \in 1..Len(Tail(d)) <=> q \in 1..Len(d) /\ q # Len(d)
    BY <1>1
  <1> QED
    BY <1>1, <1>2 DEF Uncatches

(* A stack above b frames: OP_T0LVL below, OP_VALUEPRINT, and what waits   *)
(* for the end of a load, over and over.                                   *)
Piled(d, b) ==
  \A k \in Nat :
    /\ b + 3 * k + 1 <= Len(d) => Bottom(d, b + 3 * k + 1).op = "T0LVL"
    /\ b + 3 * k + 2 <= Len(d) => Bottom(d, b + 3 * k + 2).op = "VALUEPRINT"
    /\ b + 3 * k + 3 <= Len(d) => Bottom(d, b + 3 * k + 3).op \in {"REST", "UNCATCH"}

(* What comes after the opcode o on that stack. *)
Room(o) == CASE o = "T0LVL" -> 0 [] o = "VALUEPRINT" -> 1 [] OTHER -> 2

(* The last of the handlers hs, set first, has the expression that caught  *)
(* and its two frames below it.                                            *)
Base(hs) == Len(hs[Len(hs)]) - 2

(* The UNCATCHes of the handlers of hs from the j-th on: right above what  *)
(* they come back to.                                                      *)
Caught(hs, j) == {Len(hs[i]) + 1 : i \in j..Len(hs)}

Plain(d) == \A q \in 1..Len(d) : Bottom(d, q).op # "T1LVL"

(* The handlers hs are stacks that were there when the next one was set.   *)
Nested(hs) ==
  /\ \A i, j \in 1..Len(hs) : i < j => Len(hs[i]) > Len(hs[j])
  /\ \A j \in 1..Len(hs) : Uncatches(hs[j]) = Caught(hs, j + 1) /\ Plain(hs[j])
  /\ hs # <<>> =>
       /\ Base(hs) \in Nat
       /\ \A j \in 1..Len(hs) :
            /\ Piled(hs[j], Base(hs))
            /\ \E m \in Nat : Len(hs[j]) = Base(hs) + 3 * m + 2

(* With o to come, the stack d and i files pushed: each catch on the stack *)
(* has its handler, and each load above the first has its file.            *)
Standing(o, d, hs, i) ==
  /\ Plain(d)
  /\ o = "UNCATCH" => hs # <<>>
  /\ Uncatches(d) = Caught(hs, IF o = "UNCATCH" THEN 2 ELSE 1)
  /\ hs # <<>> => /\ Piled(d, Base(hs))
                  /\ \E m \in 0..i : Len(d) = Base(hs) + 3 * m + Room(o)

(* The frames that OP_T0LVL pushed are on the stack d. *)
Ready(d) ==
  /\ Len(d) >= 2
  /\ Bottom(d, Len(d)).op = "VALUEPRINT" /\ Bottom(d, Len(d) - 1).op = "T0LVL"

(* The stack without the frame that reading returns to. *)
Waits == IF op = "READ" THEN Tail(dump) ELSE dump

CatchInv ==
  /\ Nested(handlers)
  /\ Standing(op, Waits, handlers, file_i)
  /\ op \in {"READ", "T1LVL", "EVAL"} => Ready(Waits)
  /\ op = "READ" => dump # <<>> /\ Head(dump).op = "T1LVL"
  /\ op = "main" => handlers = <<>>

LEMMA PiledPushed ==
  ASSUME NEW d \in Seq(Frames), NEW f \in Frames, NEW b \in Nat, Piled(d, b),
         NEW m \in Nat,
         \/ Len(d) = b + 3 * m /\ f.op = "T0LVL"
         \/ Len(d) = b + 3 * m + 1 /\ f.op = "VALUEPRINT"
         \/ Len(d) = b + 3 * m + 2 /\ f.op \in {"REST", "UNCATCH"}
  PROVE  Piled(<<f>> \o d, b)
  <1> DEFINE e == <<f>> \o d
  <1>0. /\ Len(e) = Len(d) + 1
        /\ Bottom(e, Len(d) + 1) = f
        /\ \A q \in 1..Len(d) : Bottom(e, q) = Bottom(d, q)
    BY Pushed
  <1>1. Len(d) \in Nat
    OBVIOUS
  <1> HIDE DEF e
  <1>2. ASSUME NEW k \in Nat
        PROVE  /\ b + 3 * k + 1 <= Len(e) => Bottom(e, b + 3 * k + 1).op = "T0LVL"
               /\ b + 3 * k + 2 <= Len(e) => Bottom(e, b + 3 * k + 2).op = "VALUEPRINT"
               /\ b + 3 * k + 3 <= Len(e) => Bottom(e, b + 3 * k + 3).op \in {"REST", "UNCATCH"}
    <2>1. /\ b + 3 * k + 1 <= Len(d) => Bottom(d, b + 3 * k + 1).op = "T0LVL"
          /\ b + 3 * k + 2 <= Len(d) => Bottom(d, b + 3 * k + 2).op = "VALUEPRINT"
          /\ b + 3 * k + 3 <= Len(d) => Bottom(d, b + 3 * k + 3).op \in {"REST", "UNCATCH"}
      BY DEF Piled
    <2> QED
      BY <1>0, <1>1, <2>1
  <1>3. Piled(e, b)
    BY <1>2 DEF Piled
  <1> QED
    BY <1>3 DEF e

LEMMA PiledPopped ==
  ASSUME NEW d \in Seq(Frames), d # <<>>, NEW b \in Nat, Piled(d, b)
  PROVE  /\ Piled(Tail(d), b)
         /\ \A m \in Nat :
              /\ Len(d) = b + 3 * m + 1 => Head(d).op = "T0LVL"
              /\ Len(d) = b + 3 * m + 2 => Head(d).op = "VALUEPRINT"
              /\ Len(d) = b + 3 * m + 3 => Head(d).op \in {"REST", "UNCATCH"}
  <1>1. /\ Len(Tail(d)) = Len(d) - 1
        /\ Len(d) \in Nat \ {0} /\ Bottom(d, Len(d)) = Head(d)
        /\ \A q \in 1..(Len(d) - 1) : Bottom(Tail(d), q) = Bottom(d, q)
    BY Popped
  <1>2. Piled(Tail(d), b)
    <2> DEFINE t == Tail(d)
    <2> SUFFICES ASSUME NEW k \in Nat
          PROVE  /\ b + 3 * k + 1 <= Len(t) => Bottom(t, b + 3 * k + 1).op = "T0LVL"
                 /\ b + 3 * k + 2 <= Len(t) => Bottom(t, b + 3 * k + 2).op = "VALUEPRINT"
                 /\ b + 3 * k + 3 <= Len(t) => Bottom(t, b + 3 * k + 3).op \in {"REST", "UNCATCH"}
      BY DEF Piled
    <2>1. /\ b + 3 * k + 1 <= Len(d) => Bottom(d, b + 3 * k + 1).op = "T0LVL"
          /\ b + 3 * k + 2 <= Len(d) => Bottom(d, b + 3 * k + 2).op = "VALUEPRINT"
          /\ b + 3 * k + 3 <= Len(d) => Bottom(d, b + 3 * k + 3).op \in {"REST", "UNCATCH"}
      BY DEF Piled
    <2> HIDE DEF t
    <2>2. /\ Len(t) = Len(d) - 1
          /\ \A q \in 1..(Len(d) - 1) : Bottom(t, q) = Bottom(d, q)
      BY <1>1 DEF t
    <2> QED
      BY <1>1, <2>1, <2>2
  <1>3. ASSUME NEW m \in Nat
        PROVE  /\ Len(d) = b + 3 * m + 1 => Head(d).op = "T0LVL"
               /\ Len(d) = b + 3 * m + 2 => Head(d).op = "VALUEPRINT"
               /\ Len(d) = b + 3 * m + 3 => Head(d).op \in {"REST", "UNCATCH"}
    <2>1. /\ b + 3 * m + 1 <= Len(d) => Bottom(d, b + 3 * m + 1).op = "T0LVL"
          /\ b + 3 * m + 2 <= Len(d) => Bottom(d, b + 3 * m + 2).op = "VALUEPRINT"
          /\ b + 3 * m + 3 <= Len(d) => Bottom(d, b + 3 * m + 3).op \in {"REST", "UNCATCH"}
      BY DEF Piled
    <2>2. CASE Len(d) = b + 3 * m + 1
      <3>1. Bottom(d, b + 3 * m + 1).op = "T0LVL" /\ Bottom(d, b + 3 * m + 1) = Head(d)
        BY <1>1, <2>1, <2>2
      <3> QED
        BY <3>1, <2>2
    <2>3. CASE Len(d) = b + 3 * m + 2
      <3>1. Bottom(d, b + 3 * m + 2).op = "VALUEPRINT" /\ Bottom(d, b + 3 * m + 2) = Head(d)
        BY <1>1, <2>1, <2>3
      <3> QED
        BY <3>1, <2>3
    <2>4. CASE Len(d) = b + 3 * m + 3
      <3>1. Bottom(d, b + 3 * m + 3).op \in {"REST", "UNCATCH"}
            /\ Bottom(d, b + 3 * m + 3) = Head(d)
        BY <1>1, <2>1, <2>4
      <3> QED
        BY <3>1, <2>4
    <2> QED
      BY <2>2, <2>3, <2>4
  <1> QED
    BY <1>2, <1>3

LEMMA PlainPushed ==
  ASSUME NEW d \in Seq(Frames), NEW f \in Frames, Plain(d), f.op # "T1LVL"
  PROVE  Plain(<<f>> \o d)
  <1> DEFINE e == <<f>> \o d
  <1>0. /\ Len(e) = Len(d) + 1
        /\ Bottom(e, Len(d) + 1) = f
        /\ \A q \in 1..Len(d) : Bottom(e, q) = Bottom(d, q)
    BY Pushed
  <1>1. Len(d) \in Nat
    OBVIOUS
  <1> HIDE DEF e
  <1>2. Plain(e)
    BY <1>0, <1>1 DEF Plain
  <1> QED
    BY <1>2 DEF e

LEMMA PlainPopped ==
  ASSUME NEW d \in Seq(Frames), d # <<>>, Plain(d)
  PROVE  Plain(Tail(d)) /\ Head(d).op # "T1LVL"
  <1>1. /\ Len(Tail(d)) = Len(d) - 1
        /\ Len(d) \in Nat \ {0} /\ Bottom(d, Len(d)) = Head(d)
        /\ \A q \in 1..(Len(d) - 1) : Bottom(Tail(d), q) = Bottom(d, q)
    BY Popped
  <1> QED
    BY <1>1 DEF Plain

(* The first handler gone. *)
LEMMA NestedPopped ==
  ASSUME NEW hs \in Seq(Seq(Frames)), hs # <<>>, Nested(hs)
  PROVE  /\ Nested(Tail(hs)) /\ Head(hs) \in Seq(Frames)
         /\ Tail(hs) \in Seq(Seq(Frames))
         /\ Tail(hs) # <<>> => Base(Tail(hs)) = Base(hs)
         /\ Caught(Tail(hs), 1) = Caught(hs, 2)
  <1> DEFINE t == Tail(hs)
  <1>1. /\ t \in Seq(Seq(Frames)) /\ Len(t) = Len(hs) - 1 /\ Len(hs) \in Nat \ {0}
        /\ \A j \in 1..Len(t) : t[j] = hs[j + 1]
        /\ Head(hs) \in Seq(Frames)
    OBVIOUS
  <1>2. t # <<>> => Len(t) \in 1..Len(t)
    BY <1>1
  <1> HIDE DEF t
  <1>3. t # <<>> => Base(t) = Base(hs)
    BY SMTT(40), <1>1, <1>2 DEF Base
  <1>4. \A j \in Nat \ {0} : Caught(t, j) = Caught(hs, j + 1)
    <2> SUFFICES ASSUME NEW j \in Nat \ {0} PROVE Caught(t, j) = Caught(hs, j + 1)
      OBVIOUS
    <2>1. ASSUME NEW x, x \in Caught(t, j) PROVE x \in Caught(hs, j + 1)
      <3>1. PICK i \in j..Len(t) : x = Len(t[i]) + 1
        BY <2>1 DEF Caught
      <3>2. i + 1 \in (j + 1)..Len(hs) /\ t[i] = hs[i + 1]
        BY <1>1
      <3> QED
        BY <3>1, <3>2 DEF Caught
    <2>2. ASSUME NEW x, x \in Caught(hs, j + 1) PROVE x \in Caught(t, j)
      <3>1. PICK i \in (j + 1)..Len(hs) : x = Len(hs[i]) + 1
        BY <2>2 DEF Caught
      <3>2. i - 1 \in j..Len(t) /\ i - 1 \in 1..Len(t) /\ (i - 1) + 1 = i
        BY <1>1
      <3>3. t[i - 1] = hs[i]
        BY <1>1, <3>2
      <3> QED
        BY <3>1, <3>2, <3>3 DEF Caught
    <2> QED
      BY <2>1, <2>2
  <1>5. \A j \in 1..Len(t) : j + 1 \in 1..Len(hs) /\ j + 1 \in Nat \ {0}
    BY <1>1
  <1>6. ASSUME NEW i \in 1..Len(t), NEW j \in 1..Len(t), i < j
        PROVE  Len(t[i]) > Len(t[j])
    <2>1. i + 1 \in 1..Len(hs) /\ j + 1 \in 1..Len(hs) /\ i + 1 < j + 1
      BY <1>1, <1>6
    <2>2. Len(hs[i + 1]) > Len(hs[j + 1])
      BY <2>1 DEF Nested
    <2> QED
      BY <1>1, <2>2
  <1>7. \A j \in 1..Len(t) : Uncatches(t[j]) = Caught(t, j + 1) /\ Plain(t[j])
    BY <1>1, <1>4, <1>5 DEF Nested
  <1>8. t # <<>> => /\ Base(t) \in Nat
                    /\ \A j \in 1..Len(t) :
                         /\ Piled(t[j], Base(t))
                         /\ \E m \in Nat : Len(t[j]) = Base(t) + 3 * m + 2
    BY <1>1, <1>3, <1>5 DEF Nested
  <1>9. Nested(t)
    BY <1>6, <1>7, <1>8 DEF Nested
  <1> QED
    BY SMTT(40), <1>1, <1>3, <1>4, <1>9 DEF t

LEMMA NoHandlers == Nested(<<>>) /\ Caught(<<>>, 1) = {} /\ Caught(<<>>, 2) = {}
  BY DEF Nested, Caught

(* The first handler is below its UNCATCH, and all are below the stack. *)
LEMMA BelowTheStack ==
  ASSUME NEW hs \in Seq(Seq(Frames)), hs # <<>>, Nested(hs), NEW d \in Seq(Frames),
         NEW j \in {1, 2}, j <= Len(hs), Uncatches(d) = Caught(hs, j)
  PROVE  \A i \in j..Len(hs) : Len(hs[i]) \in Nat /\ Len(hs[i]) + 1 <= Len(d)
  <1> SUFFICES ASSUME NEW i \in j..Len(hs)
               PROVE  Len(hs[i]) \in Nat /\ Len(hs[i]) + 1 <= Len(d)
    OBVIOUS
  <1>1. hs[i] \in Seq(Frames)
    OBVIOUS
  <1>2. Len(hs[i]) + 1 \in Uncatches(d)
    BY DEF Caught
  <1> QED
    BY <1>1, <1>2 DEF Uncatches

(* With no file pushed, no catch is active. *)
LEMMA HandlersNeedFiles ==
  ASSUME NEW hs \in Seq(Seq(Frames)), Nested(hs), NEW d \in Seq(Frames), NEW o,
         Standing(o, d, hs, 0), o # "UNCATCH"
  PROVE  hs = <<>>
  <1> SUFFICES ASSUME hs # <<>> PROVE FALSE
    OBVIOUS
  <1>1. Len(hs) \in 1..Len(hs) /\ 1 <= Len(hs)
    OBVIOUS
  <1>2. Len(hs[Len(hs)]) + 1 <= Len(d) /\ Len(hs[Len(hs)]) \in Nat
    BY <1>1, BelowTheStack DEF Standing
  <1>3. \E m \in 0..0 : Len(d) = Base(hs) + 3 * m + Room(o)
    BY DEF Standing
  <1>4. Room(o) <= 2 /\ Room(o) \in Nat
    BY DEF Room
  <1>5. Base(hs) \in Nat /\ Base(hs) = Len(hs[Len(hs)]) - 2
    BY DEF Nested, Base
  <1> QED
    BY <1>2, <1>3, <1>4, <1>5

(* s_return from an opcode that is above the frames of OP_T0LVL. *)
LEMMA StandingPopped ==
  ASSUME NEW hs \in Seq(Seq(Frames)), Nested(hs), NEW d \in Seq(Frames), d # <<>>,
         NEW i \in Nat, NEW o \in {"EVAL", "SET_INPORT", "REST", "VALUEPRINT"},
         Standing(o, d, hs, i)
  PROVE  Standing(Head(d).op, Tail(d), hs, i) /\ Head(d).op # "T1LVL"
  <1>1. /\ Tail(d) \in Seq(Frames) /\ Len(Tail(d)) = Len(d) - 1
        /\ Len(d) \in Nat \ {0} /\ Head(d) \in Frames
    BY Popped
  <1>2. Plain(Tail(d)) /\ Head(d).op # "T1LVL"
    BY PlainPopped DEF Standing
  <1>3. /\ Uncatches(d) = Caught(hs, 1)
        /\ Uncatches(Tail(d)) = Uncatches(d) \ {Len(d)}
        /\ Len(d) \in Uncatches(d) <=> Head(d).op = "UNCATCH"
    BY UncatchesPopped DEF Standing
  <1>4. CASE hs = <<>>
    <2>1. Caught(hs, 1) = {}
      BY <1>4, NoHandlers
    <2> QED
      BY <1>2, <1>3, <1>4, <2>1 DEF Standing
  <1>5. CASE hs # <<>>
    <2>1. Base(hs) \in Nat
      BY <1>5 DEF Nested
    <2>2. PICK m \in 0..i : Len(d) = Base(hs) + 3 * m + Room(o)
      BY <1>5 DEF Standing
    <2>3. Piled(d, Base(hs))
      BY <1>5 DEF Standing
    <2>4. /\ Piled(Tail(d), Base(hs)) /\ m \in Nat
          /\ Len(d) = Base(hs) + 3 * m + 1 => Head(d).op = "T0LVL"
          /\ Len(d) = Base(hs) + 3 * m + 2 => Head(d).op = "VALUEPRINT"
      BY <2>1, <2>3, PiledPopped
    <2>5. /\ Head(d).op \in {"T0LVL", "VALUEPRINT"}
          /\ Len(Tail(d)) = Base(hs) + 3 * m + Room(Head(d).op)
      <3>1. CASE o = "VALUEPRINT"
        BY <1>1, <2>1, <2>2, <2>4, <3>1 DEF Room
      <3>2. CASE o # "VALUEPRINT"
        BY SMTT(40), <1>1, <2>1, <2>2, <2>4, <3>2 DEF Room
      <3> QED
        BY <3>1, <3>2
    <2>6. Uncatches(Tail(d)) = Caught(hs, 1)
      BY <1>3, <2>5
    <2> QED
      BY <1>2, <2>2, <2>4, <2>5, <2>6 DEF Standing
  <1> QED
    BY <1>4, <1>5

(* Back from the end of a file to what loaded it. *)
LEMMA FilePopped ==
  ASSUME NEW hs \in Seq(Seq(Frames)), Nested(hs), NEW d \in Seq(Frames), d # <<>>,
         NEW i \in Nat \ {0}, Standing("T0LVL", d, hs, i)
  PROVE  Standing(Head(d).op, Tail(d), hs, i - 1) /\ Head(d).op # "T1LVL"
  <1>1. /\ Tail(d) \in Seq(Frames) /\ Len(Tail(d)) = Len(d) - 1
        /\ Len(d) \in Nat \ {0} /\ Head(d) \in Frames
    BY Popped
  <1>2. Plain(Tail(d)) /\ Head(d).op # "T1LVL"
    BY PlainPopped DEF Standing
  <1>3. /\ Uncatches(d) = Caught(hs, 1)
        /\ Uncatches(Tail(d)) = Uncatches(d) \ {Len(d)}
        /\ Len(d) \in Uncatches(d) <=> Head(d).op = "UNCATCH"
    BY UncatchesPopped DEF Standing
  <1>4. CASE hs = <<>>
    <2>1. Caught(hs, 1) = {}
      BY <1>4, NoHandlers
    <2> QED
      BY <1>2, <1>3, <1>4, <2>1 DEF Standing
  <1>5. CASE hs # <<>>
    <2>1. Base(hs) \in Nat /\ Base(hs) = Len(hs[Len(hs)]) - 2
      BY <1>5 DEF Nested, Base
    <2>2. PICK m \in 0..i : Len(d) = Base(hs) + 3 * m
      BY <1>5, <2>1 DEF Standing, Room
    <2>3. Piled(d, Base(hs))
      BY <1>5 DEF Standing
    <2>4. Len(hs) \in 1..Len(hs) /\ 1 <= Len(hs)
      BY <1>5
    <2>5. \A j \in 1..Len(hs) : Len(hs[j]) \in Nat /\ Len(hs[j]) + 1 <= Len(d)
      BY <1>3, <1>5, <2>4, BelowTheStack
    <2>11. Len(hs[Len(hs)]) \in Nat /\ Len(hs[Len(hs)]) + 1 <= Len(d)
      BY <2>4, <2>5
    <2>12. PICK n \in Nat : m = n + 1
      <3>1. m \in Nat /\ m # 0
        BY <2>1, <2>2, <2>11
      <3>2. m - 1 \in Nat /\ m = (m - 1) + 1
        BY <3>1
      <3> QED
        BY <3>2
    <2>14. PICK b \in Nat : b = Base(hs)
      BY <2>1
    <2>15. Len(d) = b + 3 * n + 3
      BY <2>2, <2>12, <2>14
    <2>16. n \in 0..(i - 1)
      BY <2>12
    <2>6. n \in 0..(i - 1) /\ Len(d) = Base(hs) + 3 * n + 3
      BY <2>15, <2>16, <2>14
    <2>7. Piled(Tail(d), Base(hs)) /\ Head(d).op \in {"REST", "UNCATCH"}
      BY <2>1, <2>3, <2>6, PiledPopped
    <2>13. Room(Head(d).op) = 2
      BY <2>7 DEF Room
    <2>8. Len(Tail(d)) = Base(hs) + 3 * n + Room(Head(d).op)
      <3>1. Len(Tail(d)) = b + 3 * n + 2
        BY <1>1, <2>15
      <3> QED
        BY <2>13, <2>14, <3>1
    <2>9. CASE Head(d).op = "REST"
      <3>1. Uncatches(Tail(d)) = Caught(hs, 1)
        BY <1>3, <2>9
      <3> QED
        BY <1>2, <2>6, <2>7, <2>8, <2>9, <3>1 DEF Standing
    <2>10. CASE Head(d).op = "UNCATCH"
      <3>1. Len(d) = Len(hs[1]) + 1
        <4>1. PICK j \in 1..Len(hs) : Len(d) = Len(hs[j]) + 1
          BY <1>3, <2>10 DEF Caught
        <4>2. j = 1 \/ Len(hs[1]) > Len(hs[j])
          BY <2>4 DEF Nested
        <4>3. Len(hs[1]) \in Nat /\ Len(hs[1]) + 1 <= Len(d) /\ Len(hs[j]) \in Nat
          BY <2>4, <2>5
        <4> QED
          BY <4>1, <4>2, <4>3
      <3>2. Caught(hs, 2) = Caught(hs, 1) \ {Len(hs[1]) + 1}
        <4>1. \A j \in 2..Len(hs) : Len(hs[j]) + 1 # Len(hs[1]) + 1
          <5> SUFFICES ASSUME NEW j \in 2..Len(hs) PROVE Len(hs[j]) + 1 # Len(hs[1]) + 1
            OBVIOUS
          <5>1. j \in 1..Len(hs) /\ 1 < j
            BY <2>4
          <5>2. Len(hs[1]) > Len(hs[j])
            BY <2>4, <5>1 DEF Nested
          <5> QED
            BY <2>4, <2>5, <5>1, <5>2
        <4>2. 1..Len(hs) = {1} \cup (2..Len(hs)) /\ 1 \notin 2..Len(hs)
          BY <2>4
        <4> QED
          BY <4>1, <4>2 DEF Caught
      <3>3. Uncatches(Tail(d)) = Caught(hs, 2)
        BY <1>3, <3>1, <3>2
      <3> QED
        BY <1>2, <1>5, <2>6, <2>7, <2>8, <2>10, <3>3 DEF Standing
    <2> QED
      BY <2>7, <2>9, <2>10
  <1> QED
    BY <1>4, <1>5

(* What the innermost catch comes back to, after an error. *)
LEMMA HandlerStanding ==
  ASSUME NEW hs \in Seq(Seq(Frames)), Nested(hs), hs # <<>>, NEW d \in Seq(Frames),
         NEW i \in Nat, NEW o, o # "UNCATCH", Standing(o, d, hs, i)
  PROVE  Standing("REST", Head(hs), Tail(hs), i) /\ Head(hs) # <<>>
  <1>1. /\ Tail(hs) # <<>> => Base(Tail(hs)) = Base(hs)
        /\ Caught(Tail(hs), 1) = Caught(hs, 2)
    BY NestedPopped
  <1>2. Head(hs) = hs[1] /\ 1 \in 1..Len(hs) /\ hs[1] \in Seq(Frames) /\ 1 <= Len(hs)
    OBVIOUS
  <1>3. Plain(hs[1]) /\ Uncatches(hs[1]) = Caught(hs, 1 + 1)
    BY <1>2 DEF Nested
  <1>4. PICK m \in Nat : Len(hs[1]) = Base(hs) + 3 * m + 2
    BY <1>2 DEF Nested
  <1>5. Piled(hs[1], Base(hs)) /\ Base(hs) \in Nat
    BY <1>2 DEF Nested
  <1>6. PICK n \in 0..i : Len(d) = Base(hs) + 3 * n + Room(o)
    BY DEF Standing
  <1>7. Len(hs[1]) + 1 <= Len(d)
    BY <1>2, BelowTheStack DEF Standing
  <1>8. m \in 0..i
    BY SMTT(40), <1>4, <1>5, <1>6, <1>7 DEF Room
  <1>9. Len(hs[1]) = Base(hs) + 3 * m + Room("REST")
    BY <1>4 DEF Room
  <1>10. Uncatches(hs[1]) = Caught(Tail(hs), 1)
    BY <1>1, <1>3
  <1> QED
    BY <1>1, <1>2, <1>3, <1>4, <1>5, <1>8, <1>9, <1>10 DEF Standing

FrameOps == {"T0LVL", "T1LVL", "VALUEPRINT", "REST", "UNCATCH", "SET_INPORT"}

LEMMA StackTypes ==
  ASSUME TypeOK
  PROVE  /\ dump \in Seq(Frames) /\ handlers \in Seq(Seq(Frames)) /\ file_i \in Nat
         /\ \A f \in Frames : f.op \in FrameOps
         /\ \A x : Frame("T0LVL", x).op = "T0LVL" /\ Frame("T1LVL", x).op = "T1LVL"
         /\ \A x : Frame("VALUEPRINT", x).op = "VALUEPRINT" /\ Frame("REST", x).op = "REST"
         /\ \A x : Frame("UNCATCH", x).op = "UNCATCH"
  <1>1. dump \in Seq(Frames) /\ handlers \in Seq(Seq(Frames)) /\ file_i \in Nat
    BY LoaderAssumption DEF TypeOK
  <1>2. \A f \in Frames : f.op \in FrameOps
    BY DEF Frames, FrameOps
  <1> QED
    BY <1>1, <1>2 DEF Frame

LEMMA ReturnCatch ==
  ASSUME TypeOK, NEW d \in Seq(Frames), NEW o \in {"EVAL", "SET_INPORT", "REST", "VALUEPRINT"},
         handlers' \in Seq(Seq(Frames)), Nested(handlers'), file_i' \in Nat,
         Standing(o, d, handlers', file_i'), Return(d)
  PROVE  CatchInv'
  <1>1. CASE d = <<>>
    <2>1. op' = "main" /\ dump' = <<>>
      BY <1>1 DEF Return
    <2>2. Uncatches(<<>>) = {} /\ Plain(<<>>)
      BY DEF Uncatches, Plain
    <2>3. handlers' = <<>>
      <3> SUFFICES ASSUME handlers' # <<>> PROVE FALSE
        OBVIOUS
      <3>1. Base(handlers') \in Nat
        BY DEF Nested
      <3>2. \E m \in 0..file_i' : Len(d) = Base(handlers') + 3 * m + Room(o)
        BY DEF Standing
      <3>3. Len(d) = 0 /\ Room(o) \in {1, 2}
        BY <1>1 DEF Room
      <3> QED
        BY SMTT(40), <3>1, <3>2, <3>3
    <2>4. Standing("main", <<>>, <<>>, file_i')
      BY <2>2, NoHandlers DEF Standing
    <2>5. Waits' = <<>>
      BY <2>1 DEF Waits
    <2> QED
      BY <2>1, <2>3, <2>4, <2>5 DEF CatchInv
  <1>2. CASE d # <<>>
    <2>1. op' = Head(d).op /\ dump' = Tail(d)
      BY <1>2 DEF Return
    <2>2. Standing(op', dump', handlers', file_i') /\ op' # "T1LVL"
      BY <1>2, <2>1, StandingPopped
    <2>3. op' \in FrameOps
      BY <1>2, <2>1, Popped, StackTypes
    <2>4. op' \notin {"READ", "T1LVL", "EVAL", "main"}
      BY <2>2, <2>3 DEF FrameOps
    <2>5. Waits' = dump'
      BY <2>4 DEF Waits
    <2> QED
      BY <2>2, <2>4, <2>5 DEF CatchInv
  <1> QED
    BY <1>1, <1>2

(* An error, with a handler or without. *)
LEMMA HandlerCatch ==
  ASSUME TypeOK, CatchInv, op \notin {"READ", "UNCATCH"}, handlers # <<>>,
         handlers' = Tail(handlers), Return(Head(handlers)), file_i' = file_i
  PROVE  CatchInv'
  <1>1. dump \in Seq(Frames) /\ handlers \in Seq(Seq(Frames)) /\ file_i \in Nat
    BY StackTypes
  <1>2. Nested(handlers) /\ Standing(op, dump, handlers, file_i)
    BY DEF CatchInv, Waits
  <1>3. Standing("REST", Head(handlers), Tail(handlers), file_i)
    BY <1>1, <1>2, HandlerStanding
  <1>4. /\ Nested(Tail(handlers)) /\ Head(handlers) \in Seq(Frames)
        /\ Tail(handlers) \in Seq(Seq(Frames))
    BY <1>1, <1>2, NestedPopped
  <1> QED
    BY <1>1, <1>3, <1>4, ReturnCatch

LEMMA TopCatch ==
  ASSUME TypeOK, CatchInv, NEW d \in Seq(Frames), handlers' = <<>>, dump' = d,
         Plain(d), Uncatches(d) = {}, op' \in {"T0LVL", "main"}
  PROVE  CatchInv'
  <1>1. Waits' = d
    BY DEF Waits
  <1>2. Standing(op', d, <<>>, file_i')
    BY NoHandlers DEF Standing
  <1> QED
    BY <1>1, <1>2, NoHandlers DEF CatchInv

LEMMA FailCatch ==
  ASSUME TypeOK, CatchInv, op \notin {"READ", "UNCATCH"}, NEW d \in Seq(Frames),
         handlers = <<>> => Plain(d) /\ Uncatches(d) = {},
         Fail(d), file_i' = file_i
  PROVE  CatchInv'
  <1>1. CASE handlers # <<>>
    BY <1>1, HandlerCatch DEF Fail
  <1>2. CASE handlers = <<>>
    <2>1. handlers' = <<>> /\ dump' = d /\ op' \in {"T0LVL", "main"}
      BY <1>2 DEF Fail
    <2> QED
      BY <1>2, <2>1, TopCatch
  <1> QED
    BY <1>1, <1>2

LEMMA UnmatchedCatch ==
  ASSUME TypeOK, CatchInv, op \notin {"READ", "UNCATCH"}, Unmatched(dump), file_i' = file_i
  PROVE  CatchInv'
  <1>1. CASE handlers # <<>>
    BY <1>1, HandlerCatch DEF Unmatched
  <1>2. CASE handlers = <<>>
    <2>1. handlers' = <<>> /\ dump' = dump /\ op' \in {"T0LVL", "main"}
      BY <1>2 DEF Unmatched
    <2>2. Plain(dump) /\ Uncatches(dump) = {} /\ dump \in Seq(Frames)
      BY <1>2, StackTypes, NoHandlers DEF CatchInv, Standing, Waits
    <2> QED
      BY <1>2, <2>1, <2>2, TopCatch
  <1> QED
    BY <1>1, <1>2

LEMMA InitCatch == Init => CatchInv
  <1> SUFFICES ASSUME Init PROVE CatchInv
    OBVIOUS
  <1>1. op = "main" /\ handlers = <<>> /\ dump = <<>> /\ Waits = <<>>
    BY DEF Init, Waits
  <1>2. Uncatches(<<>>) = {} /\ Plain(<<>>)
    BY DEF Uncatches, Plain
  <1>3. Standing("main", <<>>, <<>>, file_i)
    BY <1>2, NoHandlers DEF Standing
  <1> QED
    BY <1>1, <1>3, NoHandlers DEF CatchInv

LEMMA StartFileCatch == ASSUME TypeOK, CatchInv, StartFile PROVE CatchInv'
  <1>1. handlers' = <<>> /\ dump' = <<>> /\ op' = "T0LVL"
    BY DEF StartFile, CatchInv
  <1>2. Uncatches(<<>>) = {} /\ Plain(<<>>) /\ <<>> \in Seq(Frames)
    BY DEF Uncatches, Plain
  <1> QED
    BY <1>1, <1>2, TopCatch

LEMMA EndOfFileCatch == ASSUME TypeOK, CatchInv, EndOfFile PROVE CatchInv'
  <1>1. dump \in Seq(Frames) /\ handlers \in Seq(Seq(Frames)) /\ file_i \in Nat
    BY StackTypes
  <1>2. op = "T0LVL" /\ Nested(handlers) /\ Standing("T0LVL", dump, handlers, file_i)
        /\ handlers' = handlers
    BY DEF CatchInv, Waits, EndOfFile
  <1>3. CASE file_i = 0 /\ op' = "main" /\ UNCHANGED dump
    <2>1. handlers = <<>>
      BY <1>1, <1>2, <1>3, HandlersNeedFiles
    <2>2. Plain(dump) /\ Uncatches(dump) = {}
      BY <1>2, <2>1, NoHandlers DEF Standing
    <2> QED
      BY <1>1, <1>2, <1>3, <2>1, <2>2, TopCatch
  <1>4. CASE file_i > 0 /\ file_pop /\ Return(dump)
    <2>1. file_i' = file_i - 1 /\ file_i \in Nat \ {0}
      BY <1>1, <1>4 DEF file_pop
    <2>2. CASE dump = <<>>
      <3>1. op' = "main" /\ dump' = <<>>
        BY <1>4, <2>2 DEF Return
      <3>2. Uncatches(<<>>) = {} /\ Plain(<<>>) /\ <<>> \in Seq(Frames)
        BY DEF Uncatches, Plain
      <3>3. handlers = <<>>
        <4> SUFFICES ASSUME handlers # <<>> PROVE FALSE
          OBVIOUS
        <4>1. Len(handlers) \in 1..Len(handlers) /\ 1 <= Len(handlers)
          BY <1>1
        <4>2. Len(handlers[Len(handlers)]) \in Nat /\ Len(handlers[Len(handlers)]) + 1 <= Len(dump)
          BY <1>1, <1>2, <4>1, BelowTheStack DEF Standing
        <4> QED
          BY <2>2, <4>2
      <3> QED
        BY <1>2, <3>1, <3>2, <3>3, TopCatch
    <2>3. CASE dump # <<>>
      <3>1. op' = Head(dump).op /\ dump' = Tail(dump)
        BY <1>4, <2>3 DEF Return
      <3>2. Standing(op', dump', handlers, file_i') /\ op' # "T1LVL"
        BY <1>1, <1>2, <2>1, <2>3, <3>1, FilePopped
      <3>3. op' \in FrameOps
        BY <1>1, <2>3, <3>1, Popped, StackTypes
      <3>4. op' \notin {"READ", "T1LVL", "EVAL", "main"}
        BY <3>2, <3>3 DEF FrameOps
      <3>5. Waits' = dump'
        BY <3>4 DEF Waits
      <3> QED
        BY <1>2, <3>2, <3>4, <3>5 DEF CatchInv
    <2> QED
      BY <2>2, <2>3
  <1> QED
    BY <1>3, <1>4 DEF EndOfFile

LEMMA PushedInTurn ==
  ASSUME NEW d \in Seq(Frames), NEW f \in Frames, NEW g \in Frames
  PROVE  <<f, g>> \o d = <<f>> \o (<<g>> \o d)
  <1> DEFINE x == <<f>>
             y == <<g>>
             z == <<f, g>>
             xy == x \o y
  <1>1. x \in Seq(Frames) /\ y \in Seq(Frames) /\ z \in Seq(Frames)
        /\ Len(z) = 2 /\ z[1] = f /\ z[2] = g
    OBVIOUS
  <1>2. xy \in Seq(Frames) /\ Len(xy) = 2 /\ xy[1] = f /\ xy[2] = g
    OBVIOUS
  <1> HIDE DEF z, xy
  <1>3. Len(xy) = Len(z) /\ \A i \in 1..Len(xy) : xy[i] = z[i]
    BY <1>1, <1>2
  <1>4. xy = z
    BY <1>1, <1>2, <1>3, SeqEqual, Zenon
  <1> USE DEF xy
  <1> HIDE DEF x, y
  <1>5. (x \o y) \o d = x \o (y \o d)
    <2>1. x \in Seq(Frames) /\ y \in Seq(Frames)
      BY <1>1
    <2> QED
      BY <2>1, ConcatAssociative
  <1> QED
    BY <1>4, <1>5, Zenon DEF x, y, z

LEMMA PushedThree ==
  ASSUME NEW d \in Seq(Frames), NEW f \in Frames, NEW g \in Frames, NEW h \in Frames
  PROVE  <<f, g, h>> \o d = <<f>> \o (<<g, h>> \o d)
  <1> DEFINE x == <<f>>
             y == <<g, h>>
             z == <<f, g, h>>
             xy == x \o y
  <1>1. x \in Seq(Frames) /\ y \in Seq(Frames) /\ z \in Seq(Frames)
        /\ Len(z) = 3 /\ z[1] = f /\ z[2] = g /\ z[3] = h
    OBVIOUS
  <1>2. xy \in Seq(Frames) /\ Len(xy) = 3 /\ xy[1] = f /\ xy[2] = g /\ xy[3] = h
    OBVIOUS
  <1> HIDE DEF z, xy
  <1>3. Len(xy) = Len(z) /\ \A i \in 1..Len(xy) : xy[i] = z[i]
    BY <1>1, <1>2
  <1>4. xy = z
    BY <1>1, <1>2, <1>3, SeqEqual, Zenon
  <1> USE DEF xy
  <1> HIDE DEF x, y
  <1>5. (x \o y) \o d = x \o (y \o d)
    <2>1. x \in Seq(Frames) /\ y \in Seq(Frames)
      BY <1>1
    <2> QED
      BY <2>1, ConcatAssociative
  <1> QED
    BY <1>4, <1>5, Zenon DEF x, y, z

(* The two frames of OP_T0LVL that wait for a value. *)
LEMMA ReadyPushed ==
  ASSUME TypeOK, NEW d \in Seq(Frames)
  PROVE  LET v == Frame("VALUEPRINT", "none")
             t == Frame("T0LVL", "none")
             e == <<v, t>> \o d
         IN  /\ e \in Seq(Frames) /\ Len(e) = Len(d) + 2
             /\ <<t>> \o d \in Seq(Frames) /\ e = <<v>> \o (<<t>> \o d)
             /\ Ready(e) /\ Uncatches(e) = Uncatches(d)
             /\ Plain(d) => Plain(e)
             /\ \A b, m \in Nat : Piled(d, b) /\ Len(d) = b + 3 * m => Piled(e, b)
             /\ \A q \in 1..Len(d) : Bottom(e, q) = Bottom(d, q)
  <1> DEFINE v == Frame("VALUEPRINT", "none")
             t == Frame("T0LVL", "none")
             c == <<t>> \o d
             e == <<v, t>> \o d
  <1>1. t \in Frames /\ v \in Frames /\ t.op = "T0LVL" /\ v.op = "VALUEPRINT"
    BY FrameFacts, StackTypes
  <1> HIDE DEF v, t
  <1>2. /\ c \in Seq(Frames) /\ Len(c) = Len(d) + 1 /\ Bottom(c, Len(c)) = t
        /\ \A q \in 1..Len(d) : Bottom(c, q) = Bottom(d, q)
    BY <1>1, Pushed
  <1>3. e = <<v>> \o c
    BY <1>1, PushedInTurn
  <1> HIDE DEF c, e
  <1>4. /\ e \in Seq(Frames) /\ Len(e) = Len(c) + 1 /\ Bottom(e, Len(e)) = v
        /\ \A q \in 1..Len(c) : Bottom(e, q) = Bottom(c, q)
    BY <1>1, <1>2, <1>3, Pushed
  <1>5. Len(d) \in Nat
    OBVIOUS
  <1>6. Ready(e)
    <2>1. Len(e) >= 2 /\ Len(e) - 1 = Len(c) /\ Len(c) \in 1..Len(c)
      BY <1>2, <1>4, <1>5
    <2> QED
      BY <1>1, <1>2, <1>4, <2>1 DEF Ready
  <1>7. Uncatches(e) = Uncatches(d)
    <2>1. Uncatches(c) = Uncatches(d)
      BY <1>1, UncatchesPushed DEF c
    <2> QED
      BY <1>1, <1>2, <1>3, <2>1, UncatchesPushed
  <1>8. Plain(d) => Plain(e)
    <2>1. Plain(d) => Plain(c)
      BY <1>1, PlainPushed DEF c
    <2> QED
      BY <1>1, <1>2, <1>3, <2>1, PlainPushed
  <1>9. ASSUME NEW b \in Nat, NEW m \in Nat, Piled(d, b), Len(d) = b + 3 * m
        PROVE  Piled(e, b)
    <2>1. Piled(c, b)
      BY <1>1, <1>9, PiledPushed DEF c
    <2>2. Len(c) = b + 3 * m + 1
      BY <1>2, <1>9
    <2> QED
      BY <1>1, <1>2, <1>3, <2>1, <2>2, PiledPushed
  <1>10. Len(e) = Len(d) + 2
    BY <1>2, <1>4, <1>5
  <1>11. \A q \in 1..Len(d) : Bottom(e, q) = Bottom(d, q)
    BY <1>2, <1>4, <1>5
  <1> QED
    BY <1>2, <1>3, <1>4, <1>6, <1>7, <1>8, <1>9, <1>10, <1>11 DEF c, e, v, t

LEMMA TopLevelCatch == ASSUME TypeOK, CatchInv, TopLevel PROVE CatchInv'
  <1> DEFINE v == Frame("VALUEPRINT", "none")
             t == Frame("T0LVL", "none")
             r == Frame("T1LVL", "none")
             e == <<v, t>> \o PromptStack
  <1>0. dump \in Seq(Frames) /\ handlers \in Seq(Seq(Frames)) /\ file_i \in Nat
    BY StackTypes
  <1>1. /\ op = "T0LVL" /\ op' = "READ" /\ handlers' = handlers /\ file_i' = file_i
        /\ dump' = <<r, v, t>> \o PromptStack
    BY DEF TopLevel, files
  <1>2. Nested(handlers) /\ Standing("T0LVL", dump, handlers, file_i)
    BY <1>1 DEF CatchInv, Waits
  <1>3. PromptStack \in Seq(Frames)
    BY <1>0 DEF PromptStack
  <1>4. r \in Frames /\ v \in Frames /\ t \in Frames /\ r.op = "T1LVL"
    BY FrameFacts, StackTypes
  <1>5. /\ e \in Seq(Frames) /\ Len(e) = Len(PromptStack) + 2
        /\ Ready(e) /\ Uncatches(e) = Uncatches(PromptStack)
        /\ Plain(PromptStack) => Plain(e)
        /\ \A b, m \in Nat : Piled(PromptStack, b) /\ Len(PromptStack) = b + 3 * m => Piled(e, b)
    BY <1>3, ReadyPushed
  <1>6. dump' = <<r>> \o e
    BY ZenonT(60), <1>1, <1>3, <1>4, PushedThree
  <1>7. dump' # <<>> /\ Head(dump') = r /\ Tail(dump') = e
    BY <1>4, <1>5, <1>6, Pushed
  <1>8. Waits' = e
    BY <1>1, <1>7 DEF Waits
  <1> HIDE DEF e
  <1>9. Standing("READ", e, handlers, file_i)
    <2>1. CASE file_interactive
      <3>1. PromptStack = <<>> /\ file_i = 0
        BY <2>1 DEF PromptStack, file_interactive
      <3>2. handlers = <<>>
        BY <1>0, <1>2, <3>1, HandlersNeedFiles
      <3>3. Uncatches(<<>>) = {} /\ Plain(<<>>)
        BY DEF Uncatches, Plain
      <3> QED
        BY <1>5, <3>1, <3>2, <3>3, NoHandlers DEF Standing
    <2>2. CASE ~file_interactive
      <3>1. PromptStack = dump
        BY <2>2 DEF PromptStack
      <3>2. Plain(e) /\ Uncatches(e) = Caught(handlers, 1)
        BY <1>2, <1>5, <3>1 DEF Standing
      <3>3. ASSUME handlers # <<>>
            PROVE  /\ Piled(e, Base(handlers))
                   /\ \E m \in 0..file_i : Len(e) = Base(handlers) + 3 * m + Room("READ")
        <4>1. PICK b \in Nat : b = Base(handlers)
          BY <1>2, <3>3 DEF Nested
        <4>2. PICK m \in 0..file_i : Len(dump) = b + 3 * m
          BY <1>2, <3>3, <4>1 DEF Standing, Room
        <4>3. Piled(dump, b)
          BY <1>2, <3>3, <4>1 DEF Standing
        <4>4. Piled(e, b) /\ Len(e) = b + 3 * m + 2 /\ m \in Nat
          <5>1. m \in Nat
            BY <1>0
          <5>2. Piled(PromptStack, b) /\ Len(PromptStack) = b + 3 * m
            BY <3>1, <4>2, <4>3
          <5>3. Piled(e, b)
            BY <1>5, <5>1, <5>2
          <5>4. Len(e) = b + 3 * m + 2
            BY <1>5, <5>1, <5>2
          <5> QED
            BY <5>1, <5>3, <5>4
        <4> QED
          BY <4>1, <4>4 DEF Room
      <3> QED
        BY <3>2, <3>3 DEF Standing
    <2> QED
      BY <2>1, <2>2
  <1> QED
    BY <1>1, <1>2, <1>4, <1>5, <1>7, <1>8, <1>9 DEF CatchInv

LEMMA ReadCatch == ASSUME TypeOK, CatchInv, Read PROVE CatchInv'
  <1>1. op = "READ" /\ Return(dump) /\ handlers' = handlers /\ file_i' = file_i
    BY DEF Read
  <1>2. dump # <<>> /\ Head(dump).op = "T1LVL" /\ Waits = Tail(dump)
    BY <1>1 DEF CatchInv, Waits
  <1>3. op' = "T1LVL" /\ dump' = Tail(dump)
    BY <1>1, <1>2 DEF Return
  <1>4. Waits' = Waits
    BY <1>2, <1>3 DEF Waits
  <1>5. Nested(handlers) /\ Standing("READ", Waits, handlers, file_i) /\ Ready(Waits)
    BY <1>1 DEF CatchInv
  <1>6. Standing("T1LVL", Waits, handlers, file_i)
    BY <1>5 DEF Standing, Room
  <1> QED
    BY <1>1, <1>3, <1>4, <1>5, <1>6 DEF CatchInv

LEMMA TopLevel1Catch == ASSUME TypeOK, CatchInv, TopLevel1 PROVE CatchInv'
  <1>1. op = "T1LVL" /\ op' = "EVAL" /\ handlers' = handlers /\ file_i' = file_i
        /\ dump' = dump
    BY DEF TopLevel1, files
  <1>2. Waits = dump /\ Waits' = dump
    BY <1>1 DEF Waits
  <1>3. Nested(handlers) /\ Standing("T1LVL", dump, handlers, file_i) /\ Ready(dump)
    BY <1>1, <1>2 DEF CatchInv
  <1>4. Standing("EVAL", dump, handlers, file_i)
    BY <1>3 DEF Standing, Room
  <1> QED
    BY <1>1, <1>2, <1>3, <1>4 DEF CatchInv

(* What CatchInv says of an opcode other than reading. *)
LEMMA CatchNow ==
  ASSUME TypeOK, CatchInv, op # "READ"
  PROVE  /\ dump \in Seq(Frames) /\ handlers \in Seq(Seq(Frames)) /\ file_i \in Nat
         /\ Nested(handlers) /\ Standing(op, dump, handlers, file_i)
         /\ op = "EVAL" => Ready(dump)
         /\ Plain(dump)
         /\ handlers = <<>> => Uncatches(dump) = {}
  <1>1. dump \in Seq(Frames) /\ handlers \in Seq(Seq(Frames)) /\ file_i \in Nat
    BY StackTypes
  <1>2. Nested(handlers) /\ Standing(op, dump, handlers, file_i) /\ (op = "EVAL" => Ready(dump))
    BY DEF CatchInv, Waits
  <1>3. Plain(dump) /\ (handlers = <<>> => Uncatches(dump) = {})
    BY <1>2, NoHandlers DEF Standing
  <1> QED
    BY <1>1, <1>2, <1>3

LEMMA EvalValueCatch == ASSUME TypeOK, CatchInv, EvalValue PROVE CatchInv'
  <1>1. op = "EVAL" /\ Return(dump) /\ handlers' = handlers /\ file_i' = file_i
    BY DEF EvalValue, files
  <1> QED
    BY <1>1, CatchNow, ReturnCatch

LEMMA EvalErrorCatch == ASSUME TypeOK, CatchInv, EvalError PROVE CatchInv'
  <1> DEFINE f == Frame("REST", "none")
             d == <<f>> \o dump
  <1>1. op = "EVAL" /\ Fail(d) /\ file_i' = file_i
    BY DEF EvalError, files
  <1>2. f \in Frames /\ f.op = "REST"
    BY FrameFacts, StackTypes
  <1>3. dump \in Seq(Frames) /\ Plain(dump) /\ (handlers = <<>> => Uncatches(dump) = {})
    BY <1>1, CatchNow
  <1> HIDE DEF f
  <1>4. d \in Seq(Frames) /\ Plain(d) /\ Uncatches(d) = Uncatches(dump)
    BY <1>2, <1>3, Pushed, PlainPushed, UncatchesPushed
  <1> HIDE DEF d
  <1> QED
    BY <1>1, <1>3, <1>4, FailCatch

LEMMA EvalReadCatch == ASSUME TypeOK, CatchInv, EvalRead PROVE CatchInv'
  <1> DEFINE d == <<ReadFrame>> \o dump
  <1>1. op = "EVAL" /\ file_i' = file_i
    BY DEF EvalRead, files
  <1>2. ReadFrame \in Frames /\ ReadFrame.op = "SET_INPORT"
    BY FrameFacts DEF ReadFrame, TypeOK, Frame
  <1>3. /\ dump \in Seq(Frames) /\ Plain(dump) /\ (handlers = <<>> => Uncatches(dump) = {})
        /\ handlers \in Seq(Seq(Frames)) /\ file_i \in Nat
        /\ Nested(handlers) /\ Standing("EVAL", dump, handlers, file_i)
    BY <1>1, CatchNow
  <1>4. /\ d \in Seq(Frames) /\ Plain(d) /\ Uncatches(d) = Uncatches(dump)
        /\ d # <<>> /\ Head(d) = ReadFrame /\ Tail(d) = dump
    BY <1>2, <1>3, Pushed, PlainPushed, UncatchesPushed
  <1>5. CASE Return(d) /\ UNCHANGED <<retcode, handlers>>
    <2>1. op' = "SET_INPORT" /\ dump' = dump /\ handlers' = handlers
      BY <1>2, <1>4, <1>5 DEF Return
    <2>2. Waits' = dump
      BY <2>1 DEF Waits
    <2>3. Standing("SET_INPORT", dump, handlers, file_i)
      BY <1>3 DEF Standing, Room
    <2> QED
      BY <1>1, <1>3, <2>1, <2>2, <2>3 DEF CatchInv
  <1> HIDE DEF d
  <1>6. CASE Fail(d)
    BY <1>1, <1>3, <1>4, <1>6, FailCatch
  <1> QED
    BY <1>5, <1>6 DEF EvalRead, d

LEMMA LoadPushed ==
  ASSUME NEW hs \in Seq(Seq(Frames)), Nested(hs), NEW d \in Seq(Frames), NEW i \in Nat,
         Standing("EVAL", d, hs, i), NEW f \in Frames, f.op = "REST"
  PROVE  Standing("T0LVL", <<f>> \o d, hs, i + 1)
  <1> DEFINE e == <<f>> \o d
  <1>1. e \in Seq(Frames) /\ Len(e) = Len(d) + 1 /\ Uncatches(e) = Uncatches(d)
    BY Pushed, UncatchesPushed
  <1>2. Plain(e) /\ Uncatches(d) = Caught(hs, 1)
    BY PlainPushed DEF Standing
  <1>3. ASSUME hs # <<>>
        PROVE  /\ Piled(e, Base(hs))
               /\ \E m \in 0..(i + 1) : Len(e) = Base(hs) + 3 * m + Room("T0LVL")
    <2>1. PICK b \in Nat : b = Base(hs)
      BY <1>3 DEF Nested
    <2>2. PICK m \in 0..i : Len(d) = b + 3 * m + 2
      BY <1>3, <2>1 DEF Standing, Room
    <2>3. Piled(d, b) /\ m \in Nat
      BY <1>3, <2>1 DEF Standing
    <2>4. Piled(e, b)
      BY <2>2, <2>3, PiledPushed
    <2>5. m + 1 \in 0..(i + 1) /\ Len(e) = b + 3 * (m + 1) + 0
      BY <1>1, <2>2, <2>3
    <2>6. Room("T0LVL") = 0
      BY DEF Room
    <2> QED
      BY <2>1, <2>4, <2>5, <2>6
  <1> HIDE DEF e
  <1>4. Standing("T0LVL", e, hs, i + 1)
    BY <1>1, <1>2, <1>3 DEF Standing
  <1> QED
    BY <1>4 DEF e

LEMMA LoadCatch ==
  ASSUME TypeOK, CatchInv, op = "EVAL", NEW n \in Names \cup {Missing, "none"},
         Load(n, LoadFrames(n) \o dump), handlers' = handlers \/ ~CanPush(n)
  PROVE  CatchInv'
  <1> DEFINE f == Frame("REST", n)
             d == <<f>> \o dump
  <1>1. LoadFrames(n) \o dump = d
    BY DEF LoadFrames
  <1>2. f \in Frames /\ f.op = "REST"
    BY FrameFacts, StackTypes
  <1>3. /\ dump \in Seq(Frames) /\ Plain(dump) /\ (handlers = <<>> => Uncatches(dump) = {})
        /\ handlers \in Seq(Seq(Frames)) /\ file_i \in Nat
        /\ Nested(handlers) /\ Standing("EVAL", dump, handlers, file_i)
    BY CatchNow
  <1> HIDE DEF f
  <1>4. /\ d \in Seq(Frames) /\ Plain(d) /\ Uncatches(d) = Uncatches(dump)
        /\ Standing("T0LVL", d, handlers, file_i + 1)
    BY <1>2, <1>3, Pushed, PlainPushed, UncatchesPushed, LoadPushed
  <1> HIDE DEF d
  <1>5. CASE CanPush(n) /\ file_push(n) /\ op' = "T0LVL" /\ dump' = d /\ handlers' = handlers
    <2>1. Waits' = d
      BY <1>5 DEF Waits
    <2>2. file_i' = file_i + 1
      BY <1>5 DEF file_push
    <2> QED
      BY <1>3, <1>4, <1>5, <2>1, <2>2 DEF CatchInv
  <1>6. CASE Fail(d) /\ UNCHANGED files
    <2>1. file_i' = file_i
      BY <1>6 DEF files
    <2> QED
      BY <1>3, <1>4, <1>6, <2>1, FailCatch
  <1> QED
    BY <1>1, <1>5, <1>6 DEF Load

LEMMA EvalLoadCatch == ASSUME TypeOK, CatchInv, EvalLoad PROVE CatchInv'
  <1>1. code.file \in Names \cup {Missing, "none"}
    BY Parts, ItemFacts DEF RestOK
  <1>2. op = "EVAL" /\ Load(code.file, LoadFrames(code.file) \o dump)
    BY DEF EvalLoad
  <1>3. handlers' = handlers \/ ~CanPush(code.file)
    BY <1>2 DEF Load
  <1> QED
    BY <1>1, <1>2, <1>3, LoadCatch

(* push-handler. *)
LEMMA NestedPushed ==
  ASSUME NEW hs \in Seq(Seq(Frames)), Nested(hs), NEW d \in Seq(Frames), NEW i \in Nat,
         Standing("EVAL", d, hs, i), Ready(d)
  PROVE  LET e == <<d>> \o hs
         IN  /\ Nested(e) /\ e \in Seq(Seq(Frames)) /\ e # <<>>
             /\ Caught(e, 1) = Caught(hs, 1) \cup {Len(d) + 1}
             /\ Base(e) \in Nat /\ Piled(d, Base(e))
             /\ \E m \in 0..i : Len(d) = Base(e) + 3 * m + 2
  <1> DEFINE e == <<d>> \o hs
  <1>1. /\ e \in Seq(Seq(Frames)) /\ Len(e) = Len(hs) + 1 /\ e[1] = d /\ e # <<>>
        /\ \A j \in 1..Len(hs) : e[j + 1] = hs[j]
    OBVIOUS
  <1>2. Len(hs) \in Nat /\ Len(d) \in Nat /\ \A j \in 1..Len(hs) : Len(hs[j]) \in Nat
    OBVIOUS
  <1> HIDE DEF e
  <1>3. \A j \in 1..Len(e) : j = 1 \/ \E k \in 1..Len(hs) : j = k + 1 /\ e[j] = hs[k]
    <2> SUFFICES ASSUME NEW j \in 1..Len(e), j # 1
                 PROVE  \E k \in 1..Len(hs) : j = k + 1 /\ e[j] = hs[k]
      OBVIOUS
    <2>1. j - 1 \in 1..Len(hs) /\ j = (j - 1) + 1
      BY <1>1, <1>2
    <2>2. e[(j - 1) + 1] = hs[j - 1]
      BY <1>1, <2>1
    <2> QED
      BY <2>1, <2>2
  <1>4. \A j \in Nat \ {0} : Caught(e, j + 1) = Caught(hs, j)
    <2> SUFFICES ASSUME NEW j \in Nat \ {0} PROVE Caught(e, j + 1) = Caught(hs, j)
      OBVIOUS
    <2>1. ASSUME NEW x, x \in Caught(e, j + 1) PROVE x \in Caught(hs, j)
      <3>1. PICK i1 \in (j + 1)..Len(e) : x = Len(e[i1]) + 1
        BY <2>1 DEF Caught
      <3>2. PICK k \in 1..Len(hs) : i1 = k + 1 /\ e[i1] = hs[k]
        BY <1>3
      <3>3. k \in j..Len(hs)
        BY <3>2
      <3> QED
        BY <3>1, <3>2, <3>3 DEF Caught
    <2>2. ASSUME NEW x, x \in Caught(hs, j) PROVE x \in Caught(e, j + 1)
      <3>1. PICK k \in j..Len(hs) : x = Len(hs[k]) + 1
        BY <2>2 DEF Caught
      <3>2. k + 1 \in (j + 1)..Len(e) /\ e[k + 1] = hs[k]
        BY <1>1, <1>2
      <3> QED
        BY <3>1, <3>2 DEF Caught
    <2> QED
      BY <2>1, <2>2
  <1>5. Caught(e, 1) = Caught(e, 2) \cup {Len(d) + 1}
    <2>1. 1..Len(e) = {1} \cup (2..Len(e))
      BY <1>1, <1>2
    <2> QED
      BY <1>1, <2>1 DEF Caught
  <1>6. Uncatches(d) = Caught(hs, 1) /\ Plain(d)
    BY DEF Standing
  <1>7. Caught(e, 2) = Caught(hs, 1)
    BY <1>4
  <1>8. \A j \in 1..Len(e) : Uncatches(e[j]) = Caught(e, j + 1) /\ Plain(e[j])
    <2> SUFFICES ASSUME NEW j \in 1..Len(e)
                 PROVE  Uncatches(e[j]) = Caught(e, j + 1) /\ Plain(e[j])
      OBVIOUS
    <2>1. CASE j = 1
      BY <1>1, <1>6, <1>7, <2>1
    <2>2. CASE j # 1
      <3>1. PICK k \in 1..Len(hs) : j = k + 1 /\ e[j] = hs[k]
        BY <1>3, <2>2
      <3>2. Uncatches(hs[k]) = Caught(hs, k + 1) /\ Plain(hs[k])
        BY DEF Nested
      <3>3. Caught(e, (k + 1) + 1) = Caught(hs, k + 1)
        BY <1>4
      <3> QED
        BY <3>1, <3>2, <3>3
    <2> QED
      BY <2>1, <2>2
  <1>9. \A k \in 1..Len(hs) : Len(d) > Len(hs[k])
    <2> SUFFICES ASSUME NEW k \in 1..Len(hs) PROVE Len(d) > Len(hs[k])
      OBVIOUS
    <2>1. hs # <<>> /\ 1 <= Len(hs)
      BY <1>2
    <2>2. Len(hs[k]) + 1 <= Len(d)
      BY <1>6, <2>1, BelowTheStack
    <2> QED
      BY <1>2, <2>2
  <1>10. ASSUME NEW j \in 1..Len(e), NEW l \in 1..Len(e), j < l
         PROVE  Len(e[j]) > Len(e[l])
    <2>1. PICK k \in 1..Len(hs) : l = k + 1 /\ e[l] = hs[k]
      BY <1>3, <1>10
    <2>2. CASE j = 1
      BY <1>1, <1>9, <2>1, <2>2
    <2>3. CASE j # 1
      <3>1. PICK i1 \in 1..Len(hs) : j = i1 + 1 /\ e[j] = hs[i1]
        BY <1>3, <2>3
      <3>2. i1 < k
        BY <1>10, <2>1, <3>1
      <3> QED
        BY <2>1, <3>1, <3>2 DEF Nested
    <2> QED
      BY <2>2, <2>3
  <1>11. /\ Base(e) \in Nat /\ Piled(d, Base(e))
         /\ \E m \in 0..i : Len(d) = Base(e) + 3 * m + 2
         /\ hs # <<>> => Base(e) = Base(hs)
    <2>1. CASE hs = <<>>
      <3>1. Len(e) = 1 /\ Base(e) = Len(d) - 2
        BY <1>1, <2>1 DEF Base
      <3>2. PICK b \in Nat : Len(d) = b + 2 /\ Base(e) = b
        <4>1. Len(d) - 2 \in Nat /\ Len(d) = (Len(d) - 2) + 2
          BY <1>2 DEF Ready
        <4> QED
          BY <3>1, <4>1
      <3>3. /\ Bottom(d, b + 2).op = "VALUEPRINT" /\ Bottom(d, b + 1).op = "T0LVL"
        <4>1. Len(d) - 1 = b + 1
          BY <3>2
        <4> QED
          BY <3>2, <4>1 DEF Ready
      <3>4. Piled(d, b)
        <4> SUFFICES ASSUME NEW k \in Nat
              PROVE  /\ b + 3 * k + 1 <= Len(d) => Bottom(d, b + 3 * k + 1).op = "T0LVL"
                     /\ b + 3 * k + 2 <= Len(d) => Bottom(d, b + 3 * k + 2).op = "VALUEPRINT"
                     /\ b + 3 * k + 3 <= Len(d) => Bottom(d, b + 3 * k + 3).op \in {"REST", "UNCATCH"}
          BY DEF Piled
        <4>1. CASE k = 0
          BY <3>2, <3>3, <4>1
        <4>2. CASE k # 0
          BY <3>2, <4>2
        <4> QED
          BY <4>1, <4>2
      <3>5. 0 \in 0..i /\ Len(d) = b + 3 * 0 + 2
        BY <3>2
      <3> QED
        BY <2>1, <3>2, <3>4, <3>5
    <2>2. CASE hs # <<>>
      <3>1. e[Len(e)] = hs[Len(hs)]
        <4>1. Len(hs) \in 1..Len(hs)
          BY <1>2, <2>2
        <4> QED
          BY <1>1, <4>1
      <3>2. Base(e) = Base(hs)
        BY <3>1 DEF Base
      <3> QED
        BY <2>2, <3>2 DEF Nested, Standing, Room
    <2> QED
      BY <2>1, <2>2
  <1>12. ASSUME NEW j \in 1..Len(e)
         PROVE  Piled(e[j], Base(e)) /\ \E m \in Nat : Len(e[j]) = Base(e) + 3 * m + 2
    <2>1. CASE j = 1
      <3>1. PICK m \in 0..i : Len(d) = Base(e) + 3 * m + 2
        BY <1>11
      <3> QED
        BY <1>1, <1>11, <2>1, <3>1
    <2>2. CASE j # 1
      <3>1. PICK k \in 1..Len(hs) : j = k + 1 /\ e[j] = hs[k]
        BY <1>3, <2>2
      <3>2. hs # <<>>
        BY <1>2
      <3> QED
        BY <1>11, <3>1, <3>2 DEF Nested
    <2> QED
      BY <2>1, <2>2
  <1>13. Nested(e)
    BY <1>8, <1>10, <1>11, <1>12 DEF Nested
  <1> QED
    BY <1>1, <1>5, <1>7, <1>11, <1>13 DEF e

LEMMA EvalCatchCatch == ASSUME TypeOK, CatchInv, EvalCatch PROVE CatchInv'
  <1> DEFINE f == Frame("UNCATCH", code.file)
             d == <<f>> \o dump
             hs == <<dump>> \o handlers
  <1>1. op = "EVAL" /\ code.file \in Names \cup {Missing, "none"}
    BY Parts, ItemFacts DEF RestOK, EvalCatch
  <1>2. f \in Frames /\ f.op = "UNCATCH"
    BY <1>1, FrameFacts, StackTypes
  <1>3. /\ dump \in Seq(Frames) /\ Plain(dump) /\ Ready(dump)
        /\ handlers \in Seq(Seq(Frames)) /\ file_i \in Nat
        /\ Nested(handlers) /\ Standing("EVAL", dump, handlers, file_i)
    BY <1>1, CatchNow
  <1>4. CASE /\ file_push(code.file) /\ handlers' = hs
             /\ op' = "T0LVL" /\ dump' = d
    <2>1. /\ Nested(hs) /\ hs # <<>>
          /\ Caught(hs, 1) = Caught(handlers, 1) \cup {Len(dump) + 1}
          /\ Base(hs) \in Nat /\ Piled(dump, Base(hs))
          /\ \E m \in 0..file_i : Len(dump) = Base(hs) + 3 * m + 2
      BY <1>3, NestedPushed
    <2>2. Waits' = d /\ file_i' = file_i + 1
      BY <1>4 DEF Waits, file_push
    <2>3. Uncatches(dump) = Caught(handlers, 1)
      BY <1>3 DEF Standing
    <2> HIDE DEF hs, f
    <2>4. /\ d \in Seq(Frames) /\ Plain(d) /\ Len(d) = Len(dump) + 1
          /\ Uncatches(d) = Uncatches(dump) \cup {Len(dump) + 1}
      BY <1>2, <1>3, Pushed, PlainPushed, UncatchesPushed
    <2>5. PICK b \in Nat : b = Base(hs)
      BY <2>1
    <2>6. PICK m \in 0..file_i : Len(dump) = b + 3 * m + 2
      BY <2>1, <2>5
    <2>7. Piled(d, b)
      <3>1. m \in Nat
        BY <1>3
      <3> QED
        BY <1>2, <1>3, <2>1, <2>5, <2>6, <3>1, PiledPushed
    <2>8. m + 1 \in 0..(file_i + 1) /\ Len(d) = b + 3 * (m + 1) + 0
      BY <1>3, <2>4, <2>6
    <2>9. Room("T0LVL") = 0
      BY DEF Room
    <2> HIDE DEF d
    <2>10. Standing("T0LVL", d, hs, file_i + 1)
      BY <2>1, <2>3, <2>4, <2>5, <2>7, <2>8, <2>9 DEF Standing
    <2> QED
      BY <1>4, <2>1, <2>2, <2>10 DEF CatchInv
  <1>5. CASE Return(dump) /\ UNCHANGED <<files, handlers>>
    <2>1. file_i' = file_i /\ handlers' = handlers
      BY <1>5 DEF files
    <2> QED
      BY <1>3, <1>5, <2>1, ReturnCatch
  <1> QED
    BY <1>4, <1>5 DEF EvalCatch

LEMMA SetInportCatch == ASSUME TypeOK, CatchInv, SetInport PROVE CatchInv'
  <1>1. op = "SET_INPORT" /\ file_i' = file_i
    BY DEF SetInport, files
  <1>2. CASE Unmatched(dump)
    BY <1>1, <1>2, UnmatchedCatch
  <1>3. CASE Return(dump) /\ UNCHANGED <<nesting, retcode, handlers, owed>>
    BY <1>1, <1>3, CatchNow, ReturnCatch
  <1> QED
    BY <1>2, <1>3 DEF SetInport

LEMMA RestCatch == ASSUME TypeOK, CatchInv, Rest PROVE CatchInv'
  <1>1. op = "REST" /\ file_i' = file_i
    BY DEF Rest, files
  <1>2. CASE Unmatched(dump)
    BY <1>1, <1>2, UnmatchedCatch
  <1>3. CASE Return(dump) /\ UNCHANGED <<nesting, retcode, handlers, owed>>
    BY <1>1, <1>3, CatchNow, ReturnCatch
  <1> QED
    BY <1>2, <1>3 DEF Rest

LEMMA ValuePrintCatch == ASSUME TypeOK, CatchInv, ValuePrint PROVE CatchInv'
  <1>1. op = "VALUEPRINT" /\ file_i' = file_i
    BY DEF ValuePrint, files
  <1>2. CASE Unmatched(dump)
    BY <1>1, <1>2, UnmatchedCatch
  <1>3. CASE Return(dump) /\ UNCHANGED <<nesting, retcode, handlers, owed>>
    BY <1>1, <1>3, CatchNow, ReturnCatch
  <1> QED
    BY <1>2, <1>3 DEF ValuePrint

LEMMA UncatchCatch == ASSUME TypeOK, CatchInv, Uncatch PROVE CatchInv'
  <1>1. op = "UNCATCH" /\ file_i' = file_i
    BY DEF Uncatch, files
  <1>2. /\ dump \in Seq(Frames) /\ handlers \in Seq(Seq(Frames)) /\ file_i \in Nat
        /\ Nested(handlers) /\ Standing("UNCATCH", dump, handlers, file_i)
    BY <1>1, CatchNow
  <1>3. handlers # <<>>
    BY <1>2 DEF Standing
  <1>4. handlers' = Tail(handlers) /\ Return(dump)
    BY <1>3 DEF Uncatch
  <1>5. /\ Nested(Tail(handlers)) /\ Tail(handlers) \in Seq(Seq(Frames))
        /\ Tail(handlers) # <<>> => Base(Tail(handlers)) = Base(handlers)
        /\ Caught(Tail(handlers), 1) = Caught(handlers, 2)
    BY <1>2, <1>3, NestedPopped
  <1>6. Standing("REST", dump, Tail(handlers), file_i)
    BY <1>2, <1>3, <1>5 DEF Standing, Room
  <1> QED
    BY <1>1, <1>2, <1>4, <1>5, <1>6, ReturnCatch

LEMMA StutterCatch == ASSUME CatchInv, UNCHANGED vars PROVE CatchInv'
  <1>1. Waits' = Waits
    BY DEF Waits, vars
  <1> QED
    BY <1>1 DEF CatchInv, vars

(* As long as no catch was skipped, every catch on the stack has its       *)
(* handler and the other way round, and loads that may end in a catch have *)
(* their files below them, on every way through loads, errors, returns and *)
(* jumps.  A continuation was made above the frames of OP_T0LVL.           *)
KeptInv == \A k \in kept : Ready(k) /\ Plain(k)
PairsInv == ~skipped => CatchInv /\ KeptInv

LEMMA EvalKeepPairs == ASSUME TypeOK, CatchInv, KeptInv, EvalKeep PROVE CatchInv' /\ KeptInv'
  <1>1. /\ op = "EVAL" /\ Return(dump) /\ handlers' = handlers /\ file_i' = file_i
        /\ kept' = kept \cup {dump}
    BY DEF EvalKeep, files
  <1>2. CatchInv'
    BY <1>1, CatchNow, ReturnCatch
  <1>3. Ready(dump) /\ Plain(dump)
    BY <1>1, CatchNow
  <1> QED
    BY <1>1, <1>2, <1>3 DEF KeptInv

(* The end k of a stack d with all its catches is as long as d but for     *)
(* whole rounds of three frames.                                           *)
LEMMA SuffixStanding ==
  ASSUME NEW hs \in Seq(Seq(Frames)), Nested(hs), NEW d \in Seq(Frames), NEW i \in Nat,
         Standing("EVAL", d, hs, i), NEW k \in Seq(Frames), Ready(k),
         NEW n \in 0..Len(d), k = SubSeq(d, n + 1, Len(d)), \A j \in Catches(d) : j > n
  PROVE  Standing("EVAL", k, hs, i)
  <1>1. Len(d) \in Nat /\ Len(k) = Len(d) - n /\ \A j \in 1..Len(k) : k[j] = d[j + n]
    OBVIOUS
  <1>2. \A q \in 1..Len(k) : q \in 1..Len(d) /\ Bottom(k, q) = Bottom(d, q)
    <2> SUFFICES ASSUME NEW q \in 1..Len(k) PROVE q \in 1..Len(d) /\ Bottom(k, q) = Bottom(d, q)
      OBVIOUS
    <2> DEFINE j == Len(k) - q + 1
    <2>1. j \in 1..Len(k) /\ j + n = Len(d) - q + 1 /\ q \in 1..Len(d)
      BY <1>1
    <2> HIDE DEF j
    <2>2. k[j] = d[j + n]
      BY <1>1, <2>1
    <2>3. Bottom(k, q) = k[j]
      BY DEF Bottom, j
    <2>4. Bottom(d, q) = d[j + n]
      BY <2>1 DEF Bottom
    <2> QED
      BY <2>1, <2>2, <2>3, <2>4
  <1>3. ASSUME NEW q \in 1..Len(d), Bottom(d, q).op = "UNCATCH" PROVE q \in 1..Len(k)
    <2>1. Len(d) - q + 1 \in 1..Len(d) /\ DOMAIN d = 1..Len(d)
      BY <1>1
    <2>2. Len(d) - q + 1 \in Catches(d)
      BY <1>3, <2>1 DEF Catches, Bottom
    <2> QED
      BY <1>1, <2>2
  <1>4. Uncatches(k) = Uncatches(d)
    BY <1>2, <1>3 DEF Uncatches
  <1>5. Plain(k) /\ Uncatches(k) = Caught(hs, 1)
    BY <1>2, <1>4 DEF Standing, Plain
  <1>6. ASSUME hs # <<>>
        PROVE  Piled(k, Base(hs)) /\ \E m \in 0..i : Len(k) = Base(hs) + 3 * m + Room("EVAL")
    <2>1. PICK b \in Nat : b = Base(hs)
      BY <1>6 DEF Nested
    <2>2. PICK m \in 0..i : Len(d) = b + 3 * m + 2
      BY <1>6, <2>1 DEF Standing, Room
    <2>3. Piled(d, b)
      BY <1>6, <2>1 DEF Standing
    <2>4. Piled(k, b)
      <3> SUFFICES ASSUME NEW r \in Nat
                   PROVE  /\ b + 3 * r + 1 <= Len(k) => Bottom(k, b + 3 * r + 1).op = "T0LVL"
                          /\ b + 3 * r + 2 <= Len(k) => Bottom(k, b + 3 * r + 2).op = "VALUEPRINT"
                          /\ b + 3 * r + 3 <= Len(k) =>
                               Bottom(k, b + 3 * r + 3).op \in {"REST", "UNCATCH"}
        BY DEF Piled
      <3>1. \A c \in {1, 2, 3} : b + 3 * r + c <= Len(k) =>
              /\ b + 3 * r + c <= Len(d)
              /\ Bottom(k, b + 3 * r + c) = Bottom(d, b + 3 * r + c)
        <4> SUFFICES ASSUME NEW c \in {1, 2, 3}, b + 3 * r + c <= Len(k)
                     PROVE  /\ b + 3 * r + c <= Len(d)
                            /\ Bottom(k, b + 3 * r + c) = Bottom(d, b + 3 * r + c)
          OBVIOUS
        <4>1. b + 3 * r + c \in 1..Len(k)
          BY <1>1
        <4> QED
          BY <1>1, <1>2, <4>1
      <3> QED
        BY <2>3, <3>1 DEF Piled
    <2>5. Len(hs) \in 1..Len(hs) /\ 1 <= Len(hs)
      BY <1>6
    <2>6. Len(hs[Len(hs)]) \in Nat /\ Len(hs[Len(hs)]) + 1 <= Len(k)
      BY <1>5, <1>6, <2>5, BelowTheStack
    <2>7. b + 3 <= Len(k)
      BY <2>1, <2>6 DEF Base
    <2>8. PICK l \in Nat : Len(k) = b + l /\ l >= 3
      <3>1. Len(k) - b \in Nat /\ Len(k) = b + (Len(k) - b) /\ Len(k) - b >= 3
        BY <1>1, <2>7
      <3> QED
        BY <3>1
    <2>9. PICK r \in Nat : l = 3 * r + 1 \/ l = 3 * r + 2 \/ l = 3 * r + 3
      <3>1. \A x \in Nat : x >= 3 => \E r \in Nat : x = 3 * r + 1 \/ x = 3 * r + 2 \/ x = 3 * r + 3
        <4> SUFFICES ASSUME NEW x \in Nat, x >= 3
                     PROVE  \E r \in Nat : x = 3 * r + 1 \/ x = 3 * r + 2 \/ x = 3 * r + 3
          OBVIOUS
        <4>1. (x - 1) \div 3 \in Nat
          OBVIOUS
        <4>2. LET r == (x - 1) \div 3 IN x = 3 * r + 1 \/ x = 3 * r + 2 \/ x = 3 * r + 3
          OBVIOUS
        <4> QED
          BY <4>1, <4>2
      <3> QED
        BY <2>8, <3>1
    <2>10. Bottom(k, Len(k)).op = "VALUEPRINT"
      BY DEF Ready
    <2>11. Len(k) = b + 3 * r + 2
      <3>1. CASE l = 3 * r + 1
        <4>1. Bottom(k, b + 3 * r + 1).op = "T0LVL" /\ Len(k) = b + 3 * r + 1
          BY <2>4, <2>8, <3>1 DEF Piled
        <4> QED
          BY <2>10, <4>1
      <3>2. CASE l = 3 * r + 3
        <4>1. Bottom(k, b + 3 * r + 3).op \in {"REST", "UNCATCH"} /\ Len(k) = b + 3 * r + 3
          BY <2>4, <2>8, <3>2 DEF Piled
        <4> QED
          BY <2>10, <4>1
      <3>3. CASE l = 3 * r + 2
        <4>1. Len(k) = b + (3 * r + 2)
          BY <2>8, <3>3
        <4> QED
          BY <4>1
      <3> QED
        BY <2>9, <3>1, <3>2, <3>3
    <2>12. r \in 0..i
      BY <1>1, <2>2, <2>11
    <2> QED
      BY <2>1, <2>4, <2>11, <2>12 DEF Room
  <1> QED
    BY <1>5, <1>6 DEF Standing

LEMMA JumpPairs ==
  ASSUME TypeOK, CatchInv, KeptInv, Jump, ~skipped' PROVE CatchInv' /\ KeptInv'
  <1>1. PICK k \in kept : Return(k) /\ skipped' = (skipped \/ ~SameCatches(dump, k))
    BY DEF Jump
  <1>2. op = "EVAL" /\ handlers' = handlers /\ file_i' = file_i /\ kept' = kept
    BY DEF Jump, files
  <1>3. k \in Seq(Frames) /\ Ready(k) /\ Plain(k)
    BY <1>1 DEF TypeOK, KeptInv
  <1>4. /\ dump \in Seq(Frames) /\ handlers \in Seq(Seq(Frames)) /\ file_i \in Nat
        /\ Nested(handlers) /\ Standing("EVAL", dump, handlers, file_i)
    BY <1>2, CatchNow
  <1>5. SameCatches(dump, k)
    BY <1>1
  <1>6. Standing("EVAL", k, handlers, file_i)
    <2>1. CASE Catches(dump) = {} /\ Catches(k) = {}
      <3>1. \A d \in Seq(Frames) : Catches(d) = {} => Uncatches(d) = {}
        <4> SUFFICES ASSUME NEW d \in Seq(Frames), NEW q \in Uncatches(d)
                     PROVE  Catches(d) # {}
          OBVIOUS
        <4>1. Len(d) - q + 1 \in DOMAIN d
          BY DEF Uncatches
        <4> QED
          BY <4>1 DEF Uncatches, Bottom, Catches
      <3>2. handlers = <<>>
        <4> SUFFICES ASSUME handlers # <<>> PROVE FALSE
          OBVIOUS
        <4>1. 1 \in 1..Len(handlers)
          BY <1>4
        <4>2. Len(handlers[1]) + 1 \in Caught(handlers, 1)
          BY <4>1 DEF Caught
        <4> QED
          BY <1>4, <2>1, <3>1, <4>2 DEF Standing
      <3> QED
        BY <1>3, <2>1, <3>1, <3>2, NoHandlers DEF Standing
    <2>2. CASE \E n \in 0..Len(dump) :
                 k = SubSeq(dump, n + 1, Len(dump)) /\ \A i \in Catches(dump) : i > n
      BY <1>3, <1>4, <2>2, SuffixStanding
    <2> QED
      BY <1>5, <2>1, <2>2 DEF SameCatches
  <1> QED
    BY <1>1, <1>2, <1>3, <1>4, <1>6, ReturnCatch DEF KeptInv

LEMMA PairsAlways == Spec => []PairsInv
  <1>1. ASSUME TypeOK, PairsInv, [Next]_vars PROVE PairsInv'
    <2> SUFFICES ASSUME ~skipped' PROVE CatchInv' /\ KeptInv'
      BY DEF PairsInv
    <2>1. CASE EvalKeep \/ Jump \/ EvalEscape
      <3>1. ~EvalEscape
        BY DEF EvalEscape
      <3>2. CatchInv /\ KeptInv
        BY <1>1, <2>1, <3>1 DEF PairsInv, EvalKeep, Jump
      <3> QED
        BY <1>1, <2>1, <3>1, <3>2, EvalKeepPairs, JumpPairs
    <2>2. CASE ~(EvalKeep \/ Jump \/ EvalEscape)
      <3>1. skipped' = skipped /\ kept' = kept
        BY <1>1, <2>2
        DEF Next, StartFile, EndOfFile, TopLevel, Read, TopLevel1, EvalValue, EvalError, EvalRead,
            EvalLoad, EvalCatch, SetInport, Rest, Uncatch, ValuePrint, vars, fixed, own
      <3>2. CatchInv /\ KeptInv
        BY <1>1, <3>1 DEF PairsInv
      <3>3. CatchInv'
        BY <1>1, <2>2, <3>2,
           StartFileCatch, EndOfFileCatch, TopLevelCatch, ReadCatch, TopLevel1Catch,
           EvalValueCatch, EvalErrorCatch, EvalReadCatch, EvalLoadCatch, EvalCatchCatch,
           SetInportCatch, RestCatch, UncatchCatch, ValuePrintCatch, StutterCatch
        DEF Next
      <3> QED
        BY <3>1, <3>2, <3>3 DEF KeptInv
    <2> QED
      BY <2>1, <2>2
  <1>2. Init => PairsInv
    BY InitCatch DEF PairsInv, KeptInv, Init
  <1> QED
    BY <1>1, <1>2, TypeCorrect, PTL DEF Spec

(* With no file pushed there is no handler, but for the one to be popped. *)
LEMMA HandlersNow ==
  ASSUME TypeOK, CatchInv
  PROVE  /\ op = "main" => handlers = <<>>
         /\ file_i = 0 /\ op # "UNCATCH" => handlers = <<>>
         /\ op = "UNCATCH" => handlers # <<>>
  <1>1. dump \in Seq(Frames) /\ handlers \in Seq(Seq(Frames))
    BY StackTypes
  <1>2. Waits \in Seq(Frames)
    BY <1>1, Popped DEF Waits, CatchInv
  <1>3. Nested(handlers) /\ Standing(op, Waits, handlers, file_i)
    BY DEF CatchInv
  <1> QED
    BY <1>1, <1>2, <1>3, HandlersNeedFiles DEF CatchInv, Standing

(* At the prompt no catch is active, as long as the program has not left a *)
(* catch, nor come back into one, by a continuation that it kept: for any  *)
(* files, sessions, errors and other jumps.                                *)
THEOREM CatchesAlwaysLeft == Spec => []CatchesLeft
  <1>1. TypeOK /\ PairsInv => CatchesLeft
    BY HandlersNow DEF CatchesLeft, NoneActive, PairsInv, file_interactive
  <1> QED
    BY TypeCorrect, PairsAlways, <1>1, PTL
-----------------------------------------------------------------------------
(* Programs whose files do not fail (Orderly): the stack holds the frames  *)
(* of the files pushed, each with what loaded it, and nothing else.        *)
Backed(o, d, i, ls) ==
  /\ Piled(d, 0) /\ Len(d) = 3 * i + Room(o)
  /\ \A k \in 1..i : Bottom(d, 3 * k).arg = ls[k].file

AtStdin == load_stack[0].file = Stdin
Leaf(k) == k >= 2 \/ ~AtStdin

(* The files that are open. *)
Stacked ==
  /\ \A k \in 1..file_i : load_stack[k].file \in Names
  /\ ~interactive_repl => load_stack[0].file \in Names
  /\ interactive_repl =>
       /\ \A k \in 1..file_i : nesting_stack[k] = 0 \/ Does(load_stack[k].file, {"open"})
       /\ \A k \in 1..file_i : Leaf(k) => ~Does(load_stack[k].file, {"load", "open"})
       /\ file_i <= 2 /\ (~AtStdin => file_i <= 1)

(* After an error the stack keeps what was given up, until OP_T0LVL clears *)
(* it for the user.                                                        *)
Prompting == op = "T0LVL" /\ file_i = 0 /\ AtStdin

(* The expression is one of the file that is read. *)
Present ==
  \/ code = Nothing
  \/ \E k \in DOMAIN contents[load_stack[file_i].file] :
       contents[load_stack[file_i].file][k] = code /\ code.op # "open"

Waking == op \in {"REST", "UNCATCH", "VALUEPRINT"} /\ nesting # 0

OwedHere ==
  AtStdin /\ owed = 1 => \/ file_i >= 1 /\ nesting_stack[1] # 0
                         \/ file_i = 0 /\ Waking

Running ==
  /\ Backed(op, Waits, file_i, load_stack) \/ Prompting
  /\ op # "SET_INPORT" => inport = "load"
  /\ op \in {"READ", "T1LVL", "EVAL", "SET_INPORT"} => nesting = 0
  /\ op \in {"T1LVL", "EVAL"} => Present
  /\ ~interactive_repl => handlers = <<>>
  /\ interactive_repl /\ Waking => file_i = 0 /\ AtStdin
  /\ Stacked
  /\ OwedHere

Order ==
  /\ save_inport = "load"
  /\ op = "SET_INPORT" => args = "load"
  /\ ReadToTheEnd
  /\ op # "main" => Running

OrderInv == Orderly => Order

LEMMA BackedPushed ==
  ASSUME NEW d \in Seq(Frames), NEW i \in Nat, NEW ls, NEW ls2, Backed("EVAL", d, i, ls),
         NEW f \in Frames, f.op \in {"REST", "UNCATCH"}, f.arg = ls2[i + 1].file,
         \A k \in 1..i : ls2[k] = ls[k]
  PROVE  Backed("T0LVL", <<f>> \o d, i + 1, ls2)
  <1> DEFINE e == <<f>> \o d
  <1>1. /\ e \in Seq(Frames) /\ Len(e) = Len(d) + 1
        /\ Bottom(e, Len(d) + 1) = f
        /\ \A q \in 1..Len(d) : Bottom(e, q) = Bottom(d, q)
    BY Pushed
  <1>2. Len(d) = 3 * i + 2 /\ Piled(d, 0)
    BY DEF Backed, Room
  <1>3. Piled(e, 0)
    <2>1. Len(d) = 0 + 3 * i + 2
      BY <1>2
    <2> QED
      BY <1>2, <2>1, PiledPushed
  <1> HIDE DEF e
  <1>4. Len(e) = 3 * (i + 1) + Room("T0LVL")
    BY <1>1, <1>2 DEF Room
  <1>5. ASSUME NEW k \in 1..(i + 1) PROVE Bottom(e, 3 * k).arg = ls2[k].file
    <2>1. CASE k = i + 1
      <3>1. 3 * k = Len(d) + 1
        BY <1>2, <2>1
      <3> QED
        BY <1>1, <2>1, <3>1
    <2>2. CASE k # i + 1
      <3>1. k \in 1..i /\ 3 * k \in 1..Len(d)
        BY <1>2, <2>2
      <3>2. Bottom(d, 3 * k).arg = ls[k].file
        BY <3>1 DEF Backed
      <3> QED
        BY <1>1, <3>1, <3>2
    <2> QED
      BY <2>1, <2>2
  <1>6. Backed("T0LVL", e, i + 1, ls2)
    BY <1>3, <1>4, <1>5 DEF Backed
  <1> QED
    BY <1>6 DEF e

LEMMA BackedPopped ==
  ASSUME NEW d \in Seq(Frames), NEW i \in Nat, NEW ls,
         NEW o \in {"EVAL", "SET_INPORT", "REST", "UNCATCH", "VALUEPRINT"}, Backed(o, d, i, ls)
  PROVE  /\ d # <<>>
         /\ Head(d).op = IF o = "VALUEPRINT" THEN "T0LVL" ELSE "VALUEPRINT"
         /\ Backed(Head(d).op, Tail(d), i, ls)
  <1>1. Len(d) = 3 * i + Room(o) /\ Piled(d, 0)
    BY DEF Backed
  <1>2. Room(o) = IF o = "VALUEPRINT" THEN 1 ELSE 2
    BY DEF Room
  <1>3. d # <<>>
    BY <1>1, <1>2
  <1>4. /\ Tail(d) \in Seq(Frames) /\ Len(Tail(d)) = Len(d) - 1
        /\ Len(d) \in Nat \ {0} /\ Head(d) \in Frames
        /\ \A q \in 1..(Len(d) - 1) : Bottom(Tail(d), q) = Bottom(d, q)
    BY <1>3, Popped
  <1>5. /\ Piled(Tail(d), 0)
        /\ Len(d) = 0 + 3 * i + 1 => Head(d).op = "T0LVL"
        /\ Len(d) = 0 + 3 * i + 2 => Head(d).op = "VALUEPRINT"
    BY <1>1, <1>3, PiledPopped
  <1>6. Head(d).op = IF o = "VALUEPRINT" THEN "T0LVL" ELSE "VALUEPRINT"
    BY <1>1, <1>2, <1>5
  <1>7. Len(Tail(d)) = 3 * i + Room(Head(d).op)
    <2>1. Room(Head(d).op) = IF o = "VALUEPRINT" THEN 0 ELSE 1
      BY <1>6 DEF Room
    <2> QED
      BY <1>1, <1>2, <1>4, <2>1
  <1>8. ASSUME NEW k \in 1..i PROVE Bottom(Tail(d), 3 * k).arg = ls[k].file
    <2>1. 3 * k \in 1..(Len(d) - 1)
      BY <1>1, <1>2
    <2> QED
      BY <1>4, <2>1 DEF Backed
  <1> QED
    BY <1>3, <1>5, <1>6, <1>7, <1>8 DEF Backed

LEMMA BackedEnds ==
  ASSUME NEW d \in Seq(Frames), NEW i \in Nat \ {0}, NEW ls, Backed("T0LVL", d, i, ls)
  PROVE  /\ d # <<>>
         /\ Head(d).op \in {"REST", "UNCATCH"} /\ Head(d).arg = ls[i].file
         /\ Backed(Head(d).op, Tail(d), i - 1, ls)
  <1>1. Len(d) = 3 * i /\ Piled(d, 0)
    BY DEF Backed, Room
  <1>2. PICK n \in Nat : i = n + 1
    <2>1. i - 1 \in Nat /\ i = (i - 1) + 1
      OBVIOUS
    <2> QED
      BY <2>1
  <1>3. Len(d) = 0 + 3 * n + 3 /\ d # <<>>
    BY <1>1, <1>2
  <1>4. /\ Tail(d) \in Seq(Frames) /\ Len(Tail(d)) = Len(d) - 1
        /\ Bottom(d, Len(d)) = Head(d)
        /\ \A q \in 1..(Len(d) - 1) : Bottom(Tail(d), q) = Bottom(d, q)
    BY <1>3, Popped
  <1>5. Piled(Tail(d), 0) /\ Head(d).op \in {"REST", "UNCATCH"}
    BY <1>1, <1>3, PiledPopped
  <1>6. Head(d).arg = ls[i].file
    <2>1. Bottom(d, 3 * i).arg = ls[i].file
      BY DEF Backed
    <2> QED
      BY <1>1, <1>4, <2>1
  <1>7. Len(Tail(d)) = 3 * n + Room(Head(d).op)
    BY <1>3, <1>4, <1>5 DEF Room
  <1>8. ASSUME NEW k \in 1..n PROVE Bottom(Tail(d), 3 * k).arg = ls[k].file
    <2>1. 3 * k \in 1..(Len(d) - 1) /\ k \in 1..i
      BY <1>2, <1>3
    <2> QED
      BY <1>4, <2>1 DEF Backed
  <1>9. Backed(Head(d).op, Tail(d), n, ls) /\ n = i - 1
    BY <1>2, <1>5, <1>7, <1>8 DEF Backed
  <1> QED
    BY <1>3, <1>5, <1>6, <1>9

LEMMA SameStacked ==
  ASSUME UNCHANGED <<files, contents, interactive_repl>>
  PROVE  /\ Stacked => Stacked'
         /\ AtStdin' = AtStdin
         /\ Orderly' => Orderly
  <1>1. /\ load_stack' = load_stack /\ file_i' = file_i /\ nesting_stack' = nesting_stack
        /\ contents' = contents /\ interactive_repl' = interactive_repl
    BY DEF files
  <1> QED
    BY <1>1 DEF Stacked, AtStdin, Orderly, Does, Leaf

LEMMA StdinIsTyped ==
  ASSUME Stacked, AtStdin PROVE interactive_repl
  BY LoaderAssumption DEF Stacked, AtStdin

(* s_return from an opcode above the frames of OP_T0LVL. *)
LEMMA ReturnOrder ==
  ASSUME TypeOK, Order, op \in {"EVAL", "SET_INPORT", "REST", "UNCATCH", "VALUEPRINT"},
         Return(dump), UNCHANGED <<files, contents, interactive_repl, save_inport>>,
         inport' = "load", nesting' = nesting, owed' = owed,
         ~interactive_repl => handlers' = <<>>,
         op = "VALUEPRINT" /\ file_i = 0 /\ AtStdin => nesting = 0
  PROVE  Order'
  <1>1. /\ load_stack' = load_stack /\ file_i' = file_i /\ nesting_stack' = nesting_stack
        /\ contents' = contents /\ interactive_repl' = interactive_repl
        /\ save_inport' = save_inport
    BY DEF files
  <1>2. Running /\ op # "main" /\ ~Prompting /\ Waits = dump
    BY DEF Order, Prompting, Waits
  <1>3. Backed(op, dump, file_i, load_stack)
    BY <1>2 DEF Running
  <1>4. dump \in Seq(Frames) /\ file_i \in Nat
    BY StackTypes
  <1>5. /\ dump # <<>> /\ Head(dump).op = IF op = "VALUEPRINT" THEN "T0LVL" ELSE "VALUEPRINT"
        /\ Backed(Head(dump).op, Tail(dump), file_i, load_stack)
    BY <1>3, <1>4, BackedPopped
  <1>6. /\ op' = IF op = "VALUEPRINT" THEN "T0LVL" ELSE "VALUEPRINT"
        /\ dump' = Tail(dump) /\ op' = Head(dump).op
    BY <1>5 DEF Return
  <1>7. Waits' = dump'
    BY <1>6 DEF Waits
  <1>8. Backed(op', Waits', file_i', load_stack')
    BY <1>1, <1>5, <1>6, <1>7
  <1>9. Stacked' /\ AtStdin' = AtStdin
    BY <1>2, SameStacked DEF Running
  <1>10. Waking' => Waking
    <2>1. op \in {"EVAL", "SET_INPORT"} => nesting = 0
      BY <1>2 DEF Running
    <2> QED
      BY <1>6, <2>1 DEF Waking
  <1>11. interactive_repl' /\ Waking' => file_i' = 0 /\ AtStdin'
    BY <1>1, <1>2, <1>9, <1>10 DEF Running
  <1>12. OwedHere'
    <2> SUFFICES ASSUME AtStdin', owed' = 1
                 PROVE  \/ file_i' >= 1 /\ nesting_stack'[1] # 0
                        \/ file_i' = 0 /\ Waking'
      BY DEF OwedHere
    <2>1. \/ file_i >= 1 /\ nesting_stack[1] # 0
          \/ file_i = 0 /\ Waking
      BY <1>2, <1>9 DEF Running, OwedHere
    <2>2. file_i = 0 /\ Waking => Waking'
      BY <1>6, <1>9 DEF Waking
    <2> QED
      BY <1>1, <2>1, <2>2
  <1>13. Running'
    BY <1>1, <1>6, <1>8, <1>9, <1>11, <1>12 DEF Running
  <1> QED
    BY <1>1, <1>6, <1>13 DEF Order, ReadToTheEnd

(* The cycle ends. *)
LEMMA MainOrder ==
  ASSUME op' = "main", save_inport' = "load",
         load_stack'[0].eof \/ (~interactive_repl' /\ retcode' # 0)
  PROVE  Order'
  BY DEF Order, ReadToTheEnd

(* An error that the user is told of. *)
LEMMA PromptOrder ==
  ASSUME Order, op # "main", op' = "T0LVL", file_i = 0, AtStdin, inport = "load",
         UNCHANGED <<files, contents, interactive_repl, inport, save_inport>>,
         owed' # 1
  PROVE  Order'
  <1>1. Running
    BY DEF Order
  <1>2. Stacked' /\ AtStdin' /\ interactive_repl' /\ file_i' = 0
    BY <1>1, SameStacked, StdinIsTyped DEF Running, files
  <1>3. Prompting'
    BY <1>2 DEF Prompting, AtStdin
  <1>4. OwedHere' /\ ~Waking'
    BY DEF OwedHere, Waking
  <1>5. Running'
    BY <1>2, <1>3, <1>4 DEF Running
  <1> QED
    BY <1>5 DEF Order, ReadToTheEnd

LEMMA FailOrder ==
  ASSUME TypeOK, CatchInv, Order, op = "EVAL", NEW d, Fail(d),
         interactive_repl => file_i = 0 /\ AtStdin /\ inport' = inport,
         UNCHANGED <<files, contents, interactive_repl, save_inport, owed>>
  PROVE  Order'
  <1>1. Running /\ inport = "load"
    BY DEF Order, Running
  <1>2. handlers = <<>>
    BY <1>1, HandlersNow DEF Running
  <1>3. CASE ~interactive_repl
    <2>1. op' = "main" /\ retcode' = -1
      BY <1>2, <1>3 DEF Fail
    <2> QED
      BY <1>3, <2>1, MainOrder DEF Order
  <1>4. CASE interactive_repl
    <2>1. op' = "T0LVL"
      BY <1>2, <1>4 DEF Fail
    <2>2. owed # 1
      BY <1>1, <1>4 DEF Running, OwedHere, Waking
    <2> QED
      BY <1>1, <1>4, <2>1, <2>2, PromptOrder
  <1> QED
    BY <1>3, <1>4

LEMMA UnmatchedOrder ==
  ASSUME TypeOK, CatchInv, Order, op \in {"REST", "VALUEPRINT"}, Unmatched(dump),
         UNCHANGED <<files, contents, interactive_repl, save_inport, inport>>
  PROVE  Order'
  <1>1. Running /\ inport = "load" /\ nesting # 0 /\ retcode' = -1 /\ owed' = -1
    BY DEF Order, Running, Unmatched
  <1>2. interactive_repl => file_i = 0 /\ AtStdin
    BY <1>1 DEF Running, Waking
  <1>3. handlers = <<>>
    BY <1>1, <1>2, HandlersNow DEF Running
  <1>4. op' = IF interactive_repl THEN "T0LVL" ELSE "main"
    BY <1>3 DEF Unmatched
  <1>5. CASE ~interactive_repl
    BY <1>1, <1>4, <1>5, MainOrder DEF Order
  <1>6. CASE interactive_repl
    BY <1>1, <1>2, <1>4, <1>6, PromptOrder
  <1> QED
    BY <1>5, <1>6

LEMMA InitOrder == Init => OrderInv
  <1> SUFFICES ASSUME Init PROVE Order
    BY DEF OrderInv
  <1>1. 0 \in 0..(MAXFIL - 1)
    BY LoaderAssumption
  <1>2. load_stack[0] = [Opened(Stdin) EXCEPT !.eof = TRUE]
    BY <1>1 DEF Init
  <1>3. load_stack[0].eof
    BY <1>2 DEF Opened
  <1> QED
    BY <1>3 DEF Init, Order, ReadToTheEnd

LEMMA StartFileOrder == ASSUME TypeOK, CatchInv, OrderInv, StartFile PROVE OrderInv'
  <1> SUFFICES ASSUME Orderly' PROVE Order'
    BY DEF OrderInv
  <1>1. /\ op = "main" /\ op' = "T0LVL" /\ file_i' = 0 /\ dump' = <<>>
        /\ load_stack' = [load_stack EXCEPT ![0] = Opened(Head(session))]
        /\ interactive_repl' = (interactive_repl \/ Head(session) = Stdin)
        /\ inport' = "load" /\ owed' = -1 /\ contents' = contents
        /\ save_inport' = save_inport /\ handlers' = handlers
    BY DEF StartFile
  <1>2. interactive_repl \in BOOLEAN /\ Head(session) \in Names \cup {Stdin}
    <2>1. session # <<>>
      BY DEF StartFile
    <2> QED
      BY <2>1 DEF TypeOK
  <1>3. Orderly
    <2>1. CASE interactive_repl
      BY <1>1, <2>1 DEF Orderly, Does
    <2>2. CASE ~interactive_repl
      <3>1. \A n \in Names : ~Does(n, {"catch", "keep", "escape"})
        BY <1>1 DEF Orderly, Does
      <3> QED
        BY <2>2, <3>1 DEF Orderly
    <2> QED
      BY <2>1, <2>2
  <1>4. save_inport' = "load" /\ handlers' = <<>>
    BY <1>1, <1>3, HandlersNow DEF OrderInv, Order
  <1>5. load_stack'[0].file = Head(session)
    <2>1. 0 \in DOMAIN load_stack
      BY LoaderAssumption DEF TypeOK
    <2> QED
      BY <1>1, <2>1 DEF Opened
  <1>6. Stacked'
    <2>1. \A k : k \notin 1..file_i'
      BY <1>1
    <2>2. ~interactive_repl' => load_stack'[0].file \in Names
      BY <1>1, <1>2, <1>5
    <2>3. file_i' <= 2 /\ file_i' <= 1
      BY <1>1
    <2> QED
      BY <2>1, <2>2, <2>3 DEF Stacked
  <1>7. Waits' = <<>>
    BY <1>1 DEF Waits
  <1>8. Backed("T0LVL", <<>>, 0, load_stack')
    <2>1. Piled(<<>>, 0)
      BY DEF Piled
    <2> QED
      BY <2>1 DEF Backed, Room
  <1>9. ~Waking' /\ OwedHere'
    BY <1>1 DEF Waking, OwedHere
  <1>10. Running'
    BY <1>1, <1>4, <1>6, <1>7, <1>8, <1>9 DEF Running
  <1> QED
    BY <1>1, <1>4, <1>10 DEF Order, ReadToTheEnd

(* What OrderInv says before a step that leaves files and users alone. *)
LEMMA OrderNow ==
  ASSUME OrderInv, UNCHANGED fixed, Orderly', op # "main"
  PROVE  Orderly /\ Order /\ Running /\ save_inport = "load"
  <1>1. contents' = contents /\ interactive_repl' = interactive_repl
    BY DEF fixed
  <1>2. Orderly
    BY <1>1 DEF Orderly, Does
  <1> QED
    BY <1>2 DEF OrderInv, Order

LEMMA EndOfFileOrder == ASSUME TypeOK, CatchInv, OrderInv, EndOfFile PROVE OrderInv'
  <1> SUFFICES ASSUME Orderly' PROVE Order'
    BY DEF OrderInv
  <1>1. /\ op = "T0LVL" /\ load_stack[file_i].eof /\ UNCHANGED fixed
        /\ inport' = inport /\ save_inport' = save_inport /\ owed' = owed
        /\ handlers' = handlers
        /\ contents' = contents /\ interactive_repl' = interactive_repl
    BY DEF EndOfFile, input, fixed
  <1>2. Running /\ save_inport = "load" /\ Waits = dump
    BY <1>1, OrderNow DEF Waits
  <1>3. CASE file_i = 0 /\ op' = "main" /\ UNCHANGED files
    BY <1>1, <1>2, <1>3, MainOrder DEF files
  <1>4. CASE file_i > 0 /\ file_pop /\ Return(dump)
    <2>1. dump \in Seq(Frames) /\ file_i \in Nat \ {0}
      BY <1>4, StackTypes
    <2>2. /\ file_i' = file_i - 1 /\ load_stack' = load_stack
          /\ nesting' = nesting_stack[file_i] /\ nesting_stack' = nesting_stack
      BY <1>4 DEF file_pop
    <2>3. Backed("T0LVL", dump, file_i, load_stack)
      BY <1>1, <1>2, <2>1 DEF Running, Prompting
    <2>4. /\ dump # <<>> /\ Head(dump).op \in {"REST", "UNCATCH"}
          /\ Backed(Head(dump).op, Tail(dump), file_i - 1, load_stack)
      BY <2>1, <2>3, BackedEnds
    <2>5. op' = Head(dump).op /\ dump' = Tail(dump)
      BY <1>4, <2>4 DEF Return
    <2>6. Waits' = dump' /\ op' \in {"REST", "UNCATCH"}
      BY <2>4, <2>5 DEF Waits
    <2>7. Stacked /\ AtStdin' = AtStdin
      BY <1>2, <2>2 DEF Running, AtStdin
    <2>8. Stacked'
      BY <1>1, <2>1, <2>2, <2>7 DEF Stacked, AtStdin, Leaf, Does
    <2>9. ASSUME interactive_repl, nesting' # 0 PROVE file_i = 1 /\ AtStdin
      <3>1. file_i \in 1..file_i
        BY <2>1
      <3>2. Does(load_stack[file_i].file, {"open"})
        BY <2>2, <2>7, <2>9, <3>1 DEF Stacked
      <3>3. Does(load_stack[file_i].file, {"load", "open"})
        BY <3>2 DEF Does
      <3>4. ~Leaf(file_i)
        BY <2>7, <2>9, <3>1, <3>3 DEF Stacked
      <3> QED
        BY <2>1, <3>4 DEF Leaf
    <2>10. interactive_repl' /\ Waking' => file_i' = 0 /\ AtStdin'
      BY <1>1, <2>2, <2>7, <2>9 DEF Waking
    <2>11. OwedHere'
      <3> SUFFICES ASSUME AtStdin', owed' = 1
                   PROVE  \/ file_i' >= 1 /\ nesting_stack'[1] # 0
                          \/ file_i' = 0 /\ Waking'
        BY DEF OwedHere
      <3>1. file_i >= 1 /\ nesting_stack[1] # 0
        BY <1>1, <1>2, <2>1, <2>7 DEF Running, OwedHere
      <3>2. CASE file_i = 1
        BY <2>2, <2>6, <3>1, <3>2 DEF Waking
      <3>3. CASE file_i # 1
        BY <2>1, <2>2, <3>1, <3>3
      <3> QED
        BY <3>2, <3>3
    <2>12. Running'
      BY <1>1, <1>2, <2>2, <2>4, <2>5, <2>6, <2>8, <2>10, <2>11 DEF Running
    <2> QED
      BY <1>1, <1>2, <2>6, <2>12 DEF Order, ReadToTheEnd
  <1> QED
    BY <1>3, <1>4 DEF EndOfFile

LEMMA TopLevelOrder == ASSUME TypeOK, CatchInv, OrderInv, TopLevel PROVE OrderInv'
  <1> SUFFICES ASSUME Orderly' PROVE Order'
    BY DEF OrderInv
  <1> DEFINE v == Frame("VALUEPRINT", "none")
             t == Frame("T0LVL", "none")
             r == Frame("T1LVL", "none")
             e == <<v, t>> \o PromptStack
  <1>1. /\ op = "T0LVL" /\ op' = "READ" /\ nesting' = 0
        /\ save_inport' = inport /\ inport' = "load"
        /\ dump' = <<r, v, t>> \o PromptStack
        /\ UNCHANGED <<files, contents, interactive_repl>> /\ UNCHANGED fixed
        /\ handlers' = handlers /\ owed' = owed
    BY DEF TopLevel, fixed
  <1>2. /\ load_stack' = load_stack /\ file_i' = file_i /\ nesting_stack' = nesting_stack
        /\ interactive_repl' = interactive_repl
    BY <1>1 DEF files
  <1>3. Running /\ Waits = dump
    BY <1>1, OrderNow DEF Waits
  <1>4. inport = "load" /\ Stacked' /\ AtStdin' = AtStdin
    BY <1>1, <1>3, SameStacked DEF Running
  <1>5. dump \in Seq(Frames) /\ file_i \in Nat
    BY StackTypes
  <1>6. PromptStack \in Seq(Frames)
    BY <1>5 DEF PromptStack
  <1>7. r \in Frames /\ v \in Frames /\ t \in Frames
    BY FrameFacts
  <1>8. /\ e \in Seq(Frames) /\ Len(e) = Len(PromptStack) + 2
        /\ \A b, m \in Nat : Piled(PromptStack, b) /\ Len(PromptStack) = b + 3 * m => Piled(e, b)
        /\ \A q \in 1..Len(PromptStack) : Bottom(e, q) = Bottom(PromptStack, q)
    BY <1>6, ReadyPushed
  <1>9. dump' = <<r>> \o e
    BY ZenonT(60), <1>1, <1>6, <1>7, PushedThree
  <1>10. Tail(dump') = e
    BY <1>7, <1>8, <1>9, Pushed
  <1>11. Waits' = e
    BY <1>1, <1>10 DEF Waits
  <1> HIDE DEF e
  <1>12. Backed("T0LVL", PromptStack, file_i, load_stack)
    <2>1. CASE file_interactive
      <3>1. PromptStack = <<>> /\ file_i = 0
        BY <2>1 DEF PromptStack, file_interactive
      <3>2. Piled(<<>>, 0)
        BY DEF Piled
      <3> QED
        BY <3>1, <3>2 DEF Backed, Room
    <2>2. CASE ~file_interactive
      <3>1. PromptStack = dump /\ ~Prompting
        BY <1>4, <2>2 DEF PromptStack, file_interactive, Prompting, AtStdin
      <3> QED
        BY <1>1, <1>3, <3>1 DEF Running
    <2> QED
      BY <2>1, <2>2
  <1>13. Backed("READ", e, file_i, load_stack)
    <2>0. Room("T0LVL") = 0
      BY DEF Room
    <2>1. Piled(PromptStack, 0) /\ Len(PromptStack) = 3 * file_i
      BY <1>5, <1>12, <2>0 DEF Backed
    <2>2. Len(PromptStack) = 0 + 3 * file_i
      BY <1>5, <2>1
    <2>3. Piled(e, 0)
      BY <1>5, <1>8, <2>1, <2>2
    <2>4. Len(e) = 3 * file_i + Room("READ")
      BY <1>8, <2>1 DEF Room
    <2>5. ASSUME NEW k \in 1..file_i PROVE Bottom(e, 3 * k).arg = load_stack[k].file
      <3>1. 3 * k \in 1..Len(PromptStack)
        BY <1>5, <2>1
      <3> QED
        BY <1>8, <1>12, <3>1 DEF Backed
    <2> QED
      BY <2>3, <2>4, <2>5 DEF Backed
  <1>14. OwedHere' /\ ~Waking'
    BY <1>1, <1>2, <1>3, <1>4 DEF Running, OwedHere, Waking
  <1>15. Running'
    BY <1>1, <1>2, <1>3, <1>4, <1>11, <1>13, <1>14 DEF Running
  <1> QED
    BY <1>1, <1>4, <1>15 DEF Order, ReadToTheEnd

LEMMA ReadOrder == ASSUME TypeOK, CatchInv, OrderInv, Read PROVE OrderInv'
  <1> SUFFICES ASSUME Orderly' PROVE Order'
    BY DEF OrderInv
  <1> DEFINE f == load_stack[file_i].file
             p == load_stack[file_i].pos
  <1>1. /\ op = "READ" /\ Return(dump) /\ UNCHANGED fixed
        /\ file_i' = file_i /\ nesting' = nesting /\ handlers' = handlers
        /\ inport' = inport /\ save_inport' = save_inport
        /\ contents' = contents /\ interactive_repl' = interactive_repl
    BY DEF Read, fixed, input
  <1>2. Running /\ save_inport = "load"
    BY <1>1, OrderNow
  <1>3. dump # <<>> /\ Head(dump).op = "T1LVL" /\ Waits = Tail(dump)
    BY <1>1 DEF CatchInv, Waits
  <1>4. op' = "T1LVL" /\ dump' = Tail(dump)
    BY <1>1, <1>3 DEF Return
  <1>5. Waits' = Waits
    BY <1>3, <1>4 DEF Waits
  <1>6. /\ file_i \in 0..(MAXFIL - 1) /\ 0 \in 0..(MAXFIL - 1)
        /\ load_stack \in [0..(MAXFIL - 1) -> OpenFile]
        /\ nesting_stack \in [0..(MAXFIL - 1) -> Nat]
        /\ f \in Names \cup {Stdin} /\ p \in Nat \ {0}
        /\ contents[f] \in Seq(Items)
    BY SMTT(40), Parts, LoaderAssumption DEF FilesOK, ReadOK, OpenFile
  <1>7. \A k \in 0..(MAXFIL - 1) : load_stack'[k].file = load_stack[k].file
    <2>1. CASE load_stack' = [load_stack EXCEPT ![file_i].eof = TRUE]
      BY <1>6, <2>1 DEF OpenFile
    <2>2. CASE load_stack' = [load_stack EXCEPT ![file_i].pos = @ + 1]
      BY <1>6, <2>2 DEF OpenFile
    <2> QED
      BY <2>1, <2>2 DEF Read, SawEof
  <1>8. AtStdin' = AtStdin
    BY <1>6, <1>7 DEF AtStdin
  <1>9. 1..file_i \subseteq 0..(MAXFIL - 1)
    BY <1>6, LoaderAssumption
  <1>10. Backed("T1LVL", Waits, file_i, load_stack')
    <2>1. Backed("READ", Waits, file_i, load_stack)
      BY <1>1, <1>2 DEF Running, Prompting
    <2>2. Room("T1LVL") = Room("READ")
      BY DEF Room
    <2> QED
      BY <1>7, <1>9, <2>1, <2>2 DEF Backed
  <1>11. Stacked /\ (AtStdin /\ owed = 1 => file_i >= 1 /\ nesting_stack[1] # 0)
    BY <1>1, <1>2 DEF Running, OwedHere, Waking
  <1>12. /\ \A k \in 1..file_i : load_stack'[k].file \in Names
         /\ ~interactive_repl => load_stack'[0].file \in Names
         /\ interactive_repl =>
              /\ \A k \in 1..file_i : Leaf(k) => ~Does(load_stack'[k].file, {"load", "open"})
              /\ file_i <= 2 /\ (~AtStdin => file_i <= 1)
    BY <1>6, <1>7, <1>9, <1>11 DEF Stacked
  <1>13. (\A k \in 1..file_i : nesting_stack'[k] = 0 \/ Does(load_stack[k].file, {"open"}))
         => (interactive_repl => \A k \in 1..file_i :
                nesting_stack'[k] = 0 \/ Does(load_stack[k].file, {"open"}))
    OBVIOUS
  <1>14. ASSUME interactive_repl =>
                  \A k \in 1..file_i : nesting_stack'[k] = 0 \/ Does(load_stack[k].file, {"open"})
         PROVE  Stacked'
    BY <1>1, <1>7, <1>8, <1>9, <1>12, <1>14 DEF Stacked, Leaf, Does
  <1>15. ASSUME Stacked', Present', AtStdin /\ owed' = 1 => file_i >= 1 /\ nesting_stack'[1] # 0
         PROVE  Order'
    <2>1. OwedHere' /\ ~Waking'
      BY <1>1, <1>4, <1>8, <1>15 DEF OwedHere, Waking
    <2>2. Running'
      BY <1>1, <1>2, <1>4, <1>5, <1>10, <1>15, <2>1 DEF Running
    <2> QED
      BY <1>1, <1>2, <1>4, <2>2 DEF Order, ReadToTheEnd
  <1>16. load_stack'[file_i'].file = f
    BY <1>1, <1>6, <1>7
  <1>17. CASE code' = Nothing /\ UNCHANGED <<nesting_stack, owed>>
    BY <1>11, <1>14, <1>15, <1>17 DEF Stacked, Present
  <1>18. CASE /\ p <= Len(contents[f]) /\ contents[f][p].op # "open"
              /\ code' = contents[f][p] /\ UNCHANGED <<nesting_stack, owed>>
    <2>1. p \in DOMAIN contents[f]
      BY <1>6, <1>18
    <2>2. Present'
      BY <1>1, <1>16, <1>18, <2>1 DEF Present
    <2> QED
      BY <1>11, <1>14, <1>15, <1>18, <2>2 DEF Stacked
  <1>19. CASE /\ p <= Len(contents[f]) /\ contents[f][p].op = "open"
              /\ nesting_stack' = [nesting_stack EXCEPT ![file_i] = @ + 1]
              /\ code' = Nothing /\ owed' = file_i
    <2>1. p \in DOMAIN contents[f]
      BY <1>6, <1>19
    <2>2. Does(f, {"open"})
      BY <1>19, <2>1 DEF Does
    <2>3. /\ \A k \in 1..file_i : k # file_i => nesting_stack'[k] = nesting_stack[k]
          /\ nesting_stack'[file_i] # 0
      BY <1>6, <1>9, <1>19
    <2>4. interactive_repl =>
             \A k \in 1..file_i : nesting_stack'[k] = 0 \/ Does(load_stack[k].file, {"open"})
      BY <1>11, <2>2, <2>3 DEF Stacked
    <2>5. Stacked'
      BY <1>14, <2>4
    <2>6. Present'
      BY <1>19 DEF Present
    <2> QED
      BY <1>6, <1>15, <1>19, <2>3, <2>5, <2>6
  <1> QED
    BY <1>17, <1>18, <1>19 DEF Read

LEMMA TopLevel1Order == ASSUME TypeOK, CatchInv, OrderInv, TopLevel1 PROVE OrderInv'
  <1> SUFFICES ASSUME Orderly' PROVE Order'
    BY DEF OrderInv
  <1>1. /\ op = "T1LVL" /\ op' = "EVAL" /\ inport' = save_inport /\ dump' = dump
        /\ code' = code /\ contents' = contents /\ nesting' = nesting
        /\ interactive_repl' = interactive_repl /\ save_inport' = save_inport
        /\ handlers' = handlers /\ owed' = owed /\ UNCHANGED files /\ UNCHANGED fixed
    BY DEF TopLevel1, fixed
  <1>2. /\ load_stack' = load_stack /\ file_i' = file_i /\ nesting_stack' = nesting_stack
    BY <1>1 DEF files
  <1>3. Running /\ save_inport = "load" /\ Waits = dump /\ Waits' = dump
    BY <1>1, OrderNow DEF Waits
  <1>4. Backed("EVAL", dump, file_i, load_stack)
    BY <1>1, <1>3 DEF Running, Prompting, Backed, Room
  <1>5. Stacked' /\ Present'
    BY <1>1, <1>2, <1>3, SameStacked DEF Running, Present
  <1>6. OwedHere' /\ ~Waking'
    BY <1>1, <1>2, <1>3 DEF Running, OwedHere, Waking, AtStdin
  <1>7. Running'
    BY <1>1, <1>2, <1>3, <1>4, <1>5, <1>6 DEF Running
  <1> QED
    BY <1>1, <1>3, <1>7 DEF Order, ReadToTheEnd

LEMMA EvalValueOrder == ASSUME TypeOK, CatchInv, OrderInv, EvalValue PROVE OrderInv'
  <1> SUFFICES ASSUME Orderly' PROVE Order'
    BY DEF OrderInv
  <1>1. /\ op = "EVAL" /\ Return(dump) /\ UNCHANGED fixed /\ UNCHANGED files
        /\ nesting' = nesting /\ owed' = owed /\ handlers' = handlers
        /\ inport' = inport /\ save_inport' = save_inport
        /\ contents' = contents /\ interactive_repl' = interactive_repl
    BY DEF EvalValue, fixed, input
  <1>2. Order /\ Running /\ inport = "load" /\ (~interactive_repl => handlers = <<>>)
    BY <1>1, OrderNow DEF Running
  <1> QED
    BY <1>1, <1>2, ReturnOrder

(* Only what is typed fails. *)
LEMMA OnlyTyped ==
  ASSUME TypeOK, Orderly, Running, op = "EVAL", interactive_repl,
         code.op \in {"catch", "error", "readbad", "jump"}
  PROVE  file_i = 0 /\ AtStdin /\ code.op # "readbad"
  <1> DEFINE f == load_stack[file_i].file
  <1>1. Present /\ code # Nothing
    BY DEF Running, Nothing
  <1>2. PICK k \in DOMAIN contents[f] : contents[f][k] = code
    BY <1>1 DEF Present
  <1>3. f \notin Names
    BY <1>2 DEF Orderly, Does
  <1>4. f \in Names \cup {Stdin} /\ file_i \in Nat
    BY Parts, LoaderAssumption DEF FilesOK, OpenFile
  <1>5. file_i = 0
    <2>1. file_i \in 1..file_i => f \in Names
      BY DEF Running, Stacked
    <2> QED
      BY <1>3, <1>4, <2>1
  <1>6. AtStdin
    BY <1>3, <1>4, <1>5 DEF AtStdin
  <1>7. code.op # "readbad"
    BY <1>2, <1>5, <1>6 DEF Orderly, Does, AtStdin
  <1> QED
    BY <1>5, <1>6, <1>7

LEMMA EvalErrorOrder == ASSUME TypeOK, CatchInv, OrderInv, EvalError PROVE OrderInv'
  <1> SUFFICES ASSUME Orderly' PROVE Order'
    BY DEF OrderInv
  <1>1. /\ op = "EVAL" /\ code.op \in {"error", "jump"} /\ UNCHANGED fixed /\ UNCHANGED files
        /\ owed' = owed /\ inport' = inport /\ save_inport' = save_inport
        /\ contents' = contents /\ interactive_repl' = interactive_repl
        /\ Fail(<<Frame("REST", "none")>> \o dump)
    BY DEF EvalError, fixed, input
  <1>2. Orderly /\ Order /\ Running
    BY <1>1, OrderNow
  <1>3. interactive_repl => file_i = 0 /\ AtStdin
    BY <1>1, <1>2, OnlyTyped
  <1> QED
    BY <1>1, <1>2, <1>3, FailOrder

LEMMA EvalReadOrder == ASSUME TypeOK, CatchInv, OrderInv, EvalRead PROVE OrderInv'
  <1> SUFFICES ASSUME Orderly' PROVE Order'
    BY DEF OrderInv
  <1> DEFINE d == <<ReadFrame>> \o dump
  <1>1. /\ op = "EVAL" /\ UNCHANGED fixed /\ UNCHANGED files
        /\ owed' = owed /\ nesting' = nesting /\ save_inport' = save_inport
        /\ contents' = contents /\ interactive_repl' = interactive_repl
    BY DEF EvalRead, fixed
  <1>2. /\ load_stack' = load_stack /\ file_i' = file_i /\ nesting_stack' = nesting_stack
    BY <1>1 DEF files
  <1>3. Orderly /\ Order /\ Running /\ save_inport = "load" /\ inport = "load" /\ Waits = dump
    BY <1>1, OrderNow DEF Running, Waits
  <1>4. CASE Return(d) /\ UNCHANGED <<retcode, handlers>>
    <2>1. ReadFrame \in Frames /\ ReadFrame.op = "SET_INPORT" /\ ReadFrame.arg = "load"
      BY <1>3, FrameFacts DEF ReadFrame, Frame
    <2>2. dump \in Seq(Frames)
      BY StackTypes
    <2>3. d # <<>> /\ Head(d) = ReadFrame /\ Tail(d) = dump
      BY <2>1, <2>2, Pushed
    <2>4. op' = "SET_INPORT" /\ args' = "load" /\ dump' = dump
      BY <1>4, <2>1, <2>3 DEF Return
    <2>5. Waits' = dump
      BY <2>4 DEF Waits
    <2>6. Backed("SET_INPORT", dump, file_i, load_stack)
      BY <1>1, <1>3 DEF Running, Prompting, Backed, Room
    <2>7. Stacked'
      BY <1>1, <1>3, SameStacked DEF Running
    <2>8. OwedHere' /\ ~Waking'
      BY <1>1, <1>2, <1>3, <2>4 DEF Running, OwedHere, Waking, AtStdin
    <2>9. Running'
      BY <1>1, <1>2, <1>3, <1>4, <2>4, <2>5, <2>6, <2>7, <2>8 DEF Running
    <2> QED
      BY <1>1, <1>3, <2>4, <2>9 DEF Order, ReadToTheEnd
  <1>5. CASE code.op = "readbad" /\ Fail(d)
    <2>1. ~interactive_repl
      BY <1>1, <1>3, <1>5, OnlyTyped
    <2> QED
      BY <1>1, <1>3, <1>5, <2>1, FailOrder
  <1> QED
    BY <1>4, <1>5 DEF EvalRead

LEMMA SetInportOrder == ASSUME TypeOK, CatchInv, OrderInv, SetInport PROVE OrderInv'
  <1> SUFFICES ASSUME Orderly' PROVE Order'
    BY DEF OrderInv
  <1>1. /\ op = "SET_INPORT" /\ UNCHANGED fixed /\ UNCHANGED files /\ save_inport' = save_inport
        /\ contents' = contents /\ interactive_repl' = interactive_repl
    BY DEF SetInport, fixed
  <1>2. Order /\ Running /\ nesting = 0 /\ args = "load" /\ (~interactive_repl => handlers = <<>>)
    BY <1>1, OrderNow DEF Running, Order
  <1>3. /\ inport' = args /\ Return(dump)
        /\ nesting' = nesting /\ handlers' = handlers /\ owed' = owed
    BY <1>2 DEF SetInport, Unmatched
  <1> QED
    BY <1>1, <1>2, <1>3, ReturnOrder

(* A file is pushed for an expression that is not left yet. *)
LEMMA PushOrder ==
  ASSUME TypeOK, Order, op = "EVAL", NEW n \in Names, file_i < MAXFIL - 1, file_push(n),
         NEW f \in Frames, f.op \in {"REST", "UNCATCH"}, f.arg = n,
         op' = "T0LVL", dump' = <<f>> \o dump,
         UNCHANGED <<contents, interactive_repl, save_inport, inport, nesting, owed>>,
         interactive_repl => \/ file_i = 0 /\ AtStdin
                             \/ /\ ~Does(n, {"load", "open"})
                                /\ file_i <= 1 /\ (~AtStdin => file_i = 0),
         ~interactive_repl => handlers' = <<>>
  PROVE  Order'
  <1>1. Running /\ Waits = dump /\ save_inport = "load"
    BY DEF Order, Waits
  <1>2. /\ file_i \in 0..(MAXFIL - 1)
        /\ load_stack \in [0..(MAXFIL - 1) -> OpenFile]
        /\ nesting_stack \in [0..(MAXFIL - 1) -> Nat]
        /\ dump \in Seq(Frames)
    BY Parts DEF FilesOK, FlowOK
  <1>3. file_i + 1 \in 0..(MAXFIL - 1) /\ file_i \in Nat /\ 0 \in 0..file_i
    BY <1>2, LoaderAssumption
  <1>4. /\ file_i' = file_i + 1
        /\ load_stack'[file_i + 1].file = n /\ nesting_stack'[file_i + 1] = 0
        /\ \A k \in 0..file_i : load_stack'[k] = load_stack[k]
                                /\ nesting_stack'[k] = nesting_stack[k]
    <2>1. \A k \in 0..file_i : k \in 0..(MAXFIL - 1) /\ k # file_i + 1
      BY <1>2, <1>3, LoaderAssumption
    <2>2. Opened(n).file = n
      BY DEF Opened
    <2> QED
      BY <1>2, <1>3, <2>1, <2>2 DEF file_push
  <1>5. \A k \in 1..file_i : k \in 0..file_i
    BY <1>3
  <1>6. \A k \in 1..file_i' : k \in 1..file_i \/ k = file_i + 1
    BY <1>3, <1>4
  <1>7. AtStdin' = AtStdin /\ load_stack'[0] = load_stack[0]
    BY <1>3, <1>4 DEF AtStdin
  <1>8. Backed("T0LVL", dump', file_i', load_stack')
    <2>1. Backed("EVAL", dump, file_i, load_stack)
      BY <1>1 DEF Running, Prompting
    <2>2. \A k \in 1..file_i : load_stack'[k] = load_stack[k]
      BY <1>4, <1>5
    <2> QED
      BY <1>2, <1>3, <1>4, <2>1, <2>2, BackedPushed
  <1>9. Stacked'
    <2>1. Stacked
      BY <1>1 DEF Running
    <2>2. \A k \in 1..file_i' : load_stack'[k].file \in Names
      BY <1>4, <1>5, <1>6, <2>1 DEF Stacked
    <2>3. ~interactive_repl' => load_stack'[0].file \in Names
      BY <1>7, <2>1 DEF Stacked
    <2>4. ASSUME interactive_repl, NEW k \in 1..file_i'
          PROVE  nesting_stack'[k] = 0 \/ Does(load_stack'[k].file, {"open"})
      <3>1. CASE k \in 1..file_i
        <4>1. nesting_stack[k] = 0 \/ Does(load_stack[k].file, {"open"})
          BY <2>1, <2>4, <3>1 DEF Stacked
        <4> QED
          BY <1>4, <1>5, <3>1, <4>1
      <3>2. CASE k = file_i + 1
        BY <1>4, <3>2
      <3> QED
        BY <1>6, <3>1, <3>2
    <2>5. ASSUME interactive_repl, NEW k \in 1..file_i', Leaf(k)
          PROVE  ~Does(load_stack'[k].file, {"load", "open"})
      <3>1. CASE k \in 1..file_i
        <4>1. ~Does(load_stack[k].file, {"load", "open"})
          BY <2>1, <2>5, <3>1 DEF Stacked
        <4> QED
          BY <1>4, <1>5, <3>1, <4>1
      <3>2. CASE k = file_i + 1
        <4>1. ~(file_i = 0 /\ AtStdin)
          BY <2>5, <3>2 DEF Leaf
        <4>2. ~Does(n, {"load", "open"})
          BY <2>5, <4>1
        <4> QED
          BY <1>4, <3>2, <4>2
      <3> QED
        BY <1>6, <3>1, <3>2
    <2>6. interactive_repl => file_i' <= 2 /\ (~AtStdin => file_i' <= 1)
      BY <1>3, <1>4
    <2> QED
      BY <1>7, <2>2, <2>3, <2>4, <2>5, <2>6 DEF Stacked, Leaf, Does
  <1>10. ~Waking' /\ OwedHere'
    <2>1. ~Waking' /\ ~Waking
      BY DEF Waking
    <2>2. AtStdin /\ owed = 1 => file_i >= 1 /\ nesting_stack[1] # 0
      BY <1>1, <2>1 DEF Running, OwedHere
    <2>3. file_i >= 1 => 1 \in 0..file_i /\ file_i' >= 1
      BY <1>3, <1>4
    <2>4. AtStdin' /\ owed' = 1 => file_i' >= 1 /\ nesting_stack'[1] # 0
      BY <1>4, <1>7, <2>2, <2>3
    <2> QED
      BY <2>1, <2>4 DEF OwedHere
  <1>11. Waits' = dump'
    BY DEF Waits
  <1>12. Running'
    BY <1>1, <1>8, <1>9, <1>10, <1>11 DEF Running
  <1> QED
    BY <1>1, <1>12 DEF Order, ReadToTheEnd

LEMMA EvalLoadOrder == ASSUME TypeOK, CatchInv, OrderInv, EvalLoad PROVE OrderInv'
  <1> SUFFICES ASSUME Orderly' PROVE Order'
    BY DEF OrderInv
  <1> DEFINE n == code.file
             g == load_stack[file_i].file
             f == Frame("REST", n)
             d == <<f>> \o dump
  <1>1. /\ op = "EVAL" /\ code.op = "load" /\ UNCHANGED fixed
        /\ owed' = owed /\ inport' = inport /\ save_inport' = save_inport
        /\ nesting' = nesting
        /\ contents' = contents /\ interactive_repl' = interactive_repl
        /\ Load(n, d)
    BY DEF EvalLoad, fixed, input, LoadFrames
  <1>2. Orderly /\ Order /\ Running /\ (~interactive_repl => handlers = <<>>) /\ Stacked
    BY <1>1, OrderNow DEF Running
  <1>3. n \in Names \cup {Missing} /\ file_i \in Nat /\ g \in Names \cup {Stdin}
    BY Parts, ItemFacts, LoaderAssumption DEF RestOK, FilesOK, OpenFile
  <1>4. f \in Frames /\ f.op = "REST" /\ f.arg = n
    BY <1>3, FrameFacts DEF Frame
  <1>5. PICK k \in DOMAIN contents[g] : contents[g][k] = code
    <2>1. Present /\ code # Nothing
      BY <1>1, <1>2 DEF Running, Nothing
    <2> QED
      BY <2>1 DEF Present
  (* A file that loads is the first above the one that main() is at. *)
  <1>6. ASSUME interactive_repl, ~(file_i = 0 /\ AtStdin)
        PROVE  /\ n \in Names /\ ~Does(n, {"load", "open"})
               /\ file_i <= 1 /\ (~AtStdin => file_i = 0)
    <2>1. g \in Names
      <3>1. CASE file_i = 0
        BY <1>3, <1>6, <3>1 DEF AtStdin
      <3>2. CASE file_i # 0
        BY <1>2, <1>3, <3>2 DEF Stacked
      <3> QED
        BY <3>1, <3>2
    <2>2. n \in Names /\ ~Does(n, {"load", "open"})
      BY <1>1, <1>2, <1>5, <1>6, <2>1 DEF Orderly
    <2>3. Does(g, {"load", "open"})
      BY <1>1, <1>5 DEF Does
    <2>4. file_i >= 1 => ~Leaf(file_i)
      <3>1. file_i >= 1 => file_i \in 1..file_i
        BY <1>3
      <3> QED
        BY <1>2, <1>6, <2>3, <3>1 DEF Stacked
    <2>5. file_i <= 1 /\ (~AtStdin => file_i = 0)
      BY <1>3, <2>4 DEF Leaf
    <2> QED
      BY <2>2, <2>5
  <1> HIDE DEF f
  <1>7. CASE CanPush(n) /\ file_push(n) /\ op' = "T0LVL" /\ dump' = d /\ UNCHANGED handlers
    <2>1. n \in Names /\ file_i < MAXFIL - 1
      BY <1>3, <1>7 DEF CanPush
    <2> QED
      BY <1>1, <1>2, <1>4, <1>6, <1>7, <2>1, PushOrder
  <1>8. CASE ~CanPush(n) /\ Fail(d) /\ UNCHANGED files
    <2>1. interactive_repl => file_i = 0 /\ AtStdin
      <3> SUFFICES ASSUME interactive_repl, ~(file_i = 0 /\ AtStdin) PROVE FALSE
        OBVIOUS
      <3>1. n # Missing /\ file_i <= 1
        BY <1>6, LoaderAssumption
      <3>2. MAXFIL > 2
        BY <1>2 DEF Orderly
      <3> QED
        BY <1>3, <1>8, <3>1, <3>2, LoaderAssumption DEF CanPush
    <2> QED
      BY <1>1, <1>2, <1>8, <2>1, FailOrder
  <1> QED
    BY <1>1, <1>7, <1>8 DEF Load

LEMMA EvalCatchOrder == ASSUME TypeOK, CatchInv, OrderInv, EvalCatch PROVE OrderInv'
  <1> SUFFICES ASSUME Orderly' PROVE Order'
    BY DEF OrderInv
  <1> DEFINE n == code.file
             g == load_stack[file_i].file
             f == Frame("UNCATCH", n)
  <1>1. /\ op = "EVAL" /\ code.op = "catch" /\ UNCHANGED fixed
        /\ owed' = owed /\ inport' = inport /\ save_inport' = save_inport
        /\ nesting' = nesting
        /\ contents' = contents /\ interactive_repl' = interactive_repl
    BY DEF EvalCatch, fixed, input
  <1>2. Orderly /\ Order /\ Running /\ inport = "load" /\ Stacked
    BY <1>1, OrderNow DEF Running
  <1>3. n \in Names \cup {Missing} /\ file_i \in Nat /\ g \in Names \cup {Stdin}
    BY Parts, ItemFacts, LoaderAssumption DEF RestOK, FilesOK, OpenFile
  <1>4. interactive_repl
    <2> SUFFICES ASSUME ~interactive_repl PROVE FALSE
      OBVIOUS
    <2>1. g \in Names
      <3>1. CASE file_i = 0
        BY <1>2, <3>1 DEF Stacked
      <3>2. CASE file_i # 0
        BY <1>2, <1>3, <3>2 DEF Stacked
      <3> QED
        BY <3>1, <3>2
    <2>2. Present /\ code # Nothing
      BY <1>1, <1>2 DEF Running, Nothing
    <2>3. PICK k \in DOMAIN contents[g] : contents[g][k] = code
      BY <2>2 DEF Present
    <2> QED
      BY <1>1, <1>2, <2>1, <2>3 DEF Orderly, Does
  <1>5. file_i = 0 /\ AtStdin
    BY <1>1, <1>2, <1>4, OnlyTyped
  <1>6. f \in Frames /\ f.op = "UNCATCH" /\ f.arg = n
    BY <1>3, FrameFacts DEF Frame
  <1> HIDE DEF f
  <1>7. CASE CanPush(n) /\ file_push(n) /\ op' = "T0LVL" /\ dump' = <<f>> \o dump
    <2>1. n \in Names /\ file_i < MAXFIL - 1
      BY <1>3, <1>7 DEF CanPush
    <2> QED
      BY <1>1, <1>2, <1>4, <1>5, <1>6, <1>7, <2>1, PushOrder
  <1>8. CASE Return(dump) /\ UNCHANGED <<files, handlers>>
    BY <1>1, <1>2, <1>4, <1>8, ReturnOrder
  <1> QED
    BY <1>7, <1>8 DEF EvalCatch, f

LEMMA RestOrder == ASSUME TypeOK, CatchInv, OrderInv, Rest PROVE OrderInv'
  <1> SUFFICES ASSUME Orderly' PROVE Order'
    BY DEF OrderInv
  <1>1. /\ op = "REST" /\ UNCHANGED fixed /\ UNCHANGED files
        /\ inport' = inport /\ save_inport' = save_inport
        /\ contents' = contents /\ interactive_repl' = interactive_repl
    BY DEF Rest, fixed, input
  <1>2. Order /\ inport = "load" /\ (~interactive_repl => handlers = <<>>)
    BY <1>1, OrderNow DEF Running
  <1>3. CASE Unmatched(dump)
    BY <1>1, <1>2, <1>3, UnmatchedOrder
  <1>4. CASE Return(dump) /\ UNCHANGED <<nesting, retcode, handlers, owed>>
    BY <1>1, <1>2, <1>4, ReturnOrder
  <1> QED
    BY <1>3, <1>4 DEF Rest

LEMMA UncatchOrder == ASSUME TypeOK, CatchInv, OrderInv, Uncatch PROVE OrderInv'
  <1> SUFFICES ASSUME Orderly' PROVE Order'
    BY DEF OrderInv
  <1>1. /\ op = "UNCATCH" /\ UNCHANGED fixed /\ UNCHANGED files
        /\ inport' = inport /\ save_inport' = save_inport
        /\ nesting' = nesting /\ owed' = owed
        /\ contents' = contents /\ interactive_repl' = interactive_repl
    BY DEF Uncatch, fixed, input
  <1>2. Order /\ inport = "load" /\ (~interactive_repl => handlers = <<>>)
    BY <1>1, OrderNow DEF Running
  <1>3. handlers # <<>>
    BY <1>1, HandlersNow
  <1>4. Return(dump)
    BY <1>3 DEF Uncatch
  <1> QED
    BY <1>1, <1>2, <1>3, <1>4, ReturnOrder

LEMMA ValuePrintOrder == ASSUME TypeOK, CatchInv, OrderInv, ValuePrint PROVE OrderInv'
  <1> SUFFICES ASSUME Orderly' PROVE Order'
    BY DEF OrderInv
  <1>1. /\ op = "VALUEPRINT" /\ UNCHANGED fixed /\ UNCHANGED files
        /\ inport' = inport /\ save_inport' = save_inport
        /\ contents' = contents /\ interactive_repl' = interactive_repl
    BY DEF ValuePrint, fixed, input
  <1>2. Order /\ inport = "load" /\ (~interactive_repl => handlers = <<>>)
    BY <1>1, OrderNow DEF Running
  <1>3. CASE Unmatched(dump)
    BY <1>1, <1>2, <1>3, UnmatchedOrder
  <1>4. CASE /\ ~file_interactive \/ nesting = 0
             /\ Return(dump) /\ UNCHANGED <<nesting, retcode, handlers, owed>>
    <2>1. file_i = 0 /\ AtStdin => nesting = 0
      BY <1>2, <1>4 DEF file_interactive, AtStdin
    <2> QED
      BY <1>1, <1>2, <1>4, <2>1, ReturnOrder
  <1> QED
    BY <1>3, <1>4 DEF ValuePrint

LEMMA StutterOrder == ASSUME OrderInv, UNCHANGED vars PROVE OrderInv'
  BY DEF OrderInv, Order, Orderly, ReadToTheEnd, Running, Stacked, OwedHere, Waking,
         Present, Prompting, AtStdin, Leaf, Does, Waits, vars

(* An Orderly program keeps no continuation and escapes from no catch. *)
OwnInv == Orderly => kept = {} /\ ~skipped

LEMMA OrderlyBefore == ASSUME TypeOK, [Next]_vars, Orderly' PROVE Orderly
  <1>1. contents' = contents /\ (interactive_repl => interactive_repl')
    <2>1. CASE StartFile
      BY <2>1 DEF StartFile
    <2>2. CASE EvalKeep \/ Jump \/ EvalEscape
      BY <2>2 DEF EvalKeep, Jump, EvalEscape
    <2>3. CASE UNCHANGED vars
      BY <2>3 DEF vars
    <2>4. CASE ~(StartFile \/ EvalKeep \/ Jump \/ EvalEscape) /\ Next
      <3>1. UNCHANGED fixed
        BY <2>4
        DEF Next, EndOfFile, TopLevel, Read, TopLevel1, EvalValue, EvalError, EvalRead,
            EvalLoad, EvalCatch, SetInport, Rest, Uncatch, ValuePrint
      <3> QED
        BY <3>1 DEF fixed
    <2> QED
      BY <2>1, <2>2, <2>3, <2>4
  <1>2. interactive_repl \in BOOLEAN /\ interactive_repl' \in BOOLEAN
    <2>1. TypeOK'
      BY StartFileTyped, EndOfFileTyped, TopLevelTyped, ReadTyped, TopLevel1Typed,
         EvalValueTyped, EvalErrorTyped, EvalReadTyped, EvalLoadTyped, EvalCatchTyped,
         EvalKeepTyped, JumpTyped, EvalEscapeTyped,
         SetInportTyped, RestTyped, UncatchTyped, ValuePrintTyped, StutterTyped
      DEF Next
    <2> QED
      BY <2>1, Parts, PartsNext DEF ReadOK
  <1>3. \A n \in Names : ~Does(n, {"catch", "keep", "escape"})
    BY <1>1, <1>2 DEF Orderly, Does
  <1>4. CASE interactive_repl
    BY <1>1, <1>4 DEF Orderly, Does
  <1>5. CASE ~interactive_repl
    BY <1>3, <1>5 DEF Orderly
  <1> QED
    BY <1>4, <1>5

LEMMA NothingKept ==
  ASSUME TypeOK, Orderly, Order, op = "EVAL", kept = {}
  PROVE  ~EvalKeep /\ ~Jump /\ ~EvalEscape
  <1> DEFINE g == load_stack[file_i].file
  <1>1. Running
    BY DEF Order
  <1>2. g \in Names \cup {Stdin} /\ file_i \in Nat
    BY Parts, LoaderAssumption DEF FilesOK, OpenFile
  <1>3. ~interactive_repl => g \in Names
    <2>1. CASE file_i = 0
      BY <1>1, <2>1 DEF Running, Stacked
    <2>2. CASE file_i # 0
      BY <1>1, <1>2, <2>2 DEF Running, Stacked
    <2> QED
      BY <2>1, <2>2
  <1>4. code.op \notin {"keep", "escape"}
    <2> SUFFICES ASSUME code.op \in {"keep", "escape"} PROVE FALSE
      OBVIOUS
    <2>1. Present /\ code # Nothing
      BY <1>1 DEF Running, Nothing
    <2>2. PICK k \in DOMAIN contents[g] : contents[g][k] = code
      BY <2>1 DEF Present
    <2>3. Does(g, {"keep"}) \/ Does(g, {"escape"})
      BY <2>2 DEF Does
    <2> QED
      BY <1>2, <1>3, <2>3 DEF Orderly, Does
  <1> QED
    BY <1>4 DEF EvalKeep, Jump, EvalEscape

LEMMA OrderAlways == Spec => [](OrderInv /\ OwnInv)
  <1>1. ASSUME TypeOK, PairsInv, OrderInv, OwnInv, [Next]_vars, Orderly'
        PROVE  OrderInv' /\ OwnInv'
    <2>1. Orderly /\ Order /\ kept = {} /\ ~skipped /\ CatchInv
      BY <1>1, OrderlyBefore DEF OrderInv, OwnInv, PairsInv
    <2>2. ~EvalKeep /\ ~Jump /\ ~EvalEscape
      BY <1>1, <2>1, NothingKept DEF EvalKeep, Jump, EvalEscape
    <2>3. OrderInv'
      BY <1>1, <2>1, <2>2,
         StartFileOrder, EndOfFileOrder, TopLevelOrder, ReadOrder, TopLevel1Order,
         EvalValueOrder, EvalErrorOrder, EvalReadOrder, EvalLoadOrder, EvalCatchOrder,
         SetInportOrder, RestOrder, UncatchOrder, ValuePrintOrder, StutterOrder
      DEF Next
    <2>4. skipped' = skipped /\ kept' = kept
      BY <1>1, <2>2
      DEF Next, StartFile, EndOfFile, TopLevel, Read, TopLevel1, EvalValue, EvalError, EvalRead,
          EvalLoad, EvalCatch, SetInport, Rest, Uncatch, ValuePrint, vars, fixed, own
    <2> QED
      BY <2>1, <2>3, <2>4 DEF OwnInv
  <1>2. ASSUME TypeOK, PairsInv, OrderInv, OwnInv, [Next]_vars PROVE OrderInv' /\ OwnInv'
    BY <1>1, <1>2 DEF OrderInv, OwnInv
  <1>3. Init => OwnInv
    BY DEF Init, OwnInv
  <1> QED
    BY InitOrder, TypeCorrect, PairsAlways, <1>2, <1>3, PTL DEF Spec

(* A load brings the interpreter back to the expression that loaded the    *)
(* file, to the port and to the file that loaded: for any files, loads and *)
(* sessions in which the files do not fail and nothing keeps a             *)
(* continuation (Orderly).                                                 *)
THEOREM LoadsAlwaysComeBack == Spec => []LoadsComeBack
  <1>1. ASSUME TypeOK, OrderInv PROVE LoadsComeBack
    <2> SUFFICES ASSUME Orderly PROVE LoadReturns /\ ReadToTheEnd /\ InputRestored
      BY DEF LoadsComeBack
    <2>1. Order
      BY <1>1 DEF OrderInv
    <2>2. LoadReturns
      <3> SUFFICES ASSUME op = "T0LVL", file_i > 0
                   PROVE  /\ dump # <<>>
                          /\ Head(dump).op \in {"REST", "UNCATCH"}
                          /\ Head(dump).arg = load_stack[file_i].file
        BY DEF LoadReturns
      <3>1. dump \in Seq(Frames) /\ file_i \in Nat \ {0}
        BY <1>1, StackTypes
      <3>2. Backed("T0LVL", dump, file_i, load_stack)
        BY <2>1, <3>1 DEF Order, Running, Prompting, Waits
      <3> QED
        BY <3>1, <3>2, BackedEnds
    <2>3. InputRestored
      BY <2>1 DEF InputRestored, Order, Running
    <2> QED
      BY <2>1, <2>2, <2>3 DEF Order
  <1> QED
    BY TypeCorrect, OrderAlways, <1>1, PTL

(* At the prompt every list left open in a file has been reported, in      *)
(* sessions that are Orderly, and every catch is over, in any session as   *)
(* long as the program has not skipped one by a continuation of its own.   *)
THEOREM PromptAlwaysClean == Spec => []PromptClean
  <1>1. ASSUME OrderInv PROVE UnmatchedReported
    <2> SUFFICES ASSUME Orderly, op = "T0LVL", file_i = 0, load_stack[0].file = Stdin
                 PROVE  owed # 1
      BY DEF UnmatchedReported
    <2> QED
      BY <1>1 DEF OrderInv, Order, Running, OwedHere, Waking, AtStdin
  <1>2. OrderInv /\ CatchesLeft => PromptClean
    BY <1>1 DEF PromptClean
  <1> QED
    BY OrderAlways, CatchesAlwaysLeft, <1>2, PTL

=============================================================================
