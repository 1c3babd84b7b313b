-------------------------------- MODULE Ports --------------------------------
(***************************************************************************)
(* The ports of src/scheme.c and the procedures of src/init.scm on them:   *)
(* what is open, what is current, and who closes it -- the program, a      *)
(* library procedure, or the collector, that finalizes the cells of ports  *)
(* no one can reach.                                                       *)
(*                                                                         *)
(* A port is named by the order in which it was made.  The first two are   *)
(* the interpreter's own: its output, and the port that forms are read     *)
(* from (loadport).  The others are files the program opened.  The program *)
(* does anything it may: it opens, closes, keeps and forgets ports, makes  *)
(* them current, calls the library and jumps out of its calls and back.    *)
(* It is read from the terminal, so that an error nothing catches goes back *)
(* to the top level with nothing left of what waited.                      *)
(*                                                                         *)
(* `closes' and `careful' are history variables.                           *)
(***************************************************************************)
EXTENDS Naturals, Sequences, FiniteSets

CONSTANTS MaxPorts,     \* bounds on the ports made,
          MaxFrames,    \* on the calls of the library that wait,
          MaxConts,     \* on the continuations made
          MaxJumps      \* and on their calls

ASSUME BoundsAssumption ==
  /\ MaxPorts \in Nat \ {0, 1}
  /\ {MaxFrames, MaxConts, MaxJumps} \subseteq Nat

VARIABLES cells,        \* of the ports: [at, kind, closeit]
          closes,       \* how often fclose was called for each
          inport, outport, save_inport,
          held,         \* the ports that variables of the program hold
          frames,       \* the calls that wait, the innermost last
          conts,        \* continuations: what waited when they were made
          jumps,
          pc,           \* "run", "read" (a form is read) or "ended"
          careful       \* the program has done nothing that leaves a closed
                        \* port current by its own doing (CurrentOpen)

current == <<inport, outport, save_inport>>
program == <<held, conts, jumps>>
vars == <<cells, closes, current, program, frames, pc, careful>>

Last(s) == s[Len(s)]
Front(s) == SubSeq(s, 1, Len(s) - 1)
Within(k, s) == Len(k) <= Len(s) /\ k = SubSeq(s, 1, Len(k))

Console == 1
loadport == 2

Opened(dirs) == [at |-> "port", kind |-> dirs, closeit |-> TRUE]

(* What waits: a library procedure with the port it opened and the port    *)
(* that was current, or an opcode that will set a current port again.      *)
Frame(o, dir, p, prev) == [op |-> o, dir |-> dir, port |-> p, prev |-> prev]
PortsOf(fs) == UNION {{fs[n].port, fs[n].prev} : n \in DOMAIN fs}

(* Of what waits: the ports call-with-... gave to its procedure and will   *)
(* close, and those that will be current again.                            *)
Lent(fs) == {fs[n].port : n \in {m \in DOMAIN fs : fs[m].op = "callwith"}}
Former(fs) == {fs[n].prev : n \in {m \in DOMAIN fs : fs[m].op # "callwith"}}

Init ==
  /\ cells = <<[at |-> "port", kind |-> {"output"}, closeit |-> FALSE],
               [at |-> "port", kind |-> {"input"}, closeit |-> FALSE]>>
  /\ closes = <<0, 0>>
  /\ inport = loadport /\ save_inport = loadport /\ outport = Console
  /\ held = {} /\ frames = <<>> /\ conts = {} /\ jumps = 0
  /\ pc = "run" /\ careful = TRUE
-----------------------------------------------------------------------------
(* is_inport, is_outport: the test of an argument                          *)
Is(p, dir) == dir \in cells[p].kind

(* Mutant: the file is closed with each of its directions.                 *)
FclosesEach(c, flag) == IF c.kind \cap flag # {} THEN 1 ELSE 0

(* port_close, of the directions flag                                      *)
Closed(c, flag) == [c EXCEPT !.kind = @ \ flag]
Fcloses(c, flag) == IF c.kind # {} /\ c.kind \subseteq flag THEN 1 ELSE 0

PortClose(p, flag) ==
  /\ cells' = [cells EXCEPT ![p] = Closed(@, flag)]
  /\ closes' = [closes EXCEPT ![p] = @ + Fcloses(cells[p], flag)]

(* The port an opcode makes current                                        *)
SetPort(dir, p) ==
  IF dir = "input" THEN inport' = p /\ UNCHANGED outport
  ELSE outport' = p /\ UNCHANGED inport

Current(dir) == IF dir = "input" THEN inport ELSE outport

(* An error that nothing handles: the top level forgets what waits and     *)
(* reads a form, from loadport (OP_ERR1, OP_T0LVL).                        *)
TopLevel(in) ==
  /\ frames' = <<>> /\ pc' = "read"
  /\ save_inport' = in /\ inport' = loadport

(* The program runs unless the innermost call is one that only C does, or  *)
(* is between the last two of with-... (init.scm:637-638).                 *)
Busy(ops) == frames # <<>> /\ Last(frames).op \in ops
Running == pc = "run" /\ ~Busy({"read", "write", "restore"})

(* A continuation is called, with this current input.  It is not careful   *)
(* to return to a call that was left, nor to catch an error in what        *)
(* (read p) reads: p stays current, also when the library is to close it.  *)
Continue(k, in) ==
  /\ jumps < MaxJumps /\ jumps' = jumps + 1
  /\ frames' = k
  /\ careful' = (careful /\ Within(k, frames) /\ ~Busy({"read"}))
  /\ inport' = in /\ UNCHANGED <<save_inport, pc>>

(* An error that a catch handles, or nothing does                          *)
Fails(in) ==
  \/ TopLevel(in) /\ UNCHANGED <<jumps, careful>>
  \/ \E k \in conts : Continue(k, in)
-----------------------------------------------------------------------------
(* open-input-file, open-output-file, open-input-output-file               *)
Dirs == {{"input"}, {"output"}, {"input", "output"}}

Open(dirs) ==
  /\ Running /\ Len(cells) < MaxPorts
  /\ cells' = Append(cells, Opened(dirs)) /\ closes' = Append(closes, 0)
  /\ held' = held \cup {Len(cells) + 1}
  /\ UNCHANGED <<current, conts, jumps, frames, pc, careful>>

(* The program gets hold of a current port, or loses a port.               *)
Hold ==
  /\ Running
  /\ \E p \in {inport, outport} : held' = held \cup {p}
  /\ UNCHANGED <<cells, closes, current, conts, jumps, frames, pc, careful>>

Drop(p) ==
  /\ Running
  /\ held' = held \ {p}
  /\ UNCHANGED <<cells, closes, current, conts, jumps, frames, pc, careful>>

Waiting == PortsOf(frames) \cup UNION {PortsOf(k) : k \in conts}
InUse == {inport, outport} \cup Waiting

(* close-input-port, close-output-port, and close-port, for a port that is *)
(* open in these directions; also for the interpreter's own.  (What the    *)
(* top level reads from loadport when it is closed is undefined: FormRead  *)
(* lets it be any form or an error.)                                       *)
Close(p, flag) ==
  /\ Running /\ flag \subseteq cells[p].kind
  /\ PortClose(p, flag)
  /\ careful' = (careful /\ p \notin {inport, outport, loadport} \cup Former(frames))
  /\ UNCHANGED <<current, program, frames, pc>>

(* set-input-port, set-output-port                                         *)
MakeCurrent(p, dir) ==
  /\ Running /\ Is(p, dir)
  /\ SetPort(dir, p)
  /\ careful' = (careful /\ p \notin Lent(frames))
  /\ UNCHANGED <<cells, closes, save_inport, program, frames, pc>>
-----------------------------------------------------------------------------
(* with-input-from-file, with-output-to-file                               *)
With(dir) ==
  /\ Running /\ Len(cells) < MaxPorts /\ Len(frames) < MaxFrames
  /\ LET p == Len(cells) + 1 IN
       /\ cells' = Append(cells, Opened({dir})) /\ closes' = Append(closes, 0)
       /\ SetPort(dir, p)
       /\ frames' = Append(frames, Frame("with", dir, p, Current(dir)))
  /\ UNCHANGED <<save_inport, program, pc, careful>>

(* call-with-input-file, call-with-output-file: the procedure may keep the *)
(* port.                                                                   *)
CallWith(dir) ==
  /\ Running /\ Len(cells) < MaxPorts /\ Len(frames) < MaxFrames
  /\ LET p == Len(cells) + 1 IN
       /\ cells' = Append(cells, Opened({dir})) /\ closes' = Append(closes, 0)
       /\ frames' = Append(frames, Frame("callwith", dir, p, p))
       /\ held' \in {held, held \cup {p}}
  /\ UNCHANGED <<current, conts, jumps, pc, careful>>

(* with-input-output-from-to-files opens both of its files for input.  The *)
(* second cannot become the output, when the first is the input already;   *)
(* if one cannot be opened, closing it is an error as well.                *)
WithBoth ==
  /\ Running /\ Len(cells) + 1 < MaxPorts
  /\ LET p == Len(cells) + 1 IN
     \/ /\ cells' = cells \o <<Opened({"input"}), Opened({"input"})>>
        /\ closes' = closes \o <<0, 0>>
        /\ Fails(p)
     \/ /\ cells' = Append(cells, Closed(Opened({"input"}), {"input"}))
        /\ closes' = Append(closes, 1)
        /\ Fails(inport)
     \/ /\ cells' = Append(cells, Opened({"input"}))
        /\ closes' = Append(closes, 0)
        /\ Fails(inport)
  /\ UNCHANGED <<outport, held, conts>>

(* (read p), and (write x p) and its like: the opcode that sets the port   *)
(* again is saved, and what is read or printed takes many steps.           *)
UsePort(o, dir, p) ==
  /\ Running /\ Len(frames) < MaxFrames
  /\ Is(p, dir) /\ p # Current(dir)
  /\ SetPort(dir, p)
  /\ frames' = Append(frames, Frame(o, dir, Current(dir), Current(dir)))
  /\ UNCHANGED <<cells, closes, save_inport, program, pc, careful>>

Use(p) == UsePort("read", "input", p) \/ UsePort("write", "output", p)

(* Mutant: the library does not make the former port current again.        *)
RestoreNone(f) == UNCHANGED <<inport, outport>>

Restore(f) == SetPort(f.dir, f.prev)

(* A call of the library goes on: it closes the port that it opened, if    *)
(* that passes the test of the opcode.                                     *)
Return ==
  /\ pc = "run" /\ Busy({"with", "callwith"})
  /\ LET f == Last(frames) IN
     \/ /\ Is(f.port, f.dir) /\ PortClose(f.port, {f.dir})
        /\ frames' = IF f.op = "callwith" THEN Front(frames)
                     ELSE Append(Front(frames), [f EXCEPT !.op = "restore"])
        /\ UNCHANGED <<current, jumps, pc, careful>>
     \/ /\ ~Is(f.port, f.dir) /\ Fails(inport)
        /\ UNCHANGED <<cells, closes, outport>>
  /\ UNCHANGED <<held, conts>>

(* The port that was current is current again, if it passes the test: for  *)
(* with-... by its next call, for read and write by the saved opcode.      *)
SetFormer ==
  /\ pc = "run" /\ Busy({"restore", "read", "write"})
  /\ LET f == Last(frames) IN
     \/ /\ Is(f.prev, f.dir) /\ Restore(f)
        /\ frames' = Front(frames)
        /\ UNCHANGED <<save_inport, jumps, pc, careful>>
     \/ ~Is(f.prev, f.dir) /\ Fails(inport) /\ UNCHANGED outport
  /\ UNCHANGED <<cells, closes, held, conts>>

(* An error in the program, or in what (read p) reads                      *)
Error ==
  /\ pc = "run" /\ ~Busy({"write", "restore"})
  /\ TopLevel(inport)
  /\ UNCHANGED <<cells, closes, outport, program, careful>>

CallCC ==
  /\ Running /\ frames \notin conts /\ Cardinality(conts) < MaxConts
  /\ conts' = conts \cup {frames}
  /\ UNCHANGED <<cells, closes, current, held, jumps, frames, pc, careful>>

(* A continuation is called, also for an error that a catch handles: the   *)
(* current ports stay.                                                     *)
Jump(k) ==
  /\ pc = "run" /\ ~Busy({"write", "restore"})
  /\ Continue(k, inport)
  /\ UNCHANGED <<cells, closes, outport, held, conts>>
-----------------------------------------------------------------------------
(* OP_T0LVL: the form is over, the next one is read from loadport.         *)
NextForm ==
  /\ pc = "run" /\ frames = <<>>
  /\ TopLevel(inport)
  /\ UNCHANGED <<cells, closes, outport, program, careful>>

(* OP_T1LVL: it was read; or it has a syntax error.                        *)
FormRead ==
  /\ pc = "read"
  /\ \/ pc' = "run" /\ inport' = save_inport /\ UNCHANGED <<save_inport, frames>>
     \/ TopLevel(inport)
  /\ UNCHANGED <<cells, closes, outport, program, careful>>

(* Mutant: save_inport is not marked.                                      *)
RootsNoSaved == {inport, outport, loadport}

(* gc: what no register, frame or variable holds is finalized.             *)
Roots == {inport, outport, save_inport, loadport}

Finalized(c) == [Closed(c, {"input", "output"}) EXCEPT !.at = "free"]

(* Mutant: finalize_cell closes ports of one direction only.               *)
FinalFcloseOne(c) == IF c.closeit THEN Fcloses(c, {"input"}) ELSE 0
FinalFclose(c) == IF c.closeit THEN Fcloses(c, {"input", "output"}) ELSE 0

Sweep(dead) ==
  /\ cells' = [p \in DOMAIN cells |->
                 IF p \in dead THEN Finalized(cells[p]) ELSE cells[p]]
  /\ closes' = [p \in DOMAIN cells |->
                  closes[p] + IF p \in dead THEN FinalFclose(cells[p]) ELSE 0]

Gc ==
  /\ pc # "ended"
  /\ LET marked == Roots \cup held \cup Waiting IN
       Sweep({p \in DOMAIN cells : cells[p].at = "port"} \ marked)
  /\ UNCHANGED <<current, program, frames, pc, careful>>

(* scheme_deinit: the input ports are made plain atoms first.              *)
Deinit ==
  /\ pc # "ended" /\ pc' = "ended"
  /\ LET atoms == {inport, save_inport, loadport} IN
       Sweep({p \in DOMAIN cells : cells[p].at = "port"} \ atoms)
  /\ UNCHANGED <<current, program, frames, careful>>
-----------------------------------------------------------------------------
Next ==
  \/ \E dirs \in Dirs : Open(dirs)
  \/ Hold
  \/ \E p \in held : \/ Drop(p)
                     \/ \E flag \in Dirs : Close(p, flag)
                     \/ \E dir \in {"input", "output"} : MakeCurrent(p, dir)
                     \/ Use(p)
  \/ \E dir \in {"input", "output"} : With(dir) \/ CallWith(dir)
  \/ WithBoth \/ Return \/ SetFormer \/ Error \/ CallCC
  \/ \E k \in conts : Jump(k)
  \/ NextForm \/ FormRead \/ Gc
  \/ Deinit \/ (pc = "ended" /\ UNCHANGED vars)

Spec == Init /\ [][Next]_vars
-----------------------------------------------------------------------------
(* No file is closed twice: not by a close of its other direction, nor by  *)
(* a library procedure, nor by the collector after any of these.           *)
ClosedOnce == \A p \in DOMAIN cells : closes[p] <= 1

(* A file the program opened stays open only as long as there is a port to *)
(* it: the collector closes the files that no port reaches any more.  Only *)
(* what is the current input at the end is left open.                      *)
OpenHasPort ==
  \A p \in DOMAIN cells :
    (cells[p].closeit /\ closes[p] = 0) =>
      /\ cells[p].kind # {} /\ cells[p].at = "port"
      /\ pc = "ended" => p \in {inport, save_inport}

(* The ports that are current, and those that will be current again when a *)
(* form was read or a call is over, are never swept.                       *)
InUseKept ==
  pc # "ended" =>
    \A p \in InUse \cup {save_inport, loadport} : cells[p].at = "port"

(* What is current is open, but between the last two calls of with-...,    *)
(* that close a port and make the former one current: whatever calls of    *)
(* the library are nested and left by a jump or by an error, caught or     *)
(* not.  This is said of careful programs: they do not close loadport, a   *)
(* port that is current or one that a waiting call will make current       *)
(* again, nor make a port current inside the call-with-... that gave it to *)
(* them and will close it; they return to no call that was left or is      *)
(* over; and they catch no error in what (read p) reads.                   *)
CurrentOpen ==
  (pc # "ended" /\ ~Busy({"restore"}) /\ careful) =>
    /\ Is(inport, "input") /\ Is(outport, "output")
    /\ pc = "read" => Is(save_inport, "input")
=============================================================================
