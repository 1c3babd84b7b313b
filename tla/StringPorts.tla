----------------------------- MODULE StringPorts -----------------------------
(***************************************************************************)
(* String ports of src/scheme.c.  A port opened on a string reads from and *)
(* writes into the string's own buffer and stops at its end; a port of     *)
(* (open-output-string) has a buffer of its own, which grows by BLOCK_SIZE *)
(* when it is full.  get-output-string copies what was written.            *)
(*                                                                         *)
(* Addresses are blocks of malloc with offsets.  A port does not keep its  *)
(* string alive: KeepsStrings says that programs do, by holding the string *)
(* as long as the port.  Strings and ports are made while there is memory; *)
(* a buffer that cannot grow drops what does not fit.                      *)
(*                                                                         *)
(* `written' is history: what an accumulating port was given and did not   *)
(* drop.                                                                   *)
(***************************************************************************)
EXTENDS Naturals, Sequences

CONSTANTS Chars, NUL, Space,
          Typed,        \* the characters programs use
          EOFChar,      \* the char whose value is EOF where char is signed
          Strings, Ports, Blocks,
          BLOCK_SIZE, STRING_MAX, \* the strings programs make
          TEXT_MAX,     \* what they write to a port
          KeepsStrings

ASSUME StringPortsAssumption ==
  /\ Typed \cup {NUL, Space, EOFChar} \subseteq Chars /\ Space # NUL /\ EOFChar # NUL
  /\ BLOCK_SIZE \in Nat \ {0} /\ STRING_MAX \in Nat /\ TEXT_MAX \in Nat
  /\ KeepsStrings \in BOOLEAN
  /\ "scratch" \notin Strings /\ Strings \cap Ports = {}

VARIABLES mem,     \* what the blocks in use contain
          string,  \* strvalue and strlength of the strings
          port,
          out      \* the rest of what putchars writes
vars == <<mem, string, port, out>>

Idle == [pos |-> 0, len |-> 0]
Init == mem = <<>> /\ string = <<>> /\ port = <<>> /\ out = Idle

With(f, x, y) == [z \in DOMAIN f \cup {x} |-> IF z = x THEN y ELSE f[z]]
Without(f, S) == [z \in DOMAIN f \ S |-> f[z]]
-----------------------------------------------------------------------------
Available == DOMAIN mem # Blocks
malloc == CHOOSE b \in Blocks : b \notin DOMAIN mem

strlen(b) == CHOOSE n \in DOMAIN mem[b] :
               mem[b][n] = NUL /\ \A k \in 0..(n - 1) : mem[b][k] # NUL

(* store_string: len characters and the NUL                                *)
Filled(len, fill) == [i \in 0..len |-> IF i = len THEN NUL ELSE fill]

NewString(s, len, chars) ==
  /\ s \notin DOMAIN string /\ Available
  /\ mem' = With(mem, malloc, chars)
  /\ string' = With(string, s, [value |-> malloc, length |-> len])
  /\ UNCHANGED port

MakeString(s, len, fill) ==
  /\ out = Idle
  /\ NewString(s, len, Filled(len, fill))
  /\ UNCHANGED out

StringSet(s, k, c) ==
  /\ out = Idle /\ s \in DOMAIN string
  /\ k < string[s].length
  /\ mem' = [mem EXCEPT ![string[s].value][k] = c]
  /\ UNCHANGED <<string, port, out>>
-----------------------------------------------------------------------------
NewPort(p, rep) ==
  /\ out = Idle /\ p \notin DOMAIN port
  /\ port' = With(port, p, rep)
  /\ UNCHANGED <<string, out>>

(* srfi6: the buffer is the port's own                                     *)
Rep(kind, of, start, end) ==
  [kind |-> kind, srfi6 |-> of = "scratch", of |-> of, start |-> start, curr |-> 0,
   past_the_end |-> end, written |-> <<>>]

OpenString(p, s, kind) ==
  /\ s \in DOMAIN string
  /\ NewPort(p, Rep(kind, s, string[s].value, string[s].length))
  /\ UNCHANGED mem

OpenScratch(p) ==
  /\ Available
  /\ NewPort(p, Rep({"output"}, "scratch", malloc, BLOCK_SIZE - 1))
  /\ mem' = With(mem, malloc, Filled(BLOCK_SIZE - 1, Space))

Usable(p, way) == out = Idle /\ p \in DOMAIN port /\ way \in port[p].kind

(* basic_inchar: 0 is the end, also before past_the_end                    *)
AtEnd(p) == mem[port[p].start][port[p].curr] = NUL \/ port[p].curr = port[p].past_the_end

ReadChar(p) ==
  /\ Usable(p, "input")
  /\ port' = IF AtEnd(p) THEN port ELSE [port EXCEPT ![p].curr = @ + 1]
  /\ UNCHANGED <<mem, string, out>>

(* backchar is passed what inchar returned, and does nothing with EOF.     *)
PeekChar(p) ==
  LET isEOF == AtEnd(p) \/ mem[port[p].start][port[p].curr] = EOFChar IN
  /\ Usable(p, "input")
  /\ port' = IF AtEnd(p) \/ ~isEOF THEN port ELSE [port EXCEPT ![p].curr = @ + 1]
  /\ UNCHANGED <<mem, string, out>>

Close(p, way) ==
  /\ Usable(p, way)
  /\ port' = [port EXCEPT ![p].kind = @ \ {way}]
  /\ UNCHANGED <<mem, string, out>>
-----------------------------------------------------------------------------
(* (display s p), without its loop                                         *)
Display(s, p) ==
  /\ Usable(p, "output") /\ s \in DOMAIN string
  /\ port[p].srfi6 => Len(port[p].written) + strlen(string[s].value) <= TEXT_MAX
  /\ out' = IF strlen(string[s].value) = 0 THEN Idle
            ELSE [pos |-> 0, len |-> strlen(string[s].value), from |-> s, to |-> p]
  /\ UNCHANGED <<mem, string, port>>

(* Mutant: the new buffer is blanked after the copy.                       *)
GrownBlank(p) ==
  LET last == port[p].past_the_end + BLOCK_SIZE IN
  [i \in 0..last |-> IF i = last THEN NUL ELSE Space]

(* The text up to the first NUL is copied.                                 *)
Grown(p) ==
  LET old == port[p].start
      last == port[p].past_the_end + BLOCK_SIZE IN
  [i \in 0..last |-> IF i <= strlen(old) THEN mem[old][i]
                     ELSE IF i = last THEN NUL ELSE Space]

(* Mutant: the end is that of the block.                                   *)
realloc_past_end(p, c) ==
  /\ mem' = With(Without(mem, {port[p].start}), malloc,
                 [Grown(p) EXCEPT ![port[p].curr] = c])
  /\ port' = [port EXCEPT ![p].start = malloc,
                          ![p].past_the_end = @ + BLOCK_SIZE + 1,
                          ![p].curr = @ + 1, ![p].written = Append(@, c)]

realloc_port_string(p, c) ==
  /\ mem' = With(Without(mem, {port[p].start}), malloc,
                 [Grown(p) EXCEPT ![port[p].curr] = c])
  /\ port' = [port EXCEPT ![p].start = malloc,
                          ![p].past_the_end = @ + BLOCK_SIZE,
                          ![p].curr = @ + 1, ![p].written = Append(@, c)]

Log(p, c) == IF port[p].srfi6 THEN Append(port[p].written, c) ELSE <<>>

(* One round of the loop of putchars: what does not fit is dropped.        *)
PutChar ==
  LET p == out.to
      c == mem[string[out.from].value][out.pos]
      room == port[p].curr # port[p].past_the_end IN
  /\ out # Idle
  /\ \/ /\ room
        /\ mem' = [mem EXCEPT ![port[p].start][port[p].curr] = c]
        /\ port' = [port EXCEPT ![p].curr = @ + 1, ![p].written = Log(p, c)]
     \/ ~room /\ port[p].srfi6 /\ Available /\ realloc_port_string(p, c)
     \/ ~room /\ ~(port[p].srfi6 /\ Available) /\ UNCHANGED <<mem, port>>
  /\ out' = IF out.pos + 1 = out.len THEN Idle ELSE [out EXCEPT !.pos = @ + 1]
  /\ UNCHANGED <<string>>

(* Mutant: the new string takes the port's buffer.                         *)
GetOutStringShares(p, s) ==
  /\ Usable(p, "output") /\ s \notin DOMAIN string
  /\ string' = With(string, s, [value |-> port[p].start, length |-> port[p].curr])
  /\ UNCHANGED <<mem, port, out>>

(* mk_string of the copy takes the text up to the first NUL.               *)
GetOutString(p, s) ==
  LET text == mem[port[p].start]
      curr == port[p].curr
      len == CHOOSE n \in 0..curr : /\ n = curr \/ text[n] = NUL
                                    /\ \A k \in 0..(n - 1) : text[k] # NUL IN
  /\ Usable(p, "output")
  /\ NewString(s, len, [i \in 0..len |-> IF i = len THEN NUL ELSE text[i]])
  /\ UNCHANGED out
-----------------------------------------------------------------------------
(* The program drops some strings and ports and the collector sweeps them: *)
(* finalize_cell frees the buffer of a string, and of a port nothing but   *)
(* its port structure.                                                     *)
Gc(gone) ==
  /\ out = Idle
  /\ KeepsStrings => \A p \in DOMAIN port : port[p].of \in gone => p \in gone
  /\ mem' = Without(mem, {string[s].value : s \in gone \cap DOMAIN string})
  /\ string' = Without(string, gone)
  /\ port' = Without(port, gone)
  /\ UNCHANGED out

Next ==
  \/ \E s \in Strings :
       \/ \E len \in 0..STRING_MAX, fill \in Typed : MakeString(s, len, fill)
       \/ \E k \in 0..(STRING_MAX + TEXT_MAX), c \in Typed :
            StringSet(s, k, c)
       \/ \E p \in Ports : \/ \E kind \in (SUBSET {"input", "output"}) \ {{}} :
                                OpenString(p, s, kind)
                           \/ Display(s, p) \/ GetOutString(p, s)
  \/ \E p \in Ports : \/ OpenScratch(p) \/ ReadChar(p) \/ PeekChar(p)
                      \/ \E way \in {"input", "output"} : Close(p, way)
  \/ PutChar
  \/ \E gone \in SUBSET (DOMAIN string \cup DOMAIN port) : Gc(gone)

Spec == Init /\ [][Next]_vars
-----------------------------------------------------------------------------
(* An accumulating port has what was written to it, however often its      *)
(* buffer was full.                                                        *)
Landed ==
  \A p \in DOMAIN port : port[p].srfi6 =>
    /\ port[p].curr = Len(port[p].written)
    /\ \A k \in 1..port[p].curr : mem[port[p].start][k - 1] = port[p].written[k]

(* No two of the strings and accumulating ports share a buffer, and each   *)
(* buffer ends with the NUL that strlen and strcpy look for.               *)
Owned ==
  /\ \A s \in DOMAIN string : string[s].value \in DOMAIN mem
  /\ \A s, r \in DOMAIN string : string[s].value = string[r].value => s = r
  /\ \A p \in DOMAIN port : port[p].srfi6 =>
       /\ port[p].start \in DOMAIN mem
       /\ \A s \in DOMAIN string : string[s].value # port[p].start
       /\ \A q \in DOMAIN port : port[q].start = port[p].start => p = q

Ended(b, n) == DOMAIN mem[b] = 0..n /\ mem[b][n] = NUL
Terminated ==
  /\ \A s \in DOMAIN string : Ended(string[s].value, string[s].length)
  /\ \A p \in DOMAIN port :
       Ended(port[p].start, port[p].past_the_end) /\ port[p].curr <= port[p].past_the_end

BuffersSound == Owned /\ Terminated

(* A string that a program has changes by string-set! on it and by writing *)
(* to a port it was opened with; what get-output-string returned does not  *)
(* change when more is written.                                            *)
Contents(s) == IF string[s].value \in DOMAIN mem THEN mem[string[s].value] ELSE <<>>
Snapshot ==
  [][\A s \in DOMAIN string :
       \/ s \notin DOMAIN string' \/ Contents(s)' = Contents(s)
       \/ \E k \in 0..string[s].length, c \in Typed : StringSet(s, k, c)
       \/ PutChar /\ port[out.to].of = s]_vars

(* Manual.txt:173: I/O is "As per R5RS", where peek-char returns the next  *)
(* character "without updating the port to point to the following          *)
(* character".                                                             *)
PeekKeeps == [][\A p \in Ports : PeekChar(p) => port' = port]_vars

(* Manual.txt:186: "Strings can be used with I/O routines."                *)
BuffersLive == \A p \in DOMAIN port : port[p].start \in DOMAIN mem
=============================================================================
