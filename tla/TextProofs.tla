----------------------------- MODULE TextProofs -----------------------------
(***************************************************************************)
(* Proofs about what is done with text: string ports (StringPorts), the    *)
(* reader (Reader) and names (Symbols).  For any characters, numbers of    *)
(* strings, ports and blocks, and sizes: if programs hold the strings of   *)
(* their open ports, an accumulating port has what was written to it,      *)
(* buffers have one owner, and end with a NUL.  For any data and texts:    *)
(* nesting_stack has what was opened and not closed.  For any names,       *)
(* however they fall into the buckets: every symbol is found by its        *)
(* spelling, those of gensym too, and every variable has the value it was  *)
(* last given.                                                             *)
(***************************************************************************)
EXTENDS StringPorts, Reader, Symbols, FiniteSetTheorems, SequenceTheorems,
        WellFoundedInduction, TLAPS

Buffer(b, n) == /\ n \in Nat /\ b \in DOMAIN mem
                /\ mem[b] \in [0..n -> Chars] /\ mem[b][n] = NUL

StringOK(s) == s \in Strings /\ Buffer(string[s].value, string[s].length)

PortRep == [kind : SUBSET {"input", "output"}, srfi6 : BOOLEAN,
            of : Strings \cup {"scratch"}, start : Blocks, curr : Nat,
            past_the_end : Nat, written : Seq(Chars)]

(* An accumulating port has its buffer to itself, ...                      *)
ScratchOK(p) ==
  /\ port[p].kind \subseteq {"output"}
  /\ Buffer(port[p].start, port[p].past_the_end)
  /\ port[p].curr = Len(port[p].written)
  /\ \A k \in 1..port[p].curr :
       mem[port[p].start][k - 1] = port[p].written[k] /\ port[p].written[k] # NUL
  /\ \A s \in DOMAIN string : string[s].value # port[p].start
  /\ \A q \in DOMAIN port : port[q].start = port[p].start => p = q

(* ... any other the buffer of its string.                                 *)
OnString(p) ==
  /\ port[p].of \in DOMAIN string
  /\ port[p].start = string[port[p].of].value
  /\ port[p].past_the_end = string[port[p].of].length

PortOK(p) ==
  /\ p \in Ports /\ port[p] \in PortRep
  /\ port[p].curr <= port[p].past_the_end
  /\ port[p].srfi6 => ScratchOK(p)
  /\ ~port[p].srfi6 => OnString(p)

(* What is still to be written contains no NUL.                            *)
Writing ==
  /\ out \in [pos : Nat, len : Nat, from : DOMAIN string, to : DOMAIN port]
  /\ out.pos < out.len /\ out.len <= string[out.from].length
  /\ \A k \in out.pos..(out.len - 1) : mem[string[out.from].value][k] # NUL

IInv ==
  /\ DOMAIN mem \subseteq Blocks
  /\ \A s \in DOMAIN string : StringOK(s)
  /\ \A s, r \in DOMAIN string : string[s].value = string[r].value => s = r
  /\ \A p \in DOMAIN port : PortOK(p)
  /\ out = Idle \/ Writing
-----------------------------------------------------------------------------
LEMMA Least ==
  ASSUME NEW T, T \subseteq Nat, T # {}
  PROVE  \E m \in T : \A k \in T : m <= k
<1>1. PICK m \in T : \A k \in T : ~(<<k, m>> \in OpToRel(<, Nat))
  BY NatLessThanWellFounded, WFMin, Zenon
<1>2. ASSUME NEW k \in T PROVE m <= k
  <2>1. ~(<<k, m>> \in OpToRel(<, Nat))
    BY <1>1
  <2>2. ~(k < m)
    BY <2>1 DEF OpToRel
  <2> QED BY <2>2
<1> QED BY <1>2

(* strlen stops at the first NUL.                                          *)
LEMMA StrLen ==
  ASSUME NEW b, NEW n, Buffer(b, n)
  PROVE  /\ strlen(b) \in 0..n /\ mem[b][strlen(b)] = NUL
         /\ \A k \in 0..(strlen(b) - 1) : mem[b][k] # NUL
<1> DEFINE T == {m \in 0..n : mem[b][m] = NUL}
<1>1. T \subseteq Nat /\ n \in T /\ DOMAIN mem[b] = 0..n /\ n \in Nat
  BY DEF Buffer
<1>2. PICK m \in T : \A k \in T : m <= k
  BY <1>1, Least
<1>3. m \in 0..n /\ mem[b][m] = NUL /\ \A k \in 0..(m - 1) : mem[b][k] # NUL
  BY <1>1, <1>2
<1> QED BY <1>1, <1>3 DEF strlen

LEMMA Malloc == IInv /\ Available => malloc \in Blocks \ DOMAIN mem
BY DEF IInv, Available, malloc

LEMMA IInvImplies == IInv => Landed /\ Owned /\ Terminated
<1> SUFFICES ASSUME IInv PROVE Landed /\ Owned /\ Terminated
  OBVIOUS
<1>1. Landed
  BY DEF IInv, PortOK, ScratchOK, Landed
<1>2. Owned
  BY DEF IInv, StringOK, Buffer, PortOK, ScratchOK, Owned
<1>3. Terminated
  <2>1. ASSUME NEW s \in DOMAIN string PROVE Ended(string[s].value, string[s].length)
    BY DEF IInv, StringOK, Buffer, Ended
  <2>2. ASSUME NEW p \in DOMAIN port
        PROVE  Ended(port[p].start, port[p].past_the_end)
               /\ port[p].curr <= port[p].past_the_end
    BY <2>1 DEF IInv, PortOK, ScratchOK, OnString, Buffer, Ended
  <2> QED BY <2>1, <2>2 DEF Terminated
<1> QED BY <1>1, <1>2, <1>3
-----------------------------------------------------------------------------
(* A new string takes a block that was free.                               *)
LEMMA NewStringIInv ==
  ASSUME IInv, out = Idle, UNCHANGED out, NEW s \in Strings, NEW len \in Nat,
         NEW chars \in [0..len -> Chars], chars[len] = NUL, NewString(s, len, chars)
  PROVE  IInv'
<1> DEFINE b == malloc
<1>1. b \in Blocks /\ b \notin DOMAIN mem
  BY Malloc DEF NewString
<1> HIDE DEF b
<1>2. /\ DOMAIN mem' = DOMAIN mem \cup {b} /\ mem'[b] = chars
      /\ \A c \in DOMAIN mem : mem'[c] = mem[c]
  BY <1>1 DEF NewString, With, b
<1>3. /\ s \notin DOMAIN string /\ DOMAIN string' = DOMAIN string \cup {s}
      /\ string'[s].value = b /\ string'[s].length = len
      /\ \A r \in DOMAIN string : string'[r] = string[r]
  BY DEF NewString, With, b
<1>4. port' = port
  BY DEF NewString
<1>5. ASSUME NEW r \in DOMAIN string' PROVE StringOK(r)'
  BY <1>1, <1>2, <1>3 DEF IInv, StringOK, Buffer
<1>6. ASSUME NEW r \in DOMAIN string', NEW q \in DOMAIN string',
             string'[r].value = string'[q].value
      PROVE  r = q
  BY <1>1, <1>3, <1>6 DEF IInv, StringOK, Buffer
<1>7. ASSUME NEW p \in DOMAIN port' PROVE PortOK(p)'
  <2>1. PortOK(p)
    BY <1>4 DEF IInv
  <2>2. ASSUME port[p].srfi6 PROVE ScratchOK(p)'
    BY <2>1, <2>2, <1>1, <1>2, <1>3, <1>4 DEF PortOK, ScratchOK, Buffer
  <2>3. ASSUME ~port[p].srfi6 PROVE OnString(p)'
    BY <2>1, <2>3, <1>3, <1>4 DEF PortOK, OnString
  <2> QED BY <2>1, <2>2, <2>3, <1>4 DEF PortOK
<1> QED BY <1>1, <1>2, <1>5, <1>6, <1>7 DEF IInv

LEMMA RepOK ==
  ASSUME NEW kind \in SUBSET {"input", "output"}, NEW of \in Strings \cup {"scratch"},
         NEW start \in Blocks, NEW end \in Nat
  PROVE  LET rep == Rep(kind, of, start, end) IN
         /\ rep \in PortRep
         /\ rep.kind = kind /\ rep.of = of /\ rep.start = start /\ rep.curr = 0
         /\ rep.past_the_end = end /\ rep.written = <<>>
         /\ rep.srfi6 <=> of = "scratch"
<1>1. (of = "scratch") \in BOOLEAN /\ <<>> \in Seq(Chars) /\ 0 \in Nat
  OBVIOUS
<1>2. ASSUME NEW b \in BOOLEAN, NEW w \in Seq(Chars)
      PROVE  [kind |-> kind, srfi6 |-> b, of |-> of, start |-> start, curr |-> 0,
              past_the_end |-> end, written |-> w] \in PortRep
  BY DEF PortRep
<1>3. Rep(kind, of, start, end) \in PortRep
  BY <1>1, <1>2, Zenon DEF Rep
<1> QED BY <1>3, Zenon DEF Rep

(* A program changes a string, not the text that is being written.         *)
LEMMA StringSetIInv ==
  ASSUME IInv, NEW s \in Strings, NEW k \in Nat, NEW c \in Typed, StringSet(s, k, c)
  PROVE  IInv'
<1> DEFINE b == string[s].value
<1>1. /\ s \in DOMAIN string /\ k < string[s].length /\ out = Idle
      /\ UNCHANGED <<string, port, out>>
      /\ mem' = [mem EXCEPT ![b][k] = c]
  BY DEF StringSet
<1>2. Buffer(b, string[s].length) /\ c \in Chars
  BY <1>1, StringPortsAssumption DEF IInv, StringOK
<1> HIDE DEF b
<1>3. DOMAIN mem' = DOMAIN mem /\ \A d \in DOMAIN mem \ {b} : mem'[d] = mem[d]
  BY <1>1
<1>4. Buffer(b, string[s].length)'
  <2>1. b' = b /\ string[s]' = string[s]
    BY <1>1 DEF b
  <2>2. mem'[b] = [mem[b] EXCEPT ![k] = c]
    BY <1>1, <1>2 DEF Buffer
  <2>3. mem'[b] \in [0..string[s].length -> Chars] /\ mem'[b][string[s].length] = NUL
    BY <1>1, <1>2, <2>2 DEF Buffer
  <2> QED BY <1>2, <1>3, <2>1, <2>3 DEF Buffer
<1>5. ASSUME NEW r \in DOMAIN string PROVE StringOK(r)'
  <2>1. CASE r = s
    BY <2>1, <1>1, <1>4 DEF StringOK, b
  <2>2. CASE r # s
    BY <2>2, <1>1, <1>3 DEF IInv, StringOK, Buffer, b
  <2> QED BY <2>1, <2>2
<1>6. ASSUME NEW p \in DOMAIN port PROVE PortOK(p)'
  <2>1. PortOK(p) /\ (port[p].srfi6 => port[p].start # b)
    BY <1>1 DEF IInv, PortOK, ScratchOK, b
  <2> QED BY <2>1, <1>1, <1>3 DEF PortOK, ScratchOK, OnString, Buffer
<1> QED BY <1>1, <1>3, <1>5, <1>6 DEF IInv

LEMMA OpenStringIInv ==
  ASSUME IInv, NEW p \in Ports, NEW s \in Strings,
         NEW kind \in SUBSET {"input", "output"}, OpenString(p, s, kind)
  PROVE  IInv'
<1> DEFINE rep == Rep(kind, s, string[s].value, string[s].length)
<1>1. /\ s \in DOMAIN string /\ out = Idle /\ p \notin DOMAIN port
      /\ UNCHANGED <<mem, string, out>>
      /\ DOMAIN port' = DOMAIN port \cup {p} /\ port'[p] = rep
      /\ \A q \in DOMAIN port : port'[q] = port[q]
  BY DEF OpenString, NewPort, With
<1>2. StringOK(s) /\ string[s].value \in Blocks
  BY <1>1 DEF IInv, StringOK, Buffer
<1>3. s # "scratch"
  BY StringPortsAssumption
<1>4. /\ rep \in PortRep /\ rep.curr = 0 /\ ~rep.srfi6 /\ rep.of = s
      /\ rep.start = string[s].value /\ rep.past_the_end = string[s].length
  <2> DEFINE b == string[s].value
             end == string[s].length
  <2>1. end \in Nat /\ b \in Blocks
    BY <1>2 DEF StringOK, Buffer
  <2> HIDE DEF b, end
  <2>2. /\ Rep(kind, s, b, end) \in PortRep
        /\ Rep(kind, s, b, end).curr = 0 /\ ~Rep(kind, s, b, end).srfi6
        /\ Rep(kind, s, b, end).of = s /\ Rep(kind, s, b, end).start = b
        /\ Rep(kind, s, b, end).past_the_end = end
    BY <2>1, <1>3, RepOK
  <2> QED BY <2>2 DEF b, end
<1> HIDE DEF rep
<1>5. PortOK(p)'
  BY <1>1, <1>2, <1>4 DEF PortOK, OnString, StringOK, Buffer
<1>6. ASSUME NEW q \in DOMAIN port PROVE PortOK(q)'
  <2>1. PortOK(q)
    BY DEF IInv
  <2>2. ASSUME port[q].srfi6 PROVE ScratchOK(q)'
    BY <2>1, <2>2, <1>1, <1>4 DEF PortOK, ScratchOK, Buffer
  <2> QED BY <2>1, <2>2, <1>1 DEF PortOK, OnString
<1> QED BY <1>1, <1>5, <1>6 DEF IInv, StringOK, Buffer

LEMMA OpenScratchIInv ==
  ASSUME IInv, NEW p \in Ports, OpenScratch(p)
  PROVE  IInv'
<1> DEFINE b == malloc
           end == BLOCK_SIZE - 1
           rep == Rep({"output"}, "scratch", b, end)
<1>1. b \in Blocks /\ b \notin DOMAIN mem
  BY Malloc DEF OpenScratch
<1>2. end \in Nat
  BY StringPortsAssumption
<1>3. Filled(end, Space) \in [0..end -> Chars] /\ Filled(end, Space)[end] = NUL
  BY <1>2, StringPortsAssumption DEF Filled
<1> HIDE DEF b, end
<1>4. /\ out = Idle /\ p \notin DOMAIN port /\ UNCHANGED <<string, out>>
      /\ DOMAIN port' = DOMAIN port \cup {p} /\ port'[p] = rep
      /\ \A q \in DOMAIN port : port'[q] = port[q]
      /\ DOMAIN mem' = DOMAIN mem \cup {b} /\ mem'[b] = Filled(end, Space)
      /\ \A c \in DOMAIN mem : mem'[c] = mem[c]
  BY <1>1 DEF OpenScratch, NewPort, With, b, end
<1>5. /\ rep \in PortRep /\ rep.kind = {"output"} /\ rep.curr = 0 /\ rep.srfi6
      /\ rep.start = b /\ rep.past_the_end = end /\ rep.written = <<>>
  BY <1>1, <1>2, RepOK
<1> HIDE DEF rep
<1>6. ASSUME NEW s \in DOMAIN string PROVE StringOK(s)' /\ string[s].value # b
  BY <1>1, <1>4 DEF IInv, StringOK, Buffer
<1>7. ASSUME NEW q \in DOMAIN port PROVE PortOK(q)' /\ port[q].start # b
  <2>1. PortOK(q)
    BY DEF IInv
  <2>2. port[q].start \in DOMAIN mem
    BY <2>1 DEF PortOK, ScratchOK, OnString, IInv, StringOK, Buffer
  <2>3. ASSUME port[q].srfi6 PROVE ScratchOK(q)'
    BY <2>1, <2>2, <2>3, <1>1, <1>4, <1>5 DEF PortOK, ScratchOK, Buffer
  <2> QED BY <2>1, <2>2, <2>3, <1>1, <1>4 DEF PortOK, OnString
<1>8. PortOK(p)'
  <2>1. ScratchOK(p)'
    BY <1>2, <1>3, <1>4, <1>5, <1>6, <1>7 DEF ScratchOK, Buffer
  <2> QED BY <2>1, <1>2, <1>4, <1>5 DEF PortOK
<1> QED BY <1>1, <1>4, <1>6, <1>7, <1>8 DEF IInv

(* Reading and closing change curr, within the buffer, and kind.           *)
LEMMA MovedIInv ==
  ASSUME IInv, UNCHANGED <<mem, string, out>>, out = Idle, NEW p \in DOMAIN port,
         DOMAIN port' = DOMAIN port, \A q \in DOMAIN port \ {p} : port'[q] = port[q],
         port'[p] \in PortRep, port'[p].curr <= port'[p].past_the_end,
         port'[p].of = port[p].of, port'[p].srfi6 = port[p].srfi6,
         port'[p].start = port[p].start, port'[p].past_the_end = port[p].past_the_end,
         port'[p].kind \subseteq port[p].kind,
         port[p].srfi6 => port'[p].curr = port[p].curr
                          /\ port'[p].written = port[p].written
  PROVE  IInv'
<1>1. ASSUME NEW q \in DOMAIN port PROVE PortOK(q)'
  <2>1. PortOK(q)
    BY DEF IInv
  <2>2. /\ port'[q] \in PortRep /\ port'[q].curr <= port'[q].past_the_end
        /\ port'[q].of = port[q].of /\ port'[q].srfi6 = port[q].srfi6
        /\ port'[q].start = port[q].start
        /\ port'[q].past_the_end = port[q].past_the_end
        /\ port'[q].kind \subseteq port[q].kind
        /\ port[q].srfi6 => port'[q].curr = port[q].curr
                            /\ port'[q].written = port[q].written
    BY <2>1 DEF PortOK
  <2>3. \A r \in DOMAIN port : port'[r].start = port[r].start
    OBVIOUS
  <2>4. ASSUME port[q].srfi6 PROVE ScratchOK(q)'
    BY <2>1, <2>2, <2>3, <2>4 DEF PortOK, ScratchOK, Buffer
  <2>5. ASSUME ~port[q].srfi6 PROVE OnString(q)'
    BY <2>1, <2>2, <2>5 DEF PortOK, OnString
  <2> QED BY <2>1, <2>2, <2>4, <2>5 DEF PortOK
<1> QED BY <1>1 DEF IInv, StringOK, Buffer

LEMMA ReadIInv ==
  ASSUME IInv, NEW p \in Ports, ReadChar(p) \/ PeekChar(p)
  PROVE  IInv'
<1>1. /\ out = Idle /\ p \in DOMAIN port /\ "input" \in port[p].kind
      /\ UNCHANGED <<mem, string, out>>
  BY DEF ReadChar, PeekChar, Usable
<1>2. PortOK(p) /\ ~port[p].srfi6
  BY <1>1 DEF IInv, PortOK, ScratchOK
<1>3. CASE port' = port
  <2>1. \A q \in DOMAIN port : port[q] \in PortRep
    BY DEF IInv, PortOK
  <2> QED BY <1>1, <1>2, <1>3, <2>1, MovedIInv DEF PortOK
<1>4. CASE port' = [port EXCEPT ![p].curr = @ + 1] /\ ~AtEnd(p)
  <2>1. port[p].curr # port[p].past_the_end
    BY <1>4 DEF AtEnd
  <2>2. port[p] \in PortRep /\ port[p].curr <= port[p].past_the_end
    BY <1>2 DEF PortOK
  <2>3. port[p].curr + 1 \in Nat /\ port[p].curr + 1 <= port[p].past_the_end
    BY <2>1, <2>2 DEF PortRep
  <2>4. port'[p] = [port[p] EXCEPT !.curr = @ + 1]
    BY <1>1, <1>4
  <2>5. port'[p] \in PortRep
    BY <2>2, <2>3, <2>4 DEF PortRep
  <2>6. /\ DOMAIN port' = DOMAIN port
        /\ \A q \in DOMAIN port \ {p} : port'[q] = port[q]
    BY <1>4
  <2>7. /\ port'[p].curr = port[p].curr + 1 /\ port'[p].of = port[p].of
        /\ port'[p].srfi6 = port[p].srfi6 /\ port'[p].start = port[p].start
        /\ port'[p].past_the_end = port[p].past_the_end
        /\ port'[p].kind = port[p].kind
    BY <2>2, <2>4 DEF PortRep
  <2> QED BY <1>1, <1>2, <2>3, <2>5, <2>6, <2>7, MovedIInv
<1> QED BY <1>3, <1>4 DEF ReadChar, PeekChar

LEMMA CloseIInv ==
  ASSUME IInv, NEW p \in Ports, NEW way \in {"input", "output"}, Close(p, way)
  PROVE  IInv'
<1>1. /\ out = Idle /\ p \in DOMAIN port /\ UNCHANGED <<mem, string, out>>
      /\ port' = [port EXCEPT ![p].kind = @ \ {way}]
  BY DEF Close, Usable
<1>2. port[p] \in PortRep /\ port[p].curr <= port[p].past_the_end
  BY <1>1 DEF IInv, PortOK
<1>3. port'[p] = [port[p] EXCEPT !.kind = @ \ {way}]
  BY <1>1
<1>4. port'[p] \in PortRep
  BY <1>2, <1>3 DEF PortRep
<1>5. /\ port'[p].curr = port[p].curr /\ port'[p].of = port[p].of
      /\ port'[p].srfi6 = port[p].srfi6 /\ port'[p].start = port[p].start
      /\ port'[p].past_the_end = port[p].past_the_end
      /\ port'[p].kind = port[p].kind \ {way} /\ port'[p].written = port[p].written
  BY <1>2, <1>3 DEF PortRep
<1>6. DOMAIN port' = DOMAIN port /\ \A q \in DOMAIN port \ {p} : port'[q] = port[q]
  BY <1>1
<1> QED BY <1>1, <1>2, <1>4, <1>5, <1>6, MovedIInv

LEMMA DisplayIInv ==
  ASSUME IInv, NEW s \in Strings, NEW p \in Ports, Display(s, p)
  PROVE  IInv'
<1> DEFINE b == string[s].value
<1>1. s \in DOMAIN string /\ p \in DOMAIN port /\ UNCHANGED <<mem, string, port>>
  BY DEF Display, Usable
<1>2. Buffer(b, string[s].length)
  BY <1>1 DEF IInv, StringOK
<1>3. /\ strlen(b) \in 0..string[s].length /\ string[s].length \in Nat
      /\ \A k \in 0..(strlen(b) - 1) : mem[b][k] # NUL
  BY <1>2, StrLen DEF Buffer
<1>4. out' = Idle \/ Writing'
  <2>1. CASE strlen(b) = 0
    BY <2>1 DEF Display
  <2>2. CASE strlen(b) # 0
    <3>1. out' = [pos |-> 0, len |-> strlen(b), from |-> s, to |-> p]
      BY <2>2 DEF Display
    <3> HIDE DEF b
    <3>2. /\ out'.pos = 0 /\ out'.len = strlen(b) /\ out'.from = s
          /\ out' \in [pos : Nat, len : Nat, from : DOMAIN string, to : DOMAIN port]
      BY <3>1, <1>1, <1>3
    <3> QED BY <3>2, <1>1, <1>3, <2>2 DEF Writing, b
  <2> QED BY <2>1, <2>2
<1> QED BY <1>1, <1>4 DEF IInv, StringOK, PortOK, ScratchOK, OnString, Buffer, Idle

LEMMA GetOutStringIInv ==
  ASSUME IInv, NEW p \in Ports, NEW s \in Strings, GetOutString(p, s)
  PROVE  IInv'
<1> DEFINE buffer == mem[port[p].start]
           curr == port[p].curr
           Stops(n) == (n = curr \/ buffer[n] = NUL) /\ \A k \in 0..(n - 1) : buffer[k] # NUL
           len == CHOOSE n \in 0..curr : Stops(n)
           chars == [i \in 0..len |-> IF i = len THEN NUL ELSE buffer[i]]
           T == {n \in 0..curr : n = curr \/ buffer[n] = NUL}
<1>1. out = Idle /\ UNCHANGED out /\ p \in DOMAIN port /\ NewString(s, len, chars)
  BY DEF GetOutString, Usable
<1>2. /\ curr \in 0..port[p].past_the_end /\ port[p].past_the_end \in Nat
      /\ buffer \in [0..port[p].past_the_end -> Chars]
  BY <1>1 DEF IInv, PortOK, PortRep, ScratchOK, OnString, StringOK, Buffer
<1>3. len \in 0..curr
  <2>1. T \subseteq Nat /\ curr \in T
    BY <1>2
  <2>2. PICK n \in T : \A k \in T : n <= k
    BY <2>1, Least
  <2>3. n \in 0..curr /\ Stops(n)
    BY <2>1, <2>2, <1>2
  <2> HIDE DEF Stops
  <2> QED BY <2>3
<1> HIDE DEF len
<1>4. chars \in [0..len -> Chars] /\ chars[len] = NUL /\ len \in Nat
  <2>1. \A i \in 0..len : buffer[i] \in Chars /\ NUL \in Chars
    BY <1>2, <1>3, StringPortsAssumption
  <2> QED BY <2>1, <1>2, <1>3
<1> HIDE DEF chars
<1> QED BY <1>1, <1>4, NewStringIInv
-----------------------------------------------------------------------------
(* A character that is written is put at curr, ...                         *)
LEMMA RoomIInv ==
  ASSUME IInv, Writing, PutChar, port[out.to].curr # port[out.to].past_the_end
  PROVE  IInv'
<1>0. PICK p \in DOMAIN port, s \in DOMAIN string : p = out.to /\ s = out.from
  BY DEF Writing
<1> DEFINE b == port[p].start
           n == port[p].past_the_end
           k == port[p].curr
           c == mem[string[s].value][out.pos]
<1>1. /\ mem' = [mem EXCEPT ![b][k] = c]
      /\ port' = [port EXCEPT ![p].curr = @ + 1, ![p].written = Log(p, c)]
      /\ out' = IF out.pos + 1 = out.len THEN Idle ELSE [out EXCEPT !.pos = @ + 1]
      /\ string' = string
  BY <1>0 DEF PutChar
<1>2. /\ p \in DOMAIN port /\ s \in DOMAIN string /\ out.pos \in Nat /\ out.len \in Nat
      /\ out.pos < out.len /\ out.len <= string[s].length
      /\ \A i \in out.pos..(out.len - 1) : mem[string[s].value][i] # NUL
  BY <1>0 DEF Writing
<1>3. c \in Chars /\ c # NUL
  BY <1>2 DEF IInv, StringOK, Buffer
<1>4. PortOK(p) /\ port[p] \in PortRep
  BY <1>2 DEF IInv, PortOK
<1>5. Buffer(b, n) /\ n \in Nat /\ k \in 0..(n - 1)
  BY <1>0, <1>4 DEF PortOK, PortRep, ScratchOK, OnString, IInv, StringOK, Buffer
<1>6. /\ Log(p, c) \in Seq(Chars)
      /\ port[p].srfi6 => Log(p, c) = Append(port[p].written, c)
  BY <1>3, <1>4 DEF Log, PortRep
<1> DEFINE w == Log(p, c)
<1> HIDE DEF b, n, k, c, w
<1>7. /\ DOMAIN mem' = DOMAIN mem /\ mem'[b] = [mem[b] EXCEPT ![k] = c]
      /\ \A d \in DOMAIN mem \ {b} : mem'[d] = mem[d]
  BY <1>1, <1>5 DEF Buffer
<1>8. /\ DOMAIN mem'[b] = DOMAIN mem[b] /\ mem'[b][k] = c
      /\ \A i \in DOMAIN mem[b] \ {k} : mem'[b][i] = mem[b][i]
      /\ mem'[b] \in [0..n -> Chars] /\ mem'[b][n] = NUL
  BY <1>3, <1>5, <1>7 DEF Buffer
<1>9. ASSUME NEW d, NEW m, Buffer(d, m)
      PROVE  d \in DOMAIN mem' /\ mem'[d] \in [0..m -> Chars] /\ mem'[d][m] = NUL
  <2>1. CASE d = b
    <3>1. m = n
      <4>1. DOMAIN mem[b] = 0..n /\ DOMAIN mem[b] = 0..m /\ m \in Nat
        BY <1>5, <1>9, <2>1 DEF Buffer
      <4> QED BY <4>1, <1>5
    <3> QED BY <3>1, <2>1, <1>8, <1>7, <1>9 DEF Buffer
  <2>2. CASE d # b
    BY <2>2, <1>7, <1>9 DEF Buffer
  <2> QED BY <2>1, <2>2
<1>10. ASSUME NEW r \in DOMAIN string PROVE StringOK(r)'
  BY <1>1, <1>9 DEF IInv, StringOK, Buffer
<1>11. out' = Idle \/ Writing'
  <2>1. CASE out.pos + 1 = out.len
    BY <2>1, <1>1
  <2>2. CASE out.pos + 1 # out.len
    <3>1. out' = [out EXCEPT !.pos = @ + 1] /\ out.pos + 1 < out.len
      BY <2>2, <1>1, <1>2
    <3>2. out \in [pos : Nat, len : Nat, from : DOMAIN string, to : DOMAIN port]
      BY DEF Writing
    <3>3. DOMAIN port' = DOMAIN port
      BY <1>1
    <3>4. /\ out' \in [pos : Nat, len : Nat, from : DOMAIN string', to : DOMAIN port']
          /\ out'.pos = out.pos + 1 /\ out'.len = out.len /\ out'.from = out.from
      BY <3>1, <3>2, <3>3, <1>1, <1>2
    <3>5. ASSUME NEW i \in (out.pos + 1)..(out.len - 1)
          PROVE  mem'[string[s].value][i] # NUL
      <4>1. /\ mem[string[s].value][i] # NUL
            /\ i \in DOMAIN mem[string[s].value] /\ string[s].value \in DOMAIN mem
        BY <1>2 DEF IInv, StringOK, Buffer
      <4> QED BY <4>1, <1>3, <1>7, <1>8
    <3> QED BY <3>1, <3>4, <3>5, <1>0, <1>1, <1>2 DEF Writing
  <2> QED BY <2>1, <2>2
<1>12. /\ DOMAIN port' = DOMAIN port /\ \A q \in DOMAIN port \ {p} : port'[q] = port[q]
       /\ port'[p] = [port[p] EXCEPT !.curr = k + 1, !.written = w]
  BY <1>1, <1>2 DEF k, w
<1>13. /\ port'[p] \in PortRep /\ port'[p].curr = k + 1 /\ port'[p].written = w
       /\ port'[p].kind = port[p].kind /\ port'[p].srfi6 = port[p].srfi6
       /\ port'[p].of = port[p].of /\ port'[p].start = b /\ port'[p].past_the_end = n
  <2>1. w \in Seq(Chars) /\ k + 1 \in Nat
    BY <1>5, <1>6 DEF w
  <2>2. port'[p] \in PortRep
    BY <2>1, <1>4, <1>12 DEF PortRep
  <2>3. DOMAIN port[p] = {"kind", "srfi6", "of", "start", "curr", "past_the_end", "written"}
    BY <1>4 DEF PortRep
  <2> QED BY <2>2, <2>3, <1>12 DEF b, n
<1>14. ASSUME NEW q \in DOMAIN port PROVE PortOK(q)'
  <2>1. PortOK(q) /\ \A r \in DOMAIN port : port'[r].start = port[r].start
    BY <1>12, <1>13 DEF IInv, b
  <2>2. CASE q = p
    <3>1. ASSUME port[p].srfi6 PROVE ScratchOK(p)'
      <4>1. /\ k = Len(port[p].written) /\ port[p].written \in Seq(Chars)
            /\ \A i \in 1..k : mem[b][i - 1] = port[p].written[i]
                               /\ port[p].written[i] # NUL
        BY <3>1, <1>4 DEF PortOK, ScratchOK, PortRep, k, b
      <4>2. w = Append(port[p].written, c)
        BY <3>1, <1>6 DEF w
      <4>3. /\ Len(w) = k + 1 /\ w[k + 1] = c /\ \A i \in 1..k : w[i] = port[p].written[i]
        BY <4>1, <4>2, <1>3
      <4>4. ASSUME NEW i \in 1..(k + 1) PROVE mem'[b][i - 1] = w[i] /\ w[i] # NUL
        <5>1. CASE i = k + 1
          BY <5>1, <4>3, <1>3, <1>5, <1>8
        <5>2. CASE i # k + 1
          <6>1. i \in 1..k /\ i - 1 \in DOMAIN mem[b] \ {k}
            BY <5>2, <1>5 DEF Buffer
          <6> QED BY <6>1, <4>1, <4>3, <1>8
        <5> QED BY <5>1, <5>2
      <4>5. /\ port[p].kind \subseteq {"output"}
            /\ \A r \in DOMAIN string : string[r].value # b
            /\ \A r \in DOMAIN port : port[r].start = b => p = r
        BY <3>1, <1>4 DEF PortOK, ScratchOK, b
      <4>6. Buffer(port[p].start, port[p].past_the_end)'
        BY <1>5, <1>7, <1>8, <1>13 DEF Buffer
      <4>7. \A r \in DOMAIN port' : port'[r].start = port'[p].start => p = r
        BY <4>5, <2>1, <1>12, <1>13 DEF b
      <4>8. \A r \in DOMAIN string' : string'[r].value # port'[p].start
        BY <4>5, <1>1, <1>13
      <4>9. port'[p].curr = Len(port'[p].written) /\ port'[p].kind \subseteq {"output"}
        BY <4>3, <4>5, <1>13
      <4>10. \A i \in 1..port'[p].curr : mem'[port'[p].start][i - 1] = port'[p].written[i]
                                         /\ port'[p].written[i] # NUL
        BY <4>4, <1>13
      <4> QED BY <4>6, <4>7, <4>8, <4>9, <4>10 DEF ScratchOK
    <3>2. ASSUME ~port[p].srfi6 PROVE OnString(p)'
      BY <3>2, <1>1, <1>4, <1>13 DEF PortOK, OnString, b, n
    <3>3. port'[p].curr <= port'[p].past_the_end
      BY <1>5, <1>13
    <3> QED BY <3>1, <3>2, <3>3, <2>1, <2>2, <1>13 DEF PortOK
  <2>3. CASE q # p
    <3>1. ASSUME port[q].srfi6 PROVE ScratchOK(q)'
      <4>1. port[q].start # b
        BY <3>1, <2>1, <2>3, <1>2 DEF PortOK, ScratchOK, b
      <4> QED BY <4>1, <3>1, <2>1, <2>3, <1>1, <1>7, <1>12, <1>13 DEF PortOK, ScratchOK, Buffer
    <3> QED BY <3>1, <2>1, <2>3, <1>1, <1>12 DEF PortOK, OnString
  <2> QED BY <2>2, <2>3
<1> QED BY <1>1, <1>7, <1>10, <1>11, <1>12, <1>14 DEF IInv

(* ... also when the buffer has to grow first, and moves, ...              *)
LEMMA GrowIInv ==
  ASSUME IInv, Writing, PutChar, port[out.to].curr = port[out.to].past_the_end,
         port[out.to].srfi6, Available
  PROVE  IInv'
<1>0. PICK p \in DOMAIN port, s \in DOMAIN string : p = out.to /\ s = out.from
  BY DEF Writing
<1> DEFINE b == port[p].start
           n == port[p].past_the_end
           last == n + BLOCK_SIZE
           c == mem[string[s].value][out.pos]
           m == malloc
           new == [Grown(p) EXCEPT ![n] = c]
           w == Append(port[p].written, c)
<1>1. /\ port[p].srfi6 /\ port[p].curr = n
      /\ mem' = With(Without(mem, {b}), m, new)
      /\ port' = [port EXCEPT ![p].start = m, ![p].past_the_end = @ + BLOCK_SIZE,
                              ![p].curr = @ + 1, ![p].written = Append(@, c)]
      /\ out' = IF out.pos + 1 = out.len THEN Idle ELSE [out EXCEPT !.pos = @ + 1]
      /\ string' = string
  BY <1>0 DEF PutChar, realloc_port_string
<1>2. /\ out.pos \in Nat /\ out.len \in Nat
      /\ out.pos < out.len /\ out.len <= string[s].length
      /\ \A i \in out.pos..(out.len - 1) : mem[string[s].value][i] # NUL
  BY <1>0 DEF Writing
<1>3. c \in Chars /\ c # NUL
  BY <1>2 DEF IInv, StringOK, Buffer
<1>4. PortOK(p) /\ ScratchOK(p) /\ port[p] \in PortRep
  BY <1>1 DEF IInv, PortOK
<1>5. m \in Blocks \ DOMAIN mem /\ b \in DOMAIN mem /\ m # b
  BY <1>4, Malloc DEF ScratchOK, Buffer
<1>6. /\ Buffer(b, n) /\ n \in Nat /\ last \in Nat /\ n < last
      /\ n = Len(port[p].written) /\ port[p].written \in Seq(Chars)
      /\ \A i \in 1..n : mem[b][i - 1] = port[p].written[i] /\ port[p].written[i] # NUL
  BY <1>1, <1>4, StringPortsAssumption DEF ScratchOK, PortRep
<1>7. strlen(b) = n
  <2>1. strlen(b) \in 0..n /\ mem[b][strlen(b)] = NUL
    BY <1>6, StrLen
  <2>2. ASSUME strlen(b) # n PROVE FALSE
    <3>1. strlen(b) + 1 \in 1..n /\ (strlen(b) + 1) - 1 = strlen(b)
      BY <2>1, <2>2, <1>6
    <3> QED BY <3>1, <2>1, <1>6
  <2> QED BY <2>2
<1>8. /\ new \in [0..last -> Chars] /\ new[last] = NUL /\ new[n] = c
      /\ \A i \in 0..(n - 1) : new[i] = mem[b][i]
  <2>1. Grown(p) = [i \in 0..last |-> IF i <= n THEN mem[b][i]
                                      ELSE IF i = last THEN NUL ELSE Space]
    BY <1>7 DEF Grown
  <2>2. \A i \in 0..n : mem[b][i] \in Chars
    BY <1>6 DEF Buffer
  <2>3. Grown(p) \in [0..last -> Chars]
    BY <2>1, <2>2, <1>6, StringPortsAssumption
  <2>4. n \in 0..last /\ last \in 0..last
    BY <1>6
  <2>5. DOMAIN Grown(p) = 0..last /\ Grown(p)[last] = NUL
    BY <2>1, <2>4, <1>6
  <2>6. \A i \in 0..(n - 1) : i \in 0..last /\ i # n /\ Grown(p)[i] = mem[b][i]
    <3>1. \A i \in 0..(n - 1) : i \in 0..last /\ i # n /\ i <= n
      BY <1>6
    <3> QED BY <3>1, <2>1
  <2> HIDE DEF c, last
  <2>7. new \in [0..last -> Chars]
    BY <2>3, <2>4, <1>3
  <2>8. new[last] = NUL /\ new[n] = c
    BY <2>4, <2>5, <1>6
  <2>9. \A i \in 0..(n - 1) : new[i] = mem[b][i]
    BY <2>5, <2>6
  <2> QED BY <2>7, <2>8, <2>9
<1>9. /\ Len(w) = n + 1 /\ w[n + 1] = c /\ w \in Seq(Chars)
      /\ \A i \in 1..n : w[i] = port[p].written[i]
  BY <1>3, <1>6
<1>10. \A r \in DOMAIN string : string[r].value # b
  BY <1>4 DEF ScratchOK
<1>11. \A q \in DOMAIN port \ {p} : port[q].start # b
  BY <1>4 DEF ScratchOK
<1>12. /\ DOMAIN port' = DOMAIN port /\ \A q \in DOMAIN port \ {p} : port'[q] = port[q]
       /\ port'[p] = [port[p] EXCEPT !.start = m, !.past_the_end = last,
                                     !.curr = n + 1, !.written = w]
  BY <1>1
<1> HIDE DEF b, n, last, c, m, new, w
<1>13. /\ DOMAIN mem' = (DOMAIN mem \ {b}) \cup {m} /\ mem'[m] = new
       /\ \A d \in DOMAIN mem \ {b} : mem'[d] = mem[d]
  BY <1>1, <1>5 DEF With, Without
<1>14. /\ port'[p] \in PortRep /\ port'[p].curr = n + 1 /\ port'[p].written = w
       /\ port'[p].kind = port[p].kind /\ port'[p].srfi6 = port[p].srfi6
       /\ port'[p].start = m /\ port'[p].past_the_end = last
  <2>1. n + 1 \in Nat
    BY <1>6
  <2>2. port'[p] \in PortRep
    <3>1. m \in Blocks
      BY <1>5
    <3>2. port[p] \in PortRep /\ last \in Nat /\ w \in Seq(Chars)
      BY <1>4, <1>6, <1>9
    <3>3. ASSUME NEW x \in PortRep
          PROVE  [x EXCEPT !.start = m, !.past_the_end = last,
                           !.curr = n + 1, !.written = w] \in PortRep
      BY <3>1, <3>2, <2>1 DEF PortRep
    <3>4. port'[p] = [port[p] EXCEPT !.start = m, !.past_the_end = last,
                                     !.curr = n + 1, !.written = w]
      BY <1>12
    <3> QED BY <3>2, <3>3, <3>4
  <2>3. DOMAIN port[p] = {"kind", "srfi6", "of", "start", "curr", "past_the_end", "written"}
    BY <1>4 DEF PortRep
  <2> QED BY <2>2, <2>3, <1>12
<1>15. ASSUME NEW r \in DOMAIN string PROVE StringOK(r)'
  <2>1. StringOK(r) /\ string[r].value # b
    BY <1>10 DEF IInv
  <2>2. /\ string[r].value \in DOMAIN mem'
        /\ mem'[string[r].value] = mem[string[r].value]
    BY <2>1, <1>13 DEF StringOK, Buffer
  <2> QED BY <2>1, <2>2, <1>1 DEF StringOK, Buffer
<1>16. out' = Idle \/ Writing'
  <2>1. CASE out.pos + 1 = out.len
    BY <2>1, <1>1
  <2>2. CASE out.pos + 1 # out.len
    <3>1. out' = [out EXCEPT !.pos = @ + 1] /\ out.pos + 1 < out.len
      BY <2>2, <1>1, <1>2
    <3>2. out \in [pos : Nat, len : Nat, from : DOMAIN string, to : DOMAIN port]
      BY DEF Writing
    <3>3. /\ out' \in [pos : Nat, len : Nat, from : DOMAIN string', to : DOMAIN port']
          /\ out'.pos = out.pos + 1 /\ out'.len = out.len /\ out'.from = out.from
      BY <3>1, <3>2, <1>1, <1>2, <1>12
    <3>4. mem'[string[s].value] = mem[string[s].value]
      BY <1>10, <1>13 DEF IInv, StringOK, Buffer
    <3> QED BY <3>1, <3>3, <3>4, <1>0, <1>1, <1>2 DEF Writing
  <2> QED BY <2>1, <2>2
<1>17. PortOK(p)'
  <2>1. Buffer(port[p].start, port[p].past_the_end)'
    BY <1>6, <1>8, <1>13, <1>14 DEF Buffer
  <2>2. \A r \in DOMAIN string' : string'[r].value # port'[p].start
    BY <1>1, <1>5, <1>14 DEF IInv, StringOK, Buffer
  <2>3. ASSUME NEW q \in DOMAIN port \ {p} PROVE port'[q].start # port'[p].start
    <3>1. port[q].start \in DOMAIN mem
      BY DEF IInv, PortOK, ScratchOK, OnString, StringOK, Buffer
    <3> QED BY <3>1, <1>5, <1>12, <1>14
  <2>4. ASSUME NEW i \in 1..(n + 1) PROVE new[i - 1] = w[i] /\ w[i] # NUL
    <3>1. CASE i = n + 1
      BY <3>1, <1>3, <1>6, <1>8, <1>9
    <3>2. CASE i # n + 1
      <4>1. i \in 1..n /\ i - 1 \in 0..(n - 1)
        BY <3>2, <1>6
      <4> QED BY <4>1, <1>6, <1>8, <1>9
    <3> QED BY <3>1, <3>2
  <2>5. \A i \in 1..port'[p].curr : mem'[port'[p].start][i - 1] = port'[p].written[i]
                                    /\ port'[p].written[i] # NUL
    BY <2>4, <1>13, <1>14
  <2>6. port'[p].curr = Len(port'[p].written) /\ port'[p].kind \subseteq {"output"}
    BY <1>4, <1>9, <1>14 DEF ScratchOK
  <2>7. \A q \in DOMAIN port' : port'[q].start = port'[p].start => p = q
    BY <2>3, <1>12
  <2>8. ScratchOK(p)'
    BY <2>1, <2>2, <2>5, <2>6, <2>7 DEF ScratchOK
  <2> QED BY <2>8, <1>1, <1>4, <1>6, <1>14 DEF PortOK
<1>18. ASSUME NEW q \in DOMAIN port \ {p} PROVE PortOK(q)'
  <2>1. PortOK(q) /\ port[q].start # b
    BY <1>11 DEF IInv
  <2>2. port[q].start \in DOMAIN mem
    BY <2>1 DEF IInv, PortOK, ScratchOK, OnString, StringOK, Buffer
  <2>3. ASSUME port[q].srfi6 PROVE ScratchOK(q)'
    <3>1. Buffer(port[q].start, port[q].past_the_end)'
      BY <2>1, <2>3, <1>12, <1>13 DEF PortOK, ScratchOK, Buffer
    <3>2. \A r \in DOMAIN port' : port'[r].start = port'[q].start => q = r
      BY <2>1, <2>2, <2>3, <1>5, <1>12, <1>14 DEF PortOK, ScratchOK
    <3>3. port'[q] = port[q] /\ mem'[port[q].start] = mem[port[q].start]
      BY <2>1, <2>2, <1>12, <1>13
    <3> QED BY <3>1, <3>2, <3>3, <2>1, <2>3, <1>1 DEF PortOK, ScratchOK
  <2> QED BY <2>1, <2>3, <1>1, <1>12 DEF PortOK, OnString
<1> QED BY <1>1, <1>5, <1>12, <1>13, <1>15, <1>16, <1>17, <1>18 DEF IInv

(* ... or is dropped.                                                      *)
LEMMA DropIInv ==
  ASSUME IInv, Writing, PutChar, UNCHANGED <<mem, port>>
  PROVE  IInv'
<1>1. /\ out' = IF out.pos + 1 = out.len THEN Idle ELSE [out EXCEPT !.pos = @ + 1]
      /\ string' = string /\ mem' = mem /\ port' = port
  BY DEF PutChar
<1>2. out' = Idle \/ Writing'
  BY <1>1 DEF Writing
<1>3. ASSUME NEW s \in DOMAIN string PROVE StringOK(s)'
  BY <1>1 DEF IInv, StringOK, Buffer
<1>4. ASSUME NEW p \in DOMAIN port PROVE PortOK(p)'
  BY <1>1 DEF IInv, PortOK, ScratchOK, OnString, Buffer
<1> QED BY <1>1, <1>2, <1>3, <1>4 DEF IInv

LEMMA PutCharIInv == IInv /\ PutChar => IInv'
<1> SUFFICES ASSUME IInv, PutChar PROVE IInv'
  OBVIOUS
<1>1. Writing
  BY DEF IInv, PutChar
<1> QED BY <1>1, RoomIInv, GrowIInv, DropIInv DEF PutChar

(* What stays keeps its buffer: no port stays without its string.          *)
LEMMA GcIInv ==
  ASSUME KeepsStrings, IInv, NEW gone, Gc(gone)
  PROVE  IInv'
<1>1. /\ out = Idle /\ UNCHANGED out
      /\ \A p \in DOMAIN port : port[p].of \in gone => p \in gone
      /\ mem' = Without(mem, {string[s].value : s \in gone \cap DOMAIN string})
      /\ string' = Without(string, gone) /\ port' = Without(port, gone)
  BY DEF Gc
<1>2. /\ DOMAIN string' = DOMAIN string \ gone
      /\ \A s \in DOMAIN string' : string'[s] = string[s]
      /\ DOMAIN port' = DOMAIN port \ gone
      /\ \A p \in DOMAIN port' : port'[p] = port[p]
  BY <1>1 DEF Without
<1>3. /\ DOMAIN mem' \subseteq DOMAIN mem
      /\ \A b \in DOMAIN mem : (\A s \in gone \cap DOMAIN string : string[s].value # b)
           => b \in DOMAIN mem' /\ mem'[b] = mem[b]
  BY <1>1 DEF Without
<1>4. ASSUME NEW s \in DOMAIN string' PROVE StringOK(s)'
  <2>1. StringOK(s) /\ \A r \in gone \cap DOMAIN string : string[r].value # string[s].value
    BY <1>2 DEF IInv
  <2> QED BY <2>1, <1>2, <1>3 DEF StringOK, Buffer
<1>5. ASSUME NEW p \in DOMAIN port' PROVE PortOK(p)'
  <2>1. PortOK(p) /\ p \in DOMAIN port /\ port'[p] = port[p]
    BY <1>2 DEF IInv
  <2>2. ASSUME port[p].srfi6 PROVE ScratchOK(p)'
    <3>1. /\ port[p].start \in DOMAIN mem'
          /\ mem'[port[p].start] = mem[port[p].start]
      BY <2>1, <2>2, <1>3 DEF PortOK, ScratchOK, Buffer
    <3> QED BY <2>1, <2>2, <3>1, <1>2 DEF PortOK, ScratchOK, Buffer
  <2>3. ASSUME ~port[p].srfi6 PROVE OnString(p)'
    BY <2>1, <2>3, <1>1, <1>2 DEF PortOK, OnString
  <2> QED BY <2>1, <2>2, <2>3 DEF PortOK
<1> QED BY <1>1, <1>2, <1>3, <1>4, <1>5 DEF IInv
-----------------------------------------------------------------------------
LEMMA InitIInv == Init => IInv
BY DEF Init, IInv

LEMMA StepIInv == KeepsStrings /\ IInv /\ [Next]_vars => IInv'
<1> SUFFICES ASSUME KeepsStrings, IInv, [Next]_vars PROVE IInv'
  OBVIOUS
<1>1. ASSUME NEW s \in Strings, NEW len \in 0..STRING_MAX, NEW fill \in Typed,
             MakeString(s, len, fill)
      PROVE  IInv'
  <2>1. len \in Nat /\ fill \in Chars /\ NUL \in Chars
    BY StringPortsAssumption
  <2>2. Filled(len, fill) \in [0..len -> Chars] /\ Filled(len, fill)[len] = NUL
    BY <2>1 DEF Filled
  <2> QED BY <1>1, <2>1, <2>2, NewStringIInv DEF MakeString
<1>2. ASSUME NEW s \in Strings, NEW k \in 0..(STRING_MAX + TEXT_MAX), NEW c \in Typed,
             StringSet(s, k, c)
      PROVE  IInv'
  <2>1. k \in Nat
    BY StringPortsAssumption
  <2> QED BY <1>2, <2>1, StringSetIInv
<1>3. ASSUME NEW s \in Strings, NEW p \in Ports,
             NEW kind \in (SUBSET {"input", "output"}) \ {{}}, OpenString(p, s, kind)
      PROVE  IInv'
  BY <1>3, OpenStringIInv
<1>4. ASSUME NEW s \in Strings, NEW p \in Ports, Display(s, p) PROVE IInv'
  BY <1>4, DisplayIInv
<1>5. ASSUME NEW s \in Strings, NEW p \in Ports, GetOutString(p, s) PROVE IInv'
  BY <1>5, GetOutStringIInv
<1>6. ASSUME NEW p \in Ports, OpenScratch(p) PROVE IInv'
  BY <1>6, OpenScratchIInv
<1>7. ASSUME NEW p \in Ports, ReadChar(p) \/ PeekChar(p) PROVE IInv'
  BY <1>7, ReadIInv
<1>8. ASSUME NEW p \in Ports, NEW way \in {"input", "output"}, Close(p, way) PROVE IInv'
  BY <1>8, CloseIInv
<1>9. CASE PutChar
  BY <1>9, PutCharIInv
<1>10. ASSUME NEW gone, Gc(gone) PROVE IInv'
  BY <1>10, GcIInv
<1>11. CASE UNCHANGED vars
  <2>1. mem' = mem /\ string' = string /\ port' = port /\ out' = out
    BY <1>11 DEF vars
  <2>2. (Writing => Writing') /\ (out = Idle => out' = Idle)
    BY <2>1 DEF Writing
  <2>3. ASSUME NEW s \in DOMAIN string PROVE StringOK(s)'
    BY <2>1 DEF IInv, StringOK, Buffer
  <2>4. ASSUME NEW p \in DOMAIN port PROVE PortOK(p)'
    BY <2>1 DEF IInv, PortOK, ScratchOK, OnString, Buffer
  <2> QED BY <2>1, <2>2, <2>3, <2>4 DEF IInv
<1> QED BY <1>1, <1>2, <1>3, <1>4, <1>5, <1>6, <1>7, <1>8, <1>9, <1>10, <1>11 DEF Next

LEMMA AlwaysIInv == KeepsStrings => (Spec => []IInv)
<1> SUFFICES ASSUME KeepsStrings PROVE Spec => []IInv
  OBVIOUS
<1>1. IInv /\ [Next]_vars => IInv'
  BY StepIInv
<1> QED BY <1>1, InitIInv, PTL DEF Spec

(* An accumulating port has what was written to it.                        *)
THEOREM WrittenTextLands == KeepsStrings => (Spec => []Landed)
<1>1. IInv => Landed
  BY IInvImplies
<1> QED BY <1>1, AlwaysIInv, PTL

(* Buffers have one owner.                                                 *)
THEOREM BuffersAreOwned == KeepsStrings => (Spec => []Owned)
<1>1. IInv => Owned
  BY IInvImplies
<1> QED BY <1>1, AlwaysIInv, PTL

(* Buffers end with a NUL, and curr does not pass it.                      *)
THEOREM BuffersAreTerminated == KeepsStrings => (Spec => []Terminated)
<1>1. IInv => Terminated
  BY IInvImplies
<1> QED BY <1>1, AlwaysIInv, PTL

(* Both at once.                                                           *)
THEOREM BuffersStaySound == KeepsStrings => (Spec => []BuffersSound)
<1>1. Owned /\ Terminated => BuffersSound
  BY DEF BuffersSound
<1> QED BY <1>1, BuffersAreOwned, BuffersAreTerminated, PTL

(* A new block is not the buffer of a string, ...                          *)
LEMMA AllocatingKeeps ==
  ASSUME IInv, Available, NEW x, mem' = With(mem, malloc, x),
         NEW s \in DOMAIN string, string'[s] = string[s]
  PROVE  Contents(s)' = Contents(s)
<1>1. string[s].value \in DOMAIN mem /\ malloc \notin DOMAIN mem
  BY Malloc DEF IInv, StringOK, Buffer
<1>2. string[s].value \in DOMAIN mem' /\ mem'[string[s].value] = mem[string[s].value]
  BY <1>1 DEF With
<1> QED BY <1>1, <1>2 DEF Contents

(* ... and a port writes to the buffer of its string, or to its own.       *)
LEMMA PutCharKeeps ==
  ASSUME IInv, PutChar, NEW s \in DOMAIN string, port[out.to].of # s
  PROVE  Contents(s)' = Contents(s)
<1>1. PICK p \in DOMAIN port : p = out.to
  BY DEF IInv, PutChar, Writing
<1>2. PortOK(p) /\ string[s].value \in DOMAIN mem /\ string' = string
  BY DEF IInv, StringOK, Buffer, PutChar
<1>3. port[p].start # string[s].value
  BY <1>1, <1>2 DEF IInv, PortOK, ScratchOK, OnString
<1>4. CASE UNCHANGED mem
  BY <1>2, <1>4 DEF Contents
<1>5. ASSUME NEW c, mem' = [mem EXCEPT ![port[p].start][port[p].curr] = c]
      PROVE  Contents(s)' = Contents(s)
  BY <1>2, <1>3, <1>5 DEF Contents
<1>6. ASSUME NEW c, Available, realloc_port_string(p, c)
      PROVE  Contents(s)' = Contents(s)
  <2>1. malloc \notin DOMAIN mem
    BY <1>6, Malloc
  <2>2. string[s].value \in DOMAIN mem' /\ mem'[string[s].value] = mem[string[s].value]
    BY <1>2, <1>3, <1>6, <2>1 DEF realloc_port_string, With, Without
  <2> QED BY <1>2, <2>2 DEF Contents
<1> QED BY <1>1, <1>4, <1>5, <1>6 DEF PutChar

LEMMA GcKeeps ==
  ASSUME IInv, NEW gone, Gc(gone), NEW s \in DOMAIN string, s \in DOMAIN string'
  PROVE  Contents(s)' = Contents(s)
<1>1. s \notin gone /\ string'[s] = string[s]
  BY DEF Gc, Without
<1>2. \A r \in gone \cap DOMAIN string : string[r].value # string[s].value
  BY <1>1 DEF IInv
<1>3. /\ string[s].value \in DOMAIN mem /\ string[s].value \in DOMAIN mem'
      /\ mem'[string[s].value] = mem[string[s].value]
  BY <1>2 DEF Gc, Without, IInv, StringOK, Buffer
<1> QED BY <1>1, <1>3 DEF Contents

(* The text of a string changes by string-set! on it and by writing to a   *)
(* port on it only.                                                        *)
THEOREM StringsChangeByTheirOwn == KeepsStrings => (Spec => Snapshot)
<1> DEFINE Changed(s) == \/ s \notin DOMAIN string' \/ Contents(s)' = Contents(s)
                         \/ \E k \in 0..string[s].length, c \in Typed : StringSet(s, k, c)
                         \/ PutChar /\ port[out.to].of = s
<1>1. ASSUME KeepsStrings, IInv, Next, NEW s \in DOMAIN string, s \in DOMAIN string'
      PROVE  Changed(s)
  <2> USE <1>1
  <2>1. ASSUME NEW r \in Strings, NEW len, NEW chars, NewString(r, len, chars)
        PROVE  Contents(s)' = Contents(s)
    <3>1. string'[s] = string[s]
      BY <2>1 DEF NewString, With
    <3> QED BY <2>1, <3>1, AllocatingKeeps DEF NewString
  <2>2. ASSUME NEW r \in Strings, NEW k \in 0..(STRING_MAX + TEXT_MAX), NEW c \in Typed,
               StringSet(r, k, c)
        PROVE  Changed(s)
    <3>1. CASE r = s
      <4>1. k \in 0..string[s].length
        BY <2>2, <3>1, StringPortsAssumption DEF StringSet, IInv, StringOK, Buffer
      <4> QED BY <2>2, <3>1, <4>1
    <3>2. CASE r # s
      BY <2>2, <3>2 DEF StringSet, Contents, IInv, StringOK, Buffer
    <3> QED BY <3>1, <3>2
  <2>3. ASSUME NEW p \in Ports, OpenScratch(p) PROVE Contents(s)' = Contents(s)
    BY <2>3, AllocatingKeeps DEF OpenScratch, NewPort
  <2>4. CASE PutChar
    BY <2>4, PutCharKeeps
  <2>5. ASSUME NEW gone, Gc(gone) PROVE Contents(s)' = Contents(s)
    BY <2>5, GcKeeps
  <2>6. CASE UNCHANGED <<mem, string>>
    BY <2>6 DEF Contents
  <2>7. ASSUME NEW r \in Strings, NEW p \in Ports, GetOutString(p, r)
        PROVE  Contents(s)' = Contents(s)
    BY <2>1, <2>7 DEF GetOutString
  <2>8. ASSUME NEW r \in Strings, NEW len, NEW fill, MakeString(r, len, fill)
        PROVE  Contents(s)' = Contents(s)
    BY <2>1, <2>8 DEF MakeString
  <2>9. ASSUME NEW p \in Ports, NEW r \in Strings,
               \/ Display(r, p) \/ ReadChar(p) \/ PeekChar(p)
               \/ \E way \in {"input", "output"} : Close(p, way)
               \/ \E kind : OpenString(p, r, kind)
        PROVE  UNCHANGED <<mem, string>>
    BY <2>9 DEF Display, ReadChar, PeekChar, Close, OpenString, NewPort
  <2>10. CASE \E p \in Ports : \/ ReadChar(p) \/ PeekChar(p)
                               \/ \E way \in {"input", "output"} : Close(p, way)
    BY <2>6, <2>10 DEF ReadChar, PeekChar, Close
  <2> QED BY <2>2, <2>3, <2>4, <2>5, <2>6, <2>7, <2>8, <2>9, <2>10 DEF Next
<1>2. KeepsStrings /\ IInv /\ [Next]_vars => [\A s \in DOMAIN string : Changed(s)]_vars
  BY <1>1
<1> SUFFICES ASSUME KeepsStrings PROVE Spec => Snapshot
  OBVIOUS
<1>3. IInv /\ [Next]_vars => [\A s \in DOMAIN string : Changed(s)]_vars
  BY <1>2
<1> QED BY <1>3, AlwaysIInv, PTL DEF Spec, Snapshot
-----------------------------------------------------------------------------
(* The reader.                                                             *)
(* The first k - 1 characters: those that are c, and what is open.         *)
Seen(k, c) == {i \in 1..(k - 1) : At(i) = c}
Open(k) == Cardinality(Seen(k, "(")) - Cardinality(Seen(k, ")"))
Opens(c) == IF c = "(" THEN 1 ELSE IF c = ")" THEN -1 ELSE 0
Parens == {"(", ")"}

LEMMA SeenFinite ==
  ASSUME NEW k \in Nat, NEW c
  PROVE  IsFiniteSet(Seen(k, c)) /\ Cardinality(Seen(k, c)) \in Nat
<1>1. IsFiniteSet(1..(k - 1))
  BY FS_Interval
<1>2. Seen(k, c) \subseteq 1..(k - 1)
  BY DEF Seen
<1> QED
  BY <1>1, <1>2, FS_Subset, FS_CardinalityType

LEMMA SeenNext ==
  ASSUME NEW k \in Nat \ {0}, NEW c
  PROVE  Cardinality(Seen(k + 1, c)) =
           Cardinality(Seen(k, c)) + (IF At(k) = c THEN 1 ELSE 0)
<1>1. Seen(k + 1, c) = IF At(k) = c THEN Seen(k, c) \cup {k} ELSE Seen(k, c)
  BY DEF Seen
<1>2. k \notin Seen(k, c)
  BY DEF Seen
<1>3. IsFiniteSet(Seen(k, c)) /\ Cardinality(Seen(k, c)) \in Nat
  BY SeenFinite
<1>4. Cardinality(Seen(k, c) \cup {k}) = Cardinality(Seen(k, c)) + 1
  BY <1>2, <1>3, FS_AddElement
<1> QED
  BY <1>1, <1>3, <1>4

(* One more character                                                      *)
LEMMA OpenNext ==
  ASSUME NEW k \in Nat \ {0}
  PROVE  Open(k + 1) = Open(k) + Opens(At(k)) /\ Open(k) \in Int
<1>1. /\ Cardinality(Seen(k, "(")) \in Nat /\ Cardinality(Seen(k, ")")) \in Nat
  BY SeenFinite
<1>2. "(" # ")"
  OBVIOUS
<1> QED
  BY <1>1, <1>2, SeenNext DEF Open, Opens

(* Characters that are no parentheses open and close nothing.              *)
LEMMA OpenOver ==
  ASSUME NEW k \in Nat, NEW j \in Nat, k <= j, \A i \in k..(j - 1) : At(i) \notin Parens
  PROVE  Open(j) = Open(k)
<1>1. \A c \in Parens : Seen(j, c) = Seen(k, c)
  BY DEF Seen
<1> QED
  BY <1>1 DEF Open, Parens

LEMMA FirstNot ==
  ASSUME text \in Seq(Characters), NEW k \in 1..(Len(text) + 1), NEW C, "EOF" \in C
  PROVE  \E j \in k..(Len(text) + 1) :
           At(j) \in C /\ \A i \in k..(j - 1) : At(i) \notin C
<1> DEFINE S == {j \in k..(Len(text) + 1) : At(j) \in C}
<1>1. Len(text) \in Nat
  OBVIOUS
<1>2. Len(text) + 1 \in S
  BY <1>1 DEF At
<1>3. S \in SUBSET Nat
  BY <1>1
<1> HIDE DEF S
<1>4. PICK j \in S : \A x \in S : j <= x
  BY <1>2, <1>3, Least
<1> USE DEF S
<1>5. \A i \in k..(j - 1) : At(i) \notin C
  <2> SUFFICES ASSUME NEW i \in k..(j - 1), At(i) \in C PROVE FALSE
    OBVIOUS
  <2>1. i \in S /\ i < j
    BY <1>1, <1>4
  <2> QED
    BY <1>1, <1>4, <2>1
<1> QED
  BY <1>4, <1>5

LEMMA SkipSpaceFacts ==
  ASSUME text \in Seq(Characters), NEW k \in 1..(Len(text) + 1)
  PROVE  /\ SkipSpace(k) \in k..(Len(text) + 1) /\ At(SkipSpace(k)) \notin Blank
         /\ \A i \in k..(SkipSpace(k) - 1) : At(i) \in Blank
<1> DEFINE C == {x \in {At(i) : i \in 1..(Len(text) + 1)} \cup {"EOF"} : x \notin Blank}
<1>1. Len(text) \in Nat
  OBVIOUS
<1>2. "EOF" \in C
  BY DEF Blank
<1>3. \A i \in 1..(Len(text) + 1) : At(i) \in C <=> At(i) \notin Blank
  OBVIOUS
<1> HIDE DEF C
<1>4. PICK j \in k..(Len(text) + 1) :
           At(j) \in C /\ \A i \in k..(j - 1) : At(i) \notin C
  BY <1>2, FirstNot
<1>5. At(j) \notin Blank /\ \A i \in k..(j - 1) : At(i) \in Blank
  BY <1>1, <1>3, <1>4
<1> QED
  BY <1>5 DEF SkipSpace

LEMMA UpToFacts ==
  ASSUME text \in Seq(Characters), NEW k \in 1..(Len(text) + 1)
  PROVE  /\ UpTo(k) \in k..(Len(text) + 1)
         /\ \A i \in k..(UpTo(k) - 1) : At(i) \notin Delimiters
<1>1. "EOF" \in Delimiters
  BY DEF Delimiters
<1>2. \E j \in k..(Len(text) + 1) :
           At(j) \in Delimiters /\ \A i \in k..(j - 1) : At(i) \notin Delimiters
  BY <1>1, FirstNot
<1> QED
  BY <1>2 DEF UpTo

(* What a token opens or closes                                            *)
Turns(t) == IF t \in {"LPAREN", "VEC"} THEN 1 ELSE IF t = "RPAREN" THEN -1 ELSE 0

(* A token passes one parenthesis if it is one, "#(" or ")", else none.    *)
LEMMA TokenFacts ==
  ASSUME text \in Seq(Characters), NEW k \in 1..(Len(text) + 1)
  PROVE  /\ Token(k).next \in 1..(Len(text) + 1)
         /\ Open(Token(k).next) = Open(k) + Turns(Token(k).is)
<1> DEFINE j == SkipSpace(k)
           c == At(j)
           T == Token(k)
<1>1. Len(text) \in Nat
  OBVIOUS
<1>2. /\ j \in k..(Len(text) + 1)
      /\ \A i \in k..(j - 1) : At(i) \in Blank
  BY SkipSpaceFacts
<1>3. Open(j) = Open(k)
  <2>1. \A i \in k..(j - 1) : At(i) \notin Parens
    BY <1>2 DEF Blank, Parens
  <2> HIDE DEF j
  <2> QED
    BY <1>1, <1>2, <2>1, OpenOver
<1>4. \A i \in 1..(Len(text) + 1) : At(i) # "EOF" => i + 1 \in 1..(Len(text) + 1)
  BY <1>1 DEF At
<1>5. \A i \in 1..(Len(text) + 1) : Open(i + 1) = Open(i) + Opens(At(i)) /\ Open(i) \in Int
  <2> TAKE i \in 1..(Len(text) + 1)
  <2>1. i \in Nat \ {0}
    BY <1>1
  <2> QED
    BY <2>1, OpenNext
<1>7. CASE c = "EOF"
  <2>1. T = [is |-> "EOF", next |-> j + 0]
    BY <1>7 DEF Token
  <2> QED
    BY <1>1, <1>2, <1>3, <1>5, <2>1 DEF Turns
<1>8. CASE c # "EOF"
  <2>1. j + 1 \in 1..(Len(text) + 1) /\ j \in 1..(Len(text) + 1)
    BY <1>1, <1>2, <1>4, <1>8
  <2> DEFINE d == At(j + 1)
             Is(t, n) == T = [is |-> t, next |-> j + n]
             At2 == d \in Blank \cup {"@"} /\ c \notin Parens
  <2>2. c = "(" => Is("LPAREN", 1)
    BY DEF Token
  <2>3. c = ")" => Is("RPAREN", 1)
    BY DEF Token
  <2>4. c = "." => (Is("DOT", 2) /\ At2) \/ Is("DOT", 1) \/ Is("ATOM", 0)
    BY DEF Token, Parens
  <2>5. c = "'" => Is("QUOTE", 1)
    BY DEF Token
  <2>6. c = "bq" => Is("BQUOTE", 1)
    BY DEF Token
  <2>7. c = "," => (Is("ATMARK", 2) /\ At2) \/ Is("COMMA", 1)
    BY DEF Token, Parens
  <2>8. c = "#" => (Is("VEC", 2) /\ d = "(") \/ Is("SHARP", 1)
    BY DEF Token
  <2>9. c \notin {"EOF", "(", ")", ".", "'", "bq", ",", "#"} => Is("ATOM", 0)
    BY DEF Token
  <2>10. /\ \A t, n : Is(t, n) => T.is = t /\ T.next = j + n
         /\ j + 0 = j
    BY <1>2
  <2> HIDE DEF T, Is, d
  <2>11. \/ T.is = "ATOM" /\ T.next = j
         \/ T.is = "LPAREN" /\ T.next = j + 1 /\ c = "("
         \/ T.is = "RPAREN" /\ T.next = j + 1 /\ c = ")"
         \/ /\ T.is \in {"DOT", "QUOTE", "BQUOTE", "COMMA", "SHARP"}
            /\ T.next = j + 1 /\ c \notin Parens
         \/ T.is \in {"DOT", "ATMARK"} /\ T.next = j + 2 /\ At2
         \/ T.is = "VEC" /\ T.next = j + 2 /\ c = "#" /\ d = "("
    BY <1>8, <2>2, <2>3, <2>4, <2>5, <2>6, <2>7, <2>8, <2>9, <2>10 DEF Parens
  <2>12. CASE T.is = "ATOM" /\ T.next = j
    BY <1>1, <1>3, <1>5, <2>1, <2>12 DEF Turns, T
  <2>13. CASE T.next = j + 1 /\ Opens(c) = Turns(T.is)
    BY <1>3, <1>5, <2>1, <2>13 DEF T
  <2>14. CASE T.next = j + 2 /\ Opens(c) = 0 /\ Opens(d) = Turns(T.is) /\ d # "EOF"
    <3>1. (j + 1) + 1 = j + 2 /\ j + 2 \in 1..(Len(text) + 1)
      BY <1>1, <1>4, <2>1, <2>14 DEF d
    <3>2. Open(j + 1) = Open(j) + Opens(c) /\ Open(j + 2) = Open(j + 1) + Opens(d)
      BY <1>5, <2>1, <3>1 DEF d
    <3>3. Open(j) \in Int
      BY <1>5, <2>1
    <3>4. Open(j + 2) = Open(j) + Turns(T.is)
      BY <2>14, <3>2, <3>3
    <3> QED
      BY <1>3, <2>14, <3>1, <3>4 DEF T
  <2>15. T.is \in {"DOT", "ATMARK"} /\ At2 => Opens(c) = 0 /\ Opens(d) = Turns(T.is) /\ d # "EOF"
    BY DEF Turns, Opens, Parens, Blank
  <2>16. T.is = "VEC" /\ c = "#" /\ d = "(" => Opens(c) = 0 /\ Opens(d) = Turns(T.is) /\ d # "EOF"
    BY DEF Turns, Opens
  <2>17. \/ T.is = "LPAREN" /\ c = "("
         \/ T.is = "RPAREN" /\ c = ")"
         \/ T.is \in {"DOT", "QUOTE", "BQUOTE", "COMMA", "SHARP"} /\ c \notin Parens
         => Opens(c) = Turns(T.is)
    BY DEF Turns, Opens, Parens
  <2> QED
    BY <2>11, <2>12, <2>13, <2>14, <2>15, <2>16, <2>17
<1> QED
  BY <1>7, <1>8

----------------------------------------------------------------------------
(* What data and texts are made of                                         *)
ReadOps == {"READ", "RDSEXPR", "RDLIST", "RDDOT", "RDVEC"} \cup QuoteOps
Saves == {"RDLIST", "RDDOT", "RDVEC"} \cup QuoteOps

(* Where the printer is: nothing was read yet.                             *)
Vectors == {d \in Data : d.t = "vec"}
Walks == [vec : Vectors, i : Nat]
PrintFrames == [op : {"P1LIST"}, args : Data \cup {Nil}]
               \cup [op : {"PVECFROM"}, args : Walks]
Printing ==
  /\ op \in {"P0LIST", "P1LIST"} => args \in Data \cup {Nil}
  /\ op = "PVECFROM" => args \in Walks
  /\ dump \in Seq(PrintFrames)
  /\ pos = 1 /\ nesting = 0

(* Frames that wait for a datum                                            *)
Stack(d) == \E S : d \in Seq(S) /\ \A f \in S : f.op \in Saves

(* The last token is behind pos, but what it opens or closes is counted    *)
(* only by OP_RDSEXPR.                                                     *)
Pending == IF op = "RDSEXPR" THEN Turns(tok) ELSE 0
Counted ==
  /\ pos \in 1..(Len(text) + 1) /\ nesting \in Int
  /\ Open(pos) = nesting + Pending

ReadInv ==
  /\ text \in Seq(Characters)
  /\ op \in PrintOps \cup ReadOps \cup {"done", "error"}
  /\ op \in PrintOps => Printing
  /\ op \in ReadOps => Stack(dump)
  /\ op \in ReadOps \cup {"done"} => Counted

(* Frames on dump stay those of opcodes that read.                         *)
LEMMA Pushed ==
  ASSUME NEW d, Stack(d), NEW f, f.op \in Saves
  PROVE  Stack(Append(d, f))
<1>1. PICK S : d \in Seq(S) /\ \A x \in S : x.op \in Saves
  BY DEF Stack
<1>2. d \in Seq(S \cup {f}) /\ f \in S \cup {f}
  BY <1>1
<1>3. Append(d, f) \in Seq(S \cup {f})
  BY <1>2
<1> QED
  BY <1>1, <1>3 DEF Stack

LEMMA Popped ==
  ASSUME NEW d, Stack(d), d # <<>>
  PROVE  Last(d).op \in Saves /\ Stack(Front(d))
<1>1. PICK S : d \in Seq(S) /\ \A x \in S : x.op \in Saves
  BY DEF Stack
<1>2. Len(d) \in Nat \ {0} /\ d[Len(d)] \in S
  BY <1>1
<1>3. SubSeq(d, 1, Len(d) - 1) \in Seq(S)
  BY <1>1, <1>2
<1> QED
  BY <1>1, <1>2, <1>3 DEF Stack, Last, Front

LEMMA EmptyStack == Stack(<<>>)
<1> DEFINE E == {}
<1>1. <<>> \in Seq(E) /\ \A f \in E : f.op \in Saves
  OBVIOUS
<1> HIDE DEF E
<1> QED
  BY <1>1 DEF Stack

LEMMA Ops ==
  /\ PrintOps \cap ReadOps = {} /\ Saves \subseteq ReadOps
  /\ PrintOps \cap Saves = {}
  /\ "done" \notin PrintOps \cup ReadOps /\ "error" \notin PrintOps \cup ReadOps
  /\ "RDSEXPR" \notin Saves /\ "RDSEXPR" \in ReadOps /\ "READ" \in ReadOps
BY DEF PrintOps, ReadOps, Saves, QuoteOps

(* A datum was read: if what was read is counted.                          *)
LEMMA ReturnCounted ==
  ASSUME ReadInv, op \in ReadOps, NEW d, NEW v, Stack(d), Return(v, d), UNCHANGED text,
         pos' \in 1..(Len(text) + 1), nesting' \in Int, Open(pos') = nesting'
  PROVE  ReadInv'
<1>1. op' \in Saves \cup {"done"} /\ Stack(dump')
  BY Popped, EmptyStack, Ops DEF Return
<1>2. (Open(pos))' = Open(pos')
  BY DEF Open, Seen, At
<1>3. Pending' = 0 /\ Len(text') = Len(text)
  BY <1>1, Ops DEF Pending
<1>4. nesting' + Pending' = nesting'
  <2>1. \A x \in Int : x + 0 = x
    OBVIOUS
  <2> QED
    BY <1>3, <2>1
<1>5. Counted'
  <2>1. (Open(pos))' = nesting' + Pending'
    BY <1>2, <1>4
  <2>2. pos' \in 1..(Len(text') + 1)
    BY <1>3
  <2> QED
    BY <2>1, <2>2 DEF Counted
<1>6. op' \in ReadOps \cup {"done"} /\ op' \notin PrintOps
  BY <1>1, Ops
<1> QED
  BY <1>1, <1>5, <1>6 DEF ReadInv

(* Another one is read, whose first token was scanned.                     *)
LEMMA GotoCounted ==
  ASSUME ReadInv, op \in ReadOps, NEW d, NEW a, Stack(d), Goto("RDSEXPR", a, d), UNCHANGED text,
         pos' \in 1..(Len(text) + 1), nesting' \in Int, Open(pos') = nesting' + Turns(tok')
  PROVE  ReadInv'
<1>1. op' = "RDSEXPR" /\ dump' = d
  BY DEF Goto
<1>2. (Open(pos))' = Open(pos')
  BY DEF Open, Seen, At
<1>3. Pending' = Turns(tok')
  BY <1>1 DEF Pending, Turns
<1>4. Counted'
  BY <1>2, <1>3 DEF Counted
<1>5. op' \in ReadOps /\ op' \notin PrintOps /\ Stack(dump')
  BY <1>1, Ops
<1> QED
  BY <1>4, <1>5 DEF ReadInv

(* After an error nothing is claimed.                                      *)
LEMMA Failing == ASSUME ReadInv, op' = "error", UNCHANGED text PROVE ReadInv'
BY Ops DEF ReadInv

(* Scanning from a place in the text up to which all is counted            *)
LEMMA Scanned ==
  ASSUME ReadInv, NEW k \in 1..(Len(text) + 1), Scan(k)
  PROVE  /\ pos' \in 1..(Len(text) + 1)
         /\ Open(pos') = Open(k) + Turns(tok')
         /\ tok' = Token(k).is
BY TokenFacts DEF ReadInv, Scan

LEMMA PrintingReturns ==
  ASSUME ReadInv, op \in PrintOps, NEW v, Return(v, dump), text' \in Seq(Characters),
         UNCHANGED printed
  PROVE  ReadInv'
<1>1. Printing
  BY DEF ReadInv
<1>2. CASE dump # <<>>
  <2>1. /\ Len(dump) \in Nat \ {0} /\ dump[Len(dump)] \in PrintFrames
        /\ SubSeq(dump, 1, Len(dump) - 1) \in Seq(PrintFrames)
    BY <1>1, <1>2 DEF Printing
  <2>2. /\ op' = dump[Len(dump)].op /\ args' = dump[Len(dump)].args
        /\ dump' \in Seq(PrintFrames)
    BY <1>2, <2>1 DEF Return, Last, Front
  <2>3. \/ op' = "P1LIST" /\ args' \in Data \cup {Nil}
        \/ op' = "PVECFROM" /\ args' \in Walks
    BY <2>1, <2>2 DEF PrintFrames
  <2> QED
    BY <1>1, <2>2, <2>3, Ops DEF ReadInv, Printing, PrintOps, printed
<1>3. CASE dump = <<>>
  <2>1. op' = "READ" /\ dump' = <<>>
    BY <1>3 DEF Return
  <2>2. pos' = 1 /\ nesting' = 0
    BY <1>1 DEF Printing, printed
  <2>3. Counted'
    <3>1. Seen(1, "(")' = {} /\ Seen(1, ")")' = {}
      BY DEF Seen
    <3>2. (Open(pos))' = 0
      BY <2>2, <3>1, FS_EmptySet DEF Open, Seen
    <3>3. Len(text') \in Nat
      OBVIOUS
    <3> QED
      BY <2>1, <2>2, <3>2, <3>3 DEF Counted, Pending
  <2> QED
    BY <2>1, <2>3, EmptyStack, Ops DEF ReadInv
<1> QED
  BY <1>2, <1>3

LEMMA PrintingGoes ==
  ASSUME ReadInv, op \in PrintOps, NEW o, NEW a, NEW d, Goto(o, a, d), text' \in Seq(Characters),
         UNCHANGED printed, d \in Seq(PrintFrames),
         \/ o \in {"P0LIST", "P1LIST"} /\ a \in Data \cup {Nil}
         \/ o = "PVECFROM" /\ a \in Walks
  PROVE  ReadInv'
<1>1. Printing
  BY DEF ReadInv
<1>2. op' = o /\ args' = a /\ dump' = d
  BY DEF Goto
<1>3. Printing'
  BY <1>1, <1>2 DEF Printing, printed
<1>4. op' \in PrintOps
  BY <1>2 DEF PrintOps
<1> QED
  BY <1>3, <1>4, Ops DEF ReadInv

LEMMA PrintingDatum ==
  ASSUME ReadInv, op \in PrintOps, NEW a \in Data \cup {Nil}, NEW d \in Seq(PrintFrames),
         Goto("P0LIST", a, d), text' \in Seq(Characters), UNCHANGED printed
  PROVE  ReadInv'
BY PrintingGoes

(* What the printer goes on with is data again.                            *)
LEMMA PartsOfData ==
  ASSUME NEW d \in Data
  PROVE  /\ IsPair(d) => d.car \in Data /\ d.cdr \in Data
         /\ d.t = "sym" => d.s \in Seq(Characters)
         /\ d.t = "vec" => Len(d.v) \in Nat /\ \A i \in 1..Len(d.v) : d.v[i] \in Data
<1>1. \A x \in Parts(d) : x \in Data
  BY ReaderAssumption
<1> DEFINE V == Range(d.v)
<1> HIDE DEF V
<1>n. Nil.t = "nil"
  BY DEF Nil
<1>k. \/ d = Nil \/ IsPair(d)
      \/ d.t = "sym" /\ d.s \in Seq(Characters)
      \/ d.t = "vec" /\ d.v \in Seq(V)
  BY ReaderAssumption DEF V
<1>2. ASSUME IsPair(d) PROVE d.car \in Data /\ d.cdr \in Data
  <2>1. Parts(d) = IF IsPair(d) THEN {d.car, d.cdr}
                     ELSE IF d.t = "vec" THEN Range(d.v) ELSE {}
    BY DEF Parts, IsPair
  <2> QED
    BY <1>1, <1>2, <2>1
<1>3. ASSUME d.t = "vec"
      PROVE  Len(d.v) \in Nat /\ \A i \in 1..Len(d.v) : d.v[i] \in Data
  <2>1. Parts(d) = Range(d.v)
    BY <1>3 DEF Parts, IsPair
  <2>2. d.v \in Seq(Range(d.v))
    BY <1>3, <1>n, <1>k DEF IsPair, V
  <2> DEFINE P == Range(d.v)
  <2> HIDE DEF P
  <2>3. d.v \in Seq(P) /\ \A x \in P : x \in Data
    BY <1>1, <2>1, <2>2 DEF P
  <2> QED
    BY <2>3
<1>4. ASSUME d.t = "sym" PROVE d.s \in Seq(Characters)
  BY <1>4, <1>n, <1>k DEF IsPair
<1> QED
  BY <1>2, <1>3, <1>4

LEMMA NamesAndNil ==
  ASSUME NEW d \in Data \cup {Nil}, d.t \in {"sym", "nil"}
  PROVE  Printed(d) \in Seq(Characters)
<1>1. Nil.t = "nil"
  BY DEF Nil
<1>2. CASE d = Nil
  <2>1. Printed(d) = <<"(", ")">>
    BY <1>2 DEF Printed
  <2>2. "(" \in Characters /\ ")" \in Characters
    BY ReaderAssumption
  <2> QED
    BY <2>1, <2>2
<1>3. CASE d # Nil
  <2>1. d \in Data /\ (d.t = "sym" => d.s \in Seq(Characters))
    BY <1>3, PartsOfData
  <2>2. d.t # "nil"
    BY <1>3, <2>1, ReaderAssumption DEF IsPair
  <2> QED
    BY <1>3, <2>1, <2>2 DEF Printed
<1> QED
  BY <1>2, <1>3

LEMMA Literal ==
  ASSUME NEW C, NEW a \in C, NEW b \in C, NEW c \in C
  PROVE  {<<>>, <<a>>, <<a, b>>, <<a, b, c>>} \subseteq Seq(C)
OBVIOUS

LEMMA Literals ==
  {<<>>, <<"#", "(">>, <<"(">>, <<")">>, <<" ">>, <<" ", ".", " ">>, <<"'">>, <<"bq">>, <<",">>,
   <<",", "@">>} \subseteq Seq(Characters)
<1>1. {"(", ")", " ", ".", "'", "bq", ",", "@", "#"} \subseteq Characters
  BY ReaderAssumption
<1> DEFINE C == Characters
<1> HIDE DEF C
<1>2. /\ "(" \in C /\ ")" \in C /\ " " \in C /\ "." \in C /\ "'" \in C
      /\ "bq" \in C /\ "," \in C /\ "@" \in C /\ "#" \in C
  BY <1>1 DEF C
<1>3. <<"#", "(">> \in Seq(C) /\ <<",", "@">> \in Seq(C) /\ <<>> \in Seq(C)
  BY <1>2, Literal
<1>4. /\ <<"(">> \in Seq(C) /\ <<")">> \in Seq(C) /\ <<" ">> \in Seq(C)
      /\ <<"'">> \in Seq(C) /\ <<"bq">> \in Seq(C) /\ <<",">> \in Seq(C)
  BY <1>2, Literal
<1>5. <<" ", ".", " ">> \in Seq(C)
  BY <1>2, Literal
<1> QED
  BY <1>3, <1>4, <1>5 DEF C

LEMMA P0ListStep == ASSUME ReadInv, P0List PROVE ReadInv'
<1>1. /\ op = "P0LIST" /\ op \in PrintOps /\ Printing /\ text \in Seq(Characters)
      /\ args \in Data \cup {Nil} /\ dump \in Seq(PrintFrames) /\ UNCHANGED printed
  BY DEF P0List, PrintOps, ReadInv, Printing
<1>2. ASSUME NEW s \in Seq(Characters), Put(s) PROVE text' \in Seq(Characters)
  BY <1>1, <1>2 DEF Put
<1>3. Nil.t = "nil"
  BY DEF Nil
<1>4. CASE args.t = "vec" /\ Put(<<"#", "(">>)
           /\ Goto("PVECFROM", [vec |-> args, i |-> 0], dump)
  <2>1. [vec |-> args, i |-> 0] \in Walks
    BY <1>1, <1>3, <1>4 DEF Walks, Vectors
  <2>2. <<"#", "(">> \in Seq(Characters)
    BY Literals
  <2>3. text' \in Seq(Characters)
    BY <1>2, <1>4, <2>2
  <2> QED
    BY <1>1, <1>4, <2>1, <2>3, PrintingGoes
<1>5. CASE args.t \in {"sym", "nil"} /\ Put(Printed(args)) /\ Return(Nil, dump)
  <2>1. text' \in Seq(Characters)
    BY <1>1, <1>2, <1>5, NamesAndNil
  <2> QED
    BY <1>1, <1>5, <2>1, PrintingReturns
<1>6. ASSUME IsPair(args) PROVE args.car \in Data /\ args.cdr \in Data
  BY <1>1, <1>3, <1>6, PartsOfData DEF IsPair
<1>7. CASE /\ IsPair(args) /\ args.car \in DOMAIN Abbreviations /\ ok_abbrev(args.cdr)
           /\ Put(Abbreviations[args.car]) /\ Goto("P0LIST", args.cdr.car, dump)
  <2>1. args.cdr.car \in Data
    BY <1>6, <1>7, PartsOfData DEF ok_abbrev
  <2>2. Abbreviations[args.car] \in Seq(Characters)
    <3>1. args.car \in {Quote, Quasi, Unquote, Splice}
      BY <1>7 DEF Abbreviations
    <3>2. \A s \in {<<"'">>, <<"bq">>, <<",">>, <<",", "@">>} : s \in Seq(Characters)
      BY Literals
    <3>3. Abbreviations[args.car] \in {<<"'">>, <<"bq">>, <<",">>, <<",", "@">>}
      BY <3>1 DEF Abbreviations
    <3> QED
      BY <3>2, <3>3
  <2>3. text' \in Seq(Characters)
    BY <1>2, <1>7, <2>2
  <2> QED
    BY <1>1, <1>7, <2>1, <2>3, PrintingDatum
<1>8. CASE IsPair(args) /\ Put(<<"(">>) /\ Goto("P0LIST", args.car, Saved("P1LIST", args.cdr))
  <2>1. Saved("P1LIST", args.cdr) \in Seq(PrintFrames)
    <3>1. [op |-> "P1LIST", args |-> args.cdr] \in PrintFrames
      BY <1>6, <1>8 DEF PrintFrames
    <3> QED
      BY <1>1, <3>1 DEF Saved
  <2>2. <<"(">> \in Seq(Characters)
    BY Literals
  <2>3. text' \in Seq(Characters)
    BY <1>2, <1>8, <2>2
  <2> QED
    BY <1>1, <1>6, <1>8, <2>1, <2>3, PrintingDatum
<1> QED
  BY <1>4, <1>5, <1>7, <1>8 DEF P0List

LEMMA P1ListStep == ASSUME ReadInv, P1List PROVE ReadInv'
<1>1. /\ op = "P1LIST" /\ op \in PrintOps /\ Printing /\ text \in Seq(Characters)
      /\ args \in Data \cup {Nil} /\ dump \in Seq(PrintFrames) /\ UNCHANGED printed
  BY DEF P1List, PrintOps, ReadInv, Printing
<1>2. ASSUME NEW s \in Seq(Characters), Put(s) PROVE text' \in Seq(Characters)
  BY <1>1, <1>2 DEF Put
<1>3. Nil.t = "nil"
  BY DEF Nil
<1>4. \A s \in {<<" ">>, <<" ", ".", " ">>, <<")">>, <<>>} : s \in Seq(Characters)
  BY Literals
<1>5. ASSUME NEW a \in Data \cup {Nil} PROVE Saved("P1LIST", a) \in Seq(PrintFrames)
  <2>1. [op |-> "P1LIST", args |-> a] \in PrintFrames
    BY DEF PrintFrames
  <2> QED
    BY <1>1, <2>1 DEF Saved
<1>6. CASE /\ IsPair(args) /\ Put(<<" ">>)
           /\ Goto("P0LIST", args.car, Saved("P1LIST", args.cdr))
  <2>1. args.car \in Data /\ args.cdr \in Data
    BY <1>1, <1>3, <1>6, PartsOfData DEF IsPair
  <2>2. text' \in Seq(Characters)
    BY <1>2, <1>4, <1>6
  <2> QED
    BY <1>1, <1>5, <1>6, <2>1, <2>2, PrintingDatum
<1>7. CASE /\ args.t = "vec" /\ Put(<<" ", ".", " ">>)
           /\ Goto("P0LIST", args, Saved("P1LIST", Nil))
  <2>1. text' \in Seq(Characters)
    BY <1>2, <1>4, <1>7
  <2> QED
    BY <1>1, <1>5, <1>7, <2>1, PrintingDatum
<1>8. CASE /\ args.t \in {"sym", "nil"}
           /\ Put((IF args = Nil THEN <<>> ELSE <<" ", ".", " ">> \o Printed(args))
                    \o <<")">>)
           /\ Return(Nil, dump)
  <2> DEFINE s == Printed(args)
  <2>1. s \in Seq(Characters)
    BY <1>1, <1>8, NamesAndNil
  <2> HIDE DEF s
  <2>2. (IF args = Nil THEN <<>> ELSE <<" ", ".", " ">> \o s) \o <<")">> \in Seq(Characters)
    <3> DEFINE dot == <<" ", ".", " ">>
               close == <<")">>
               none == <<>>
    <3>1. {dot, close, none} \subseteq Seq(Characters)
      BY <1>4
    <3> HIDE DEF dot, close, none
    <3>2. dot \o s \in Seq(Characters)
      BY <2>1, <3>1
    <3>3. (IF args = Nil THEN none ELSE dot \o s) \o close \in Seq(Characters)
      BY <3>1, <3>2
    <3> QED
      BY <3>3 DEF dot, close, none
  <2>3. text' \in Seq(Characters)
    BY <1>2, <1>8, <2>2 DEF s
  <2> QED
    BY <1>1, <1>8, <2>3, PrintingReturns
<1> QED
  BY <1>6, <1>7, <1>8 DEF P1List

LEMMA PVecFromStep == ASSUME ReadInv, PVecFrom PROVE ReadInv'
<1>1. /\ op = "PVECFROM" /\ op \in PrintOps /\ Printing /\ text \in Seq(Characters)
      /\ args \in Walks /\ dump \in Seq(PrintFrames) /\ UNCHANGED printed
  BY DEF PVecFrom, PrintOps, ReadInv, Printing
<1>2. \A s \in {<<" ">>, <<")">>, <<>>} : s \in Seq(Characters)
  BY Literals
<1>3. CASE Put(<<")">>) /\ Return(Nil, dump)
  <2> DEFINE close == <<")">>
  <2>1. close \in Seq(Characters) /\ text' = text \o close
    BY <1>2, <1>3 DEF Put
  <2> HIDE DEF close
  <2>2. text' \in Seq(Characters)
    BY <1>1, <2>1
  <2> QED
    BY <1>1, <1>3, <2>2, PrintingReturns
<1>4. CASE /\ args.i < Len(args.vec.v)
           /\ Put(IF args.i > 0 THEN <<" ">> ELSE <<>>)
           /\ Goto("P0LIST", args.vec.v[args.i + 1],
                     Saved("PVECFROM", [args EXCEPT !.i = args.i + 1]))
  <2>1. args.vec \in Data /\ args.vec.t = "vec" /\ args.i \in Nat
    BY <1>1 DEF Walks, Vectors
  <2>2. args.vec.v[args.i + 1] \in Data
    <3>1. Len(args.vec.v) \in Nat /\ \A i \in 1..Len(args.vec.v) : args.vec.v[i] \in Data
      BY <2>1, PartsOfData
    <3> DEFINE n == Len(args.vec.v)
               i == args.i
    <3>2. n \in Nat /\ i \in Nat /\ i < n
      BY <1>4, <2>1, <3>1
    <3> HIDE DEF n, i
    <3>3. i + 1 \in 1..n
      BY <3>2
    <3> QED
      BY <3>1, <3>3 DEF n, i
  <2>3. Saved("PVECFROM", [args EXCEPT !.i = args.i + 1]) \in Seq(PrintFrames)
    <3>1. [args EXCEPT !.i = args.i + 1] \in Walks
      BY <1>1 DEF Walks
    <3>2. [op |-> "PVECFROM", args |-> [args EXCEPT !.i = args.i + 1]] \in PrintFrames
      BY <3>1 DEF PrintFrames
    <3> QED
      BY <1>1, <3>2 DEF Saved
  <2>4. text' \in Seq(Characters)
    <3> DEFINE gap == IF args.i > 0 THEN <<" ">> ELSE <<>>
    <3>1. gap \in Seq(Characters) /\ text' = text \o gap
      BY <1>2, <1>4 DEF Put
    <3> HIDE DEF gap
    <3> QED
      BY <1>1, <3>1
  <2> QED
    BY <1>1, <1>4, <2>2, <2>3, <2>4, PrintingDatum
<1> QED
  BY <1>3, <1>4 DEF PVecFrom

----------------------------------------------------------------------------
LEMMA ReadInternalStep == ASSUME ReadInv, ReadInternal PROVE ReadInv'
<1>1. /\ op = "READ" /\ op \in ReadOps /\ Stack(dump) /\ pos \in 1..(Len(text) + 1)
      /\ nesting \in Int /\ Open(pos) = nesting /\ Scan(pos)
      /\ UNCHANGED text /\ UNCHANGED nesting
  BY DEF ReadInternal, ReadInv, ReadOps, Counted, Pending, written
<1>2. /\ pos' \in 1..(Len(text) + 1) /\ Open(pos') = Open(pos) + Turns(tok')
      /\ tok' = Token(pos).is
  BY <1>1, Scanned
<1>3. CASE Token(pos).is = "EOF" /\ Return(Eof, dump)
  <2>1. Turns(tok') = 0
    BY <1>2, <1>3 DEF Turns
  <2> QED
    BY <1>1, <1>2, <1>3, <2>1, ReturnCounted
<1>4. CASE Goto("RDSEXPR", Nil, dump)
  BY <1>1, <1>2, <1>4, GotoCounted
<1> QED
  BY <1>3, <1>4 DEF ReadInternal

(* A list is opened: up to its parenthesis all is counted.                 *)
LEMMA OpenListStep ==
  ASSUME ReadInv, op = "RDSEXPR", tok \in {"LPAREN", "VEC"}, NEW d, Stack(d), OpenList(d),
         UNCHANGED text
  PROVE  ReadInv'
<1>1. /\ op \in ReadOps /\ pos \in 1..(Len(text) + 1) /\ nesting \in Int
      /\ Open(pos) = nesting + 1 /\ Scan(pos)
  BY DEF OpenList, ReadInv, ReadOps, Counted, Pending, Turns
<1>2. /\ pos' \in 1..(Len(text) + 1) /\ Open(pos') = Open(pos) + Turns(tok')
      /\ tok' = Token(pos).is
  BY <1>1, Scanned
<1>3. CASE Token(pos).is = "RPAREN" /\ Return(Nil, d) /\ UNCHANGED nesting
  <2>1. Turns(tok') = -1
    BY <1>2, <1>3 DEF Turns
  <2>2. Open(pos') = nesting'
    BY <1>1, <1>2, <1>3, <2>1
  <2> QED
    BY <1>1, <1>2, <1>3, <2>2, ReturnCounted
<1>4. CASE Fails
  BY <1>4, Failing DEF Fails
<1>5. CASE /\ nesting' = nesting + 1
           /\ Goto("RDSEXPR", Nil, Append(d, [op |-> "RDLIST", args |-> <<>>]))
  <2>1. Stack(Append(d, [op |-> "RDLIST", args |-> <<>>]))
    BY Pushed DEF Saves
  <2>2. nesting' \in Int /\ Open(pos') = nesting' + Turns(tok')
    BY <1>1, <1>2, <1>5
  <2> QED
    BY <1>1, <1>2, <1>5, <2>1, <2>2, GotoCounted
<1> QED
  BY <1>3, <1>4, <1>5 DEF OpenList

LEMMA QuotedStep ==
  ASSUME ReadInv, op = "RDSEXPR", Turns(tok) = 0, NEW o \in Saves, ReadQuoted(o), UNCHANGED text
  PROVE  ReadInv'
<1>1. /\ op \in ReadOps /\ pos \in 1..(Len(text) + 1) /\ nesting \in Int /\ Stack(dump)
      /\ Open(pos) = nesting /\ Scan(pos) /\ nesting' = nesting
      /\ Goto("RDSEXPR", Nil, Saved(o, Nil))
  BY DEF ReadQuoted, ReadInv, ReadOps, Counted, Pending
<1>2. pos' \in 1..(Len(text) + 1) /\ Open(pos') = Open(pos) + Turns(tok')
  BY <1>1, Scanned
<1>3. Stack(Saved(o, Nil))
  BY <1>1, Pushed DEF Saved
<1> QED
  BY <1>1, <1>2, <1>3, GotoCounted

LEMMA RdSexprStep == ASSUME ReadInv, RdSexpr PROVE ReadInv'
<1>1. /\ op = "RDSEXPR" /\ op \in ReadOps /\ Stack(dump) /\ pos \in 1..(Len(text) + 1)
      /\ nesting \in Int /\ Open(pos) = nesting + Turns(tok)
      /\ text \in Seq(Characters) /\ UNCHANGED text
  BY DEF RdSexpr, ReadInv, ReadOps, Counted, Pending, written
<1>2. CASE tok = "EOF" /\ Return(Eof, dump) /\ UNCHANGED <<tok, pos, nesting>>
  <2>1. Turns(tok) = 0 /\ pos' = pos /\ nesting' = nesting
    BY <1>2 DEF Turns
  <2> QED
    BY <1>1, <1>2, <2>1, ReturnCounted
<1>3. CASE tok = "VEC" /\ OpenList(Saved("RDVEC", Nil))
  <2>1. Stack(Saved("RDVEC", Nil))
    BY <1>1, Pushed DEF Saved, Saves
  <2> QED
    BY <1>1, <1>3, <2>1, OpenListStep
<1>4. CASE tok = "LPAREN" /\ OpenList(dump)
  BY <1>1, <1>4, OpenListStep
<1>5. CASE /\ tok \in {"QUOTE", "COMMA", "ATMARK", "BQUOTE"}
           /\ \E o \in Saves : ReadQuoted(o)
  BY <1>1, <1>5, QuotedStep DEF Turns
<1>6. CASE /\ tok = "BQUOTE" /\ Token(pos).is = "VEC"
           /\ tok' = "LPAREN" /\ pos' = Token(pos).next
           /\ Goto("RDSEXPR", Nil, Saved("RDQQUOTEVEC", Nil))
           /\ UNCHANGED nesting
  <2>1. /\ Turns(tok) = 0 /\ Turns("VEC") = Turns(tok')
    BY <1>6 DEF Turns
  <2>2. pos' \in 1..(Len(text) + 1) /\ Open(pos') = Open(pos) + Turns(tok')
    BY <1>1, <1>6, <2>1, TokenFacts
  <2>3. Stack(Saved("RDQQUOTEVEC", Nil))
    BY <1>1, Pushed DEF Saved, Saves, QuoteOps
  <2> QED
    BY <1>1, <1>6, <2>1, <2>2, <2>3, GotoCounted
<1>7. CASE /\ tok = "ATOM" /\ Return(Sym(SubSeq(text, pos, UpTo(pos) - 1)), dump)
           /\ pos' = UpTo(pos) /\ UNCHANGED <<tok, nesting>>
  <2>1. /\ UpTo(pos) \in pos..(Len(text) + 1)
        /\ \A i \in pos..(UpTo(pos) - 1) : At(i) \notin Parens
    BY <1>1, UpToFacts DEF Delimiters, Parens
  <2> DEFINE j == UpTo(pos)
  <2> HIDE DEF j
  <2>2. Len(text) \in Nat
    BY <1>1
  <2>3. Open(j) = Open(pos) /\ j \in 1..(Len(text) + 1)
    BY <1>1, <2>1, <2>2, OpenOver DEF j
  <2>4. Turns(tok) = 0
    BY <1>7 DEF Turns
  <2>5. Open(pos') = nesting' /\ nesting' \in Int /\ pos' \in 1..(Len(text) + 1)
    BY <1>1, <1>7, <2>3, <2>4 DEF j
  <2> QED
    BY <1>1, <1>7, <2>5, ReturnCounted
<1>8. CASE Fails
  BY <1>1, <1>8, Failing DEF Fails
<1>9. {"RDQUOTE", "RDUNQUOTE", "RDUQTSP", "RDQQUOTE"} \subseteq Saves
  BY DEF Saves, QuoteOps
<1> QED
  BY <1>2, <1>3, <1>4, <1>5, <1>6, <1>7, <1>8, <1>9 DEF RdSexpr

LEMMA RdListStep == ASSUME ReadInv, RdList PROVE ReadInv'
<1> DEFINE T == Token(pos)
           elements == Append(args, value)
<1>1. /\ op = "RDLIST" /\ op \in ReadOps /\ Stack(dump) /\ pos \in 1..(Len(text) + 1)
      /\ nesting \in Int /\ Open(pos) = nesting
      /\ text \in Seq(Characters) /\ UNCHANGED text /\ Len(text) \in Nat
  BY DEF RdList, ReadInv, ReadOps, Counted, Pending, written
<1>2. T.next \in 1..(Len(text) + 1) /\ Open(T.next) = Open(pos) + Turns(T.is)
  BY <1>1, TokenFacts
<1> HIDE DEF T
<1>3. CASE T.is = "EOF" /\ Return(Eof, dump) /\ Scan(pos) /\ UNCHANGED nesting
  <2>1. pos' = T.next /\ Turns(T.is) = 0 /\ nesting' = nesting
    BY <1>3 DEF Turns, Scan, T
  <2> QED
    BY <1>1, <1>2, <1>3, <2>1, ReturnCounted
<1>4. CASE /\ T.is = "RPAREN" /\ Return(List(elements, Nil), dump)
           /\ pos' = IF At(T.next) = "n" THEN T.next + 1 ELSE T.next
           /\ nesting' = nesting - 1
  <2>1. Open(T.next) = nesting'
    BY <1>1, <1>2, <1>4 DEF Turns
  <2>2. pos' \in 1..(Len(text) + 1) /\ Open(pos') = Open(T.next)
    <3>1. CASE At(T.next) = "n"
      <4>1. T.next # Len(text) + 1
        BY <1>1, <1>2, <3>1 DEF At
      <4>2. Open(T.next + 1) = Open(T.next) + Opens("n") /\ Open(T.next) \in Int
        <5>1. T.next \in Nat \ {0}
          BY <1>1, <1>2
        <5> QED
          BY <3>1, <5>1, OpenNext
      <4> QED
        BY <1>1, <1>2, <1>4, <3>1, <4>1, <4>2 DEF Opens
    <3> QED
      BY <1>2, <1>4, <3>1
  <2> QED
    BY <1>1, <1>4, <2>1, <2>2, ReturnCounted
<1>5. ASSUME NEW k \in 1..(Len(text) + 1), Open(k) = nesting, Scan(k), UNCHANGED nesting,
             NEW o \in Saves, Goto("RDSEXPR", Nil, Saved(o, elements))
      PROVE  ReadInv'
  <2>1. pos' \in 1..(Len(text) + 1) /\ Open(pos') = Open(k) + Turns(tok')
    BY <1>5, Scanned
  <2>2. Stack(Saved(o, elements))
    BY <1>1, Pushed DEF Saved
  <2> HIDE DEF elements
  <2> QED
    BY <1>1, <1>5, <2>1, <2>2, GotoCounted
<1>6. CASE /\ T.is = "DOT" /\ Goto("RDSEXPR", Nil, Saved("RDDOT", elements))
           /\ Scan(T.next) /\ UNCHANGED nesting
  <2>1. Open(T.next) = nesting /\ "RDDOT" \in Saves
    BY <1>1, <1>2, <1>6 DEF Turns, Saves
  <2> HIDE DEF elements
  <2> QED
    BY <1>2, <1>5, <1>6, <2>1
<1>7. CASE /\ Goto("RDSEXPR", Nil, Saved("RDLIST", elements))
           /\ Scan(pos) /\ UNCHANGED nesting
  <2>1. "RDLIST" \in Saves
    BY DEF Saves
  <2> HIDE DEF elements
  <2> QED
    BY <1>1, <1>5, <1>7, <2>1
<1> QED
  BY <1>3, <1>4, <1>6, <1>7 DEF RdList, T

LEMMA RdDotStep == ASSUME ReadInv, RdDot PROVE ReadInv'
<1>1. /\ op = "RDDOT" /\ op \in ReadOps /\ Stack(dump) /\ pos \in 1..(Len(text) + 1)
      /\ nesting \in Int /\ Open(pos) = nesting /\ Scan(pos) /\ UNCHANGED text
  BY DEF RdDot, ReadInv, ReadOps, Counted, Pending, written
<1>2. /\ pos' \in 1..(Len(text) + 1) /\ Open(pos') = Open(pos) + Turns(tok')
      /\ tok' = Token(pos).is
  BY <1>1, Scanned
<1>3. CASE Fails
  BY <1>1, <1>3, Failing DEF Fails
<1>4. CASE /\ Token(pos).is = "RPAREN" /\ nesting' = nesting - 1
           /\ Return(List(args, value), dump)
  <2>1. Open(pos') = nesting' /\ nesting' \in Int
    BY <1>1, <1>2, <1>4 DEF Turns
  <2> QED
    BY <1>1, <1>2, <1>4, <2>1, ReturnCounted
<1> QED
  BY <1>3, <1>4 DEF RdDot

LEMMA MadeStep == ASSUME ReadInv, RdQuoted \/ RdVec PROVE ReadInv'
<1>1. /\ op \in ReadOps /\ op # "RDSEXPR" /\ Stack(dump) /\ UNCHANGED <<text, pos, nesting>>
  BY Ops DEF RdQuoted, RdVec, ReadInv, ReadOps, QuoteOps, written
<1>2. pos \in 1..(Len(text) + 1) /\ nesting \in Int /\ Open(pos) = nesting
  BY <1>1 DEF ReadInv, Counted, Pending
<1>3. CASE \E v : Return(v, dump)
  BY <1>1, <1>2, <1>3, ReturnCounted
<1>4. CASE Fails
  BY <1>1, <1>4, Failing DEF Fails
<1> QED
  BY <1>3, <1>4 DEF RdQuoted, RdVec

LEMMA StutterRead == ASSUME ReadInv, UNCHANGED readerVars PROVE ReadInv'
<1>1. UNCHANGED <<op, args, dump, tok, text, pos, nesting>>
  BY DEF readerVars
<1>2. (Open(pos))' = Open(pos) /\ Pending' = Pending
  BY <1>1 DEF Open, Seen, At, Pending, Turns
<1>3. Counted' <=> Counted
  BY <1>1, <1>2 DEF Counted
<1>4. Printing' <=> Printing
  BY <1>1 DEF Printing
<1> QED
  BY <1>1, <1>3, <1>4 DEF ReadInv

LEMMA ReadInit == ASSUME ReaderInit PROVE ReadInv
<1>1. dump = <<>> /\ pos = 1 /\ nesting = 0
  BY DEF ReaderInit
<1>2. CASE datum \in Data /\ op = "P0LIST" /\ args = datum /\ text = <<>>
  <2>1. Printing
    BY <1>1, <1>2 DEF Printing
  <2> QED
    BY <1>2, <2>1, Ops DEF ReadInv, PrintOps, ReadOps, QuoteOps
<1>3. CASE text \in Texts /\ op = "READ"
  <2>1. text \in Seq(Characters)
    BY <1>3, ReaderAssumption
  <2>2. Seen(1, "(") = {} /\ Seen(1, ")") = {}
    BY DEF Seen
  <2>3. Open(pos) = 0
    <3>1. Cardinality({}) = 0
      BY FS_EmptySet
    <3>2. Cardinality(Seen(1, "(")) = 0 /\ Cardinality(Seen(1, ")")) = 0
      BY <2>2, <3>1
    <3>3. Open(1) = 0 - 0
      BY <3>2 DEF Open
    <3> QED
      BY <1>1, <3>3
  <2>4. Len(text) \in Nat
    BY <2>1
  <2>5. Counted
    BY <1>1, <1>3, <2>3, <2>4 DEF Counted, Pending
  <2> QED
    BY <1>1, <1>3, <2>1, <2>5, EmptyStack, Ops DEF ReadInv
<1> QED
  BY <1>2, <1>3 DEF ReaderInit

(* When the datum was read no token is pending.                            *)
LEMMA CountedAtEnd == ReadInv => UnclosedCounted
<1> SUFFICES ASSUME ReadInv, op = "done" PROVE nesting = CountOf("(") - CountOf(")")
  BY DEF UnclosedCounted
<1>1. Counted /\ Pending = 0
  BY DEF ReadInv, Pending
<1>2. Open(pos) = nesting
  <2>1. \A x \in Int : x + 0 = x
    OBVIOUS
  <2>2. nesting + Pending = nesting
    BY <1>1, <2>1 DEF Counted
  <2> QED
    BY <1>1, <2>2 DEF Counted
<1>3. \A c : CountOf(c) = Cardinality(Seen(pos, c))
  BY DEF Seen, CountOf, Cardinality
<1> QED
  BY <1>2, <1>3 DEF Open

(* For every datum that is printed and read back, and every text, whatever *)
(* its characters: when a datum was read without an error, nesting_stack   *)
(* has the number of parentheses opened and not closed.                    *)
THEOREM UnclosedAlwaysCounted == ReaderSpec => []UnclosedCounted
<1>1. ReaderInit => ReadInv
  BY ReadInit
<1>2. ReadInv /\ [ReaderNext]_readerVars => ReadInv'
  BY P0ListStep, P1ListStep, PVecFromStep, ReadInternalStep, RdSexprStep, RdListStep,
     RdDotStep, MadeStep, StutterRead DEF ReaderNext, Done
<1>3. ReadInv => UnclosedCounted
  BY CountedAtEnd
<1> QED
  BY <1>1, <1>2, <1>3, PTL DEF ReaderSpec
-----------------------------------------------------------------------------
(* Names, the symbol table and the global frame (Symbols)                  *)
Types ==
  /\ hash_fn \in [Names -> Buckets]
  /\ syntax \subseteq Names
  /\ symname \in Seq(Names)
  /\ oblist \in [Buckets -> Seq(1..Len(symname))]
  /\ gensym_cnt \in 0..LongMax

(* Every symbol is in its bucket, ...                                      *)
Filed == \A s \in Symbols :
           \E k \in DOMAIN oblist[Location(s)] : oblist[Location(s)][k] = s

(* ... no two in a bucket differ in case only, ...                         *)
Apart == \A b \in Buckets : \A j, k \in DOMAIN oblist[b] :
           stricmp(symname[oblist[b][j]], symname[oblist[b][k]]) => j = k

(* ... and keywords come before everything else.                           *)
KeywordsApart ==
  /\ \A m, n \in syntax : strlwr[m] = strlwr[n] => m = n
  /\ \A s \in Symbols, n \in syntax : ~stricmp(symname[s], n)

TableInv == Types /\ Filed /\ Apart /\ KeywordsApart
-----------------------------------------------------------------------------
LEMMA Consed ==
  ASSUME NEW S, NEW x \in S, NEW l \in Seq(S)
  PROVE  /\ <<x>> \o l \in Seq(S)
         /\ Len(<<x>> \o l) = Len(l) + 1
         /\ (<<x>> \o l)[1] = x
         /\ \A k \in 2..(Len(l) + 1) : (<<x>> \o l)[k] = l[k - 1]
OBVIOUS

LEMMA TableFinds == TableInv => FindsItself
<1> SUFFICES ASSUME TableInv, NEW s \in Symbols
             PROVE  oblist_find_by_name(symname[s]) = s
  BY DEF FindsItself
<1> DEFINE bucket == oblist[Location(s)]
           same == {k \in DOMAIN bucket : stricmp(symname[s], symname[bucket[k]])}
<1>0. Location(s) \in Buckets /\ bucket \in Seq(Symbols) /\ symname[s] \in Names
  BY DEF TableInv, Types, Location, Symbols
<1>1. PICK k \in DOMAIN bucket : bucket[k] = s
  BY DEF TableInv, Filed
<1>2. same = {k}
  BY <1>0, <1>1 DEF TableInv, Apart, stricmp
<1>3. k \in Nat
  BY <1>0
<1>4. (CHOOSE j \in same : \A i \in same : j <= i) = k
  BY <1>2, <1>3
<1> QED BY <1>1, <1>2, <1>4 DEF oblist_find_by_name, Location

(* What is not found matches nothing in its bucket.                        *)
LEMMA NotFound ==
  ASSUME Types, Apart, NEW n \in Names, oblist_find_by_name(n) = NIL
  PROVE  \A k \in DOMAIN oblist[hash_fn[n]] :
           ~stricmp(n, symname[oblist[hash_fn[n]][k]])
<1> DEFINE bucket == oblist[hash_fn[n]]
           same == {k \in DOMAIN bucket : stricmp(n, symname[bucket[k]])}
<1>1. bucket \in Seq(1..Len(symname)) /\ Len(symname) \in Nat
  BY DEF Types
<1>2. SUFFICES ASSUME same # {} PROVE FALSE
  OBVIOUS
<1>3. PICK m \in DOMAIN bucket : stricmp(n, symname[bucket[m]])
  BY <1>2
<1>4. hash_fn[n] \in Buckets
  BY DEF Types
<1>5. same = {m}
  <2>1. ASSUME NEW k \in same PROVE k = m
    BY <1>3, <1>4, <2>1 DEF Apart, stricmp
  <2> QED BY <1>3, <2>1
<1>6. m \in Nat
  BY <1>1
<1>7. (CHOOSE j \in same : \A i \in same : j <= i) = m
  BY <1>5, <1>6
<1>8. oblist_find_by_name(n) = bucket[m]
  BY <1>2, <1>7 DEF oblist_find_by_name
<1>9. bucket[m] \in 1..Len(symname)
  BY <1>1
<1> QED BY <1>1, <1>8, <1>9 DEF NIL

(* A symbol is added under a name that nothing in its bucket matches.      *)
LEMMA Adding ==
  ASSUME Types, Filed, Apart, NEW n \in Names,
         \A k \in DOMAIN oblist[hash_fn[n]] :
           ~stricmp(n, symname[oblist[hash_fn[n]][k]]),
         oblist_add_by_name(n), UNCHANGED hash_fn
  PROVE  /\ symname' \in Seq(Names)
         /\ oblist' \in [Buckets -> Seq(1..Len(symname'))]
         /\ Filed' /\ Apart'
         /\ Symbols' = Symbols \cup {Len(symname) + 1}
         /\ symname'[Len(symname) + 1] = n
         /\ \A s \in Symbols : symname'[s] = symname[s]
<1> DEFINE s == Len(symname) + 1
           b == hash_fn[n]
           old == oblist[b]
           new == <<s>> \o old
<1>1. /\ symname \in Seq(Names) /\ Len(symname) \in Nat /\ Symbols = 1..Len(symname)
      /\ b \in Buckets /\ hash_fn \in [Names -> Buckets]
      /\ oblist \in [Buckets -> Seq(1..Len(symname))]
      /\ old \in Seq(1..Len(symname))
  BY DEF Types, Symbols
<1>2. symname' = Append(symname, n) /\ oblist' = [oblist EXCEPT ![b] = new]
  BY DEF oblist_add_by_name
<1>3. /\ symname' \in Seq(Names) /\ Len(symname') = s
      /\ Symbols' = 1..s /\ symname'[s] = n
      /\ \A r \in Symbols : symname'[r] = symname[r]
  BY <1>1, <1>2 DEF Symbols
<1>4. old \in Seq(1..s)
  BY <1>1
<1>5. /\ new \in Seq(1..s) /\ Len(new) = Len(old) + 1 /\ new[1] = s
      /\ \A k \in 2..(Len(old) + 1) : new[k] = old[k - 1]
  BY SMTT(30), <1>1, <1>4, Consed
<1>6. oblist' \in [Buckets -> Seq(1..Len(symname'))]
  <2>1. \A c \in Buckets : oblist[c] \in Seq(1..s)
    BY <1>1
  <2> HIDE DEF new, s
  <2> QED BY <1>1, <1>2, <1>3, <1>5, <2>1
<1>7. oblist'[b] = new /\ \A c \in Buckets \ {b} : oblist'[c] = oblist[c]
  BY <1>1, <1>2
<1>8. \A r \in Symbols : symname[r] \in Names /\ Location(r)' = Location(r)
                         /\ Location(r) \in Buckets
  BY <1>1, <1>3 DEF Location
<1>9. hash_fn'[symname'[s]] = b
  BY <1>3
<1> HIDE DEF new, s, b, old
<1>10. Symbols' = Symbols \cup {s}
  BY <1>1, <1>3 DEF s
<1>11. Filed'
  <2> SUFFICES ASSUME NEW r \in Symbols'
               PROVE  \E k \in DOMAIN oblist'[Location(r)'] :
                        oblist'[Location(r)'][k] = r
    BY DEF Filed
  <2>1. CASE r = s
    <3>1. Len(old) \in Nat
      BY <1>1
    <3>2. 1 \in DOMAIN new
      BY <1>5, <3>1
    <3>3. Location(r)' = b
      BY <2>1, <1>9 DEF Location
    <3>4. oblist'[Location(r)'] = new /\ new[1] = r
      <4>1. oblist'[Location(r)'] = new
        BY <3>3, <1>7
      <4>2. new[1] = r
        BY <2>1, <1>5
      <4> QED BY <4>1, <4>2
    <3> QED BY <3>2, <3>4
  <2>2. CASE r # s
    <3>1. r \in Symbols
      BY <2>2, <1>10
    <3>2. PICK k \in DOMAIN oblist[Location(r)] : oblist[Location(r)][k] = r
      BY <3>1 DEF Filed
    <3>3. CASE Location(r) = b
      <4>1. k \in 1..Len(old) /\ old[k] = r /\ Len(old) \in Nat
        BY <3>2, <3>3, <1>1 DEF old
      <4>2. k + 1 \in 2..(Len(old) + 1) /\ (k + 1) - 1 = k
        BY <4>1
      <4>3. new[k + 1] = old[k]
        BY <4>2, <1>5
      <4>4. k + 1 \in DOMAIN new
        BY <4>2, <1>5
      <4> QED BY <4>1, <4>3, <4>4, <3>1, <3>3, <1>7, <1>8
    <3>4. CASE Location(r) # b
      BY <3>1, <3>2, <3>4, <1>7, <1>8
    <3> QED BY <3>3, <3>4
  <2> QED BY <2>1, <2>2
<1>12. Apart'
  <2> SUFFICES ASSUME NEW c \in Buckets, NEW j \in DOMAIN oblist'[c],
                      NEW k \in DOMAIN oblist'[c],
                      stricmp(symname'[oblist'[c][j]], symname'[oblist'[c][k]])
               PROVE  j = k
    BY DEF Apart, stricmp
  <2>1. CASE c # b
    <3>1. oblist'[c] = oblist[c] /\ oblist[c][j] \in Symbols /\ oblist[c][k] \in Symbols
      BY SMTT(30), <2>1, <1>1, <1>7
    <3> QED BY <3>1, <1>3 DEF Apart, stricmp
  <2>2. CASE c = b
    <3>1. \A i \in 2..(Len(old) + 1) :
            /\ new[i] \in Symbols /\ i - 1 \in DOMAIN old
            /\ symname'[new[i]] = symname[old[i - 1]]
            /\ ~stricmp(n, symname[old[i - 1]])
      <4> SUFFICES ASSUME NEW i \in 2..(Len(old) + 1)
                   PROVE  /\ new[i] \in Symbols /\ i - 1 \in DOMAIN old
                          /\ symname'[new[i]] = symname[old[i - 1]]
                          /\ ~stricmp(n, symname[old[i - 1]])
        OBVIOUS
      <4>1. Len(old) \in Nat /\ DOMAIN old = 1..Len(old)
        BY <1>1
      <4>2. i - 1 \in DOMAIN old
        BY <4>1
      <4>3. new[i] = old[i - 1]
        BY <1>5
      <4>4. old[i - 1] \in Symbols
        BY <1>1, <4>2
      <4>5. ~stricmp(n, symname[old[i - 1]])
        BY <4>2 DEF old, b
      <4> QED BY <4>2, <4>3, <4>4, <4>5, <1>3
    <3>2. j \in 1..(Len(old) + 1) /\ k \in 1..(Len(old) + 1) /\ Len(old) \in Nat
      BY <2>2, <1>1, <1>5, <1>7
    <3>3. CASE j = 1 \/ k = 1
      <4>1. ASSUME NEW i \in 2..(Len(old) + 1)
            PROVE  strlwr[symname'[new[i]]] # strlwr[symname'[new[1]]]
        BY <4>1, <3>1, <1>3, <1>5 DEF stricmp
      <4>2. strlwr[symname'[new[j]]] = strlwr[symname'[new[k]]]
        BY <2>2, <1>7 DEF stricmp
      <4>3. (j # 1 => j \in 2..(Len(old) + 1)) /\ (k # 1 => k \in 2..(Len(old) + 1))
        BY <3>2
      <4> QED BY <4>1, <4>2, <4>3, <3>3
    <3>4. CASE j # 1 /\ k # 1
      <4>0. j \in 2..(Len(old) + 1) /\ k \in 2..(Len(old) + 1)
        BY <3>2, <3>4
      <4>1. j - 1 = k - 1
        <5>1. strlwr[symname'[new[j]]] = strlwr[symname'[new[k]]]
          BY <2>2, <1>7 DEF stricmp
        <5>2. strlwr[symname[old[j - 1]]] = strlwr[symname[old[k - 1]]]
          BY <4>0, <5>1, <3>1
        <5>3. j - 1 \in DOMAIN oblist[b] /\ k - 1 \in DOMAIN oblist[b]
          BY <4>0, <3>1 DEF old
        <5> QED BY <5>2, <5>3, <1>1 DEF Apart, stricmp, old
      <4> QED BY <4>0, <4>1
    <3> QED BY <3>3, <3>4
  <2> QED BY <2>1, <2>2
<1> QED BY <1>3, <1>6, <1>11, <1>12, <1>10 DEF s

(* What leaves the table alone.                                            *)
LEMMA Leaving ==
  ASSUME TableInv, UNCHANGED <<hash_fn, syntax, table>>, gensym_cnt' \in 0..LongMax
  PROVE  TableInv'
<1>1. UNCHANGED <<hash_fn, syntax, symname, oblist>>
  BY DEF table
<1> QED BY <1>1 DEF TableInv, Types, Filed, Apart, KeywordsApart, Symbols, Location, stricmp

LEMMA Making ==
  ASSUME TableInv, NEW n \in Names, mk_symbol(n), syntax = {},
         UNCHANGED <<hash_fn, syntax>>, gensym_cnt' \in 0..LongMax
  PROVE  TableInv'
<1>1. CASE oblist_find_by_name(n) # NIL
  BY <1>1, Leaving DEF mk_symbol
<1>2. CASE oblist_find_by_name(n) = NIL
  <2>1. oblist_add_by_name(n)
    BY <1>2 DEF mk_symbol
  <2> QED BY <1>2, <2>1, NotFound, Adding DEF TableInv, Types, KeywordsApart
<1> QED BY <1>1, <1>2

LEMMA InitTableInv == SymbolsInit => TableInv
BY NamesAssumption
   DEF SymbolsInit, TableInv, Types, Filed, Apart, KeywordsApart, Symbols

LEMMA StepTableInv == TableInv /\ [SymbolsNext]_symbolsVars => TableInv'
<1> SUFFICES ASSUME TableInv, [SymbolsNext]_symbolsVars PROVE TableInv'
  OBVIOUS
<1>1. ASSUME NEW n \in Names, AssignSyntax(n) PROVE TableInv'
  <2>1. \A k \in DOMAIN oblist[hash_fn[n]] :
          ~stricmp(n, symname[oblist[hash_fn[n]][k]])
    BY <1>1 DEF AssignSyntax, TableInv, Types, KeywordsApart, Symbols, stricmp
  <2>2. oblist_add_by_name(n) /\ UNCHANGED hash_fn
    BY <1>1 DEF AssignSyntax
  <2>3. KeywordsApart'
    <3>1. /\ Symbols' = Symbols \cup {Len(symname) + 1}
          /\ symname'[Len(symname) + 1] = n
          /\ \A s \in Symbols : symname'[s] = symname[s]
      BY <2>1, <2>2, Adding DEF TableInv
    <3>2. syntax' = syntax \ {n} /\ n \in syntax
      BY <1>1 DEF AssignSyntax
    <3> QED BY <3>1, <3>2 DEF TableInv, KeywordsApart, stricmp
  <2> QED BY <1>1, <2>1, <2>2, <2>3, Adding DEF AssignSyntax, TableInv, Types
<1>2. ASSUME NEW n \in Names, ReadName(n) PROVE TableInv'
  BY <1>2, Making, NamesAssumption DEF ReadName, TableInv, Types
<1>3. ASSUME NEW n \in Names, StringToSymbol(n) PROVE TableInv'
  BY <1>3, Making DEF StringToSymbol, TableInv, Types
<1>4. CASE Gensym
  <2>1. gensym_cnt' \in 0..LongMax
    BY <1>4, NamesAssumption DEF Gensym, TableInv, Types
  <2>2. CASE gensym_cnt' = LongMax /\ UNCHANGED table
    BY <1>4, <2>1, <2>2, Leaving DEF Gensym
  <2>3. CASE /\ oblist_find_by_name(gensym_name[gensym_cnt']) = NIL
             /\ oblist_add_by_name(gensym_name[gensym_cnt'])
    <3>1. gensym_name[gensym_cnt'] \in Names
      BY <2>1, NamesAssumption
    <3>2. mk_symbol(gensym_name[gensym_cnt'])
      BY <2>3 DEF mk_symbol
    <3> QED BY <1>4, <2>1, <3>1, <3>2, Making DEF Gensym
  <2> QED BY <1>4, <2>2, <2>3 DEF Gensym
<1>5. CASE Oblist
  BY <1>5, Leaving DEF Oblist, TableInv, Types
<1>6. ASSUME NEW s \in Symbols, NEW v \in Values, Define(s, v) PROVE TableInv'
  <2>1. UNCHANGED <<hash_fn, syntax, table, gensym_cnt>>
    BY <1>6 DEF Define
  <2>2. gensym_cnt' \in 0..LongMax
    BY <2>1 DEF TableInv, Types
  <2> QED BY <2>1, <2>2, Leaving
<1>7. CASE UNCHANGED symbolsVars
  BY <1>7, Leaving DEF symbolsVars, TableInv, Types
<1> QED BY <1>1, <1>2, <1>3, <1>4, <1>5, <1>6, <1>7 DEF SymbolsNext

(* A symbol is found by its spelling, however the names fall into the      *)
(* buckets: mk_symbol and gensym add none that is there, and the keywords, *)
(* which are added unseen, come first.                                     *)
THEOREM SymbolsFindThemselves == SymbolsSpec => []FindsItself
<1>1. SymbolsSpec => []TableInv
  BY InitTableInv, StepTableInv, PTL DEF SymbolsSpec
<1> QED BY <1>1, TableFinds, PTL
-----------------------------------------------------------------------------
(* The global frame: each slot is in the bucket of a variable that was     *)
(* defined and has what that was last given, no variable has two, ...      *)
SlotsTrue ==
  /\ global_env \in [Buckets -> Seq([var : Symbols, val : Values])]
  /\ DOMAIN bound \subseteq Symbols
  /\ \A b \in Buckets : \A k \in DOMAIN global_env[b] :
       /\ global_env[b][k].var \in DOMAIN bound
       /\ global_env[b][k].val = bound[global_env[b][k].var]
       /\ hash_fn[symname[global_env[b][k].var]] = b

OneSlot == \A b \in Buckets : \A j, k \in DOMAIN global_env[b] :
             global_env[b][j].var = global_env[b][k].var => j = k

(* ... and every variable has one.                                         *)
Placed == \A s \in DOMAIN bound : find_slot_in_env(s) # {}

GInv == SlotsTrue /\ OneSlot /\ Placed

LEMMA GInvHolds == TableInv /\ GInv => GlobalsHold
<1> SUFFICES ASSUME TableInv, GInv, NEW s \in Symbols
             PROVE  {global_env[Location(s)][k].val : k \in find_slot_in_env(s)} =
                      IF s \in DOMAIN bound THEN {bound[s]} ELSE {}
  BY DEF GlobalsHold
<1>1. Location(s) \in Buckets
  BY DEF TableInv, Types, Symbols, Location
<1>2. \A k \in find_slot_in_env(s) :
        s \in DOMAIN bound /\ global_env[Location(s)][k].val = bound[s]
  BY <1>1 DEF GInv, SlotsTrue, find_slot_in_env
<1>3. s \in DOMAIN bound => find_slot_in_env(s) # {}
  BY DEF GInv, Placed
<1> QED BY <1>2, <1>3

(* What leaves the frame alone keeps the names of the symbols.             *)
LEMMA Keeping ==
  ASSUME TableInv, GInv, UNCHANGED <<hash_fn, globals>>, Symbols \subseteq Symbols',
         \A s \in Symbols : symname'[s] = symname[s]
  PROVE  GInv'
<1>1. UNCHANGED <<hash_fn, global_env, bound>>
  BY DEF globals
<1>2. SlotsTrue'
  <2>1. [var : Symbols, val : Values] \subseteq [var : Symbols', val : Values]
    OBVIOUS
  <2>2. global_env \in [Buckets -> Seq([var : Symbols', val : Values])]
    <3>1. \A b \in Buckets : global_env[b] \in Seq([var : Symbols', val : Values])
      <4> SUFFICES ASSUME NEW b \in Buckets
                   PROVE  global_env[b] \in Seq([var : Symbols', val : Values])
        OBVIOUS
      <4> DEFINE R == [var : Symbols, val : Values]
                 Q == [var : Symbols', val : Values]
      <4>1. global_env[b] \in Seq(R) /\ R \subseteq Q
        BY <2>1 DEF GInv, SlotsTrue
      <4> HIDE DEF R, Q
      <4>2. global_env[b] \in Seq(Q)
        BY <4>1
      <4> QED BY <4>2 DEF Q
    <3> QED BY <3>1 DEF GInv, SlotsTrue
  <2>3. \A s \in DOMAIN bound : symname'[s] = symname[s]
    BY DEF GInv, SlotsTrue
  <2>4. \A b \in Buckets : \A k \in DOMAIN global_env[b] :
          /\ global_env[b][k].var \in DOMAIN bound
          /\ global_env[b][k].val = bound[global_env[b][k].var]
          /\ hash_fn[symname'[global_env[b][k].var]] = b
    BY <2>3 DEF GInv, SlotsTrue
  <2>5. DOMAIN bound \subseteq Symbols'
    BY DEF GInv, SlotsTrue
  <2>6. global_env' = global_env /\ bound' = bound /\ hash_fn' = hash_fn
    BY <1>1
  <2>7. global_env' \in [Buckets -> Seq([var : Symbols', val : Values])]
    BY ONLY <2>2, <2>6
  <2>8. \A b \in Buckets : \A k \in DOMAIN global_env'[b] :
          /\ global_env'[b][k].var \in DOMAIN bound'
          /\ global_env'[b][k].val = bound'[global_env'[b][k].var]
          /\ hash_fn'[symname'[global_env'[b][k].var]] = b
    BY ONLY <2>4, <2>6
  <2>9. DOMAIN bound' \subseteq Symbols'
    BY ONLY <2>5, <2>6
  <2> QED BY ONLY <2>7, <2>8, <2>9 DEF SlotsTrue
<1>3. OneSlot'
  BY <1>1 DEF GInv, OneSlot
<1>4. Placed'
  <2>1. \A s \in DOMAIN bound : find_slot_in_env(s)' = find_slot_in_env(s)
    BY <1>1 DEF GInv, SlotsTrue, find_slot_in_env, Location
  <2> QED BY <1>1, <2>1 DEF GInv, Placed
<1> QED BY <1>2, <1>3, <1>4 DEF GInv

(* A definition sets the only slot of its variable, or makes the first.    *)
LEMMA Defining ==
  ASSUME TableInv, GInv, NEW s \in Symbols, NEW v \in Values, Define(s, v)
  PROVE  GInv'
<1> DEFINE b == Location(s)
           old == global_env[b]
           new == <<Slot(s, v)>> \o old
<1>0. hash_fn' = hash_fn /\ symname' = symname /\ Symbols' = Symbols
  BY DEF Define, table, Symbols
<1>1. /\ b \in Buckets /\ old \in Seq([var : Symbols, val : Values])
      /\ global_env \in [Buckets -> Seq([var : Symbols, val : Values])]
      /\ Slot(s, v) \in [var : Symbols, val : Values]
  <2>1. b \in Buckets
    BY DEF TableInv, Types, Symbols, Location
  <2> QED BY <2>1 DEF GInv, SlotsTrue, Slot
<1>2. /\ DOMAIN bound' = DOMAIN bound \cup {s} /\ bound'[s] = v
      /\ \A x \in DOMAIN bound : x # s => bound'[x] = bound[x]
      /\ DOMAIN bound' \subseteq Symbols
  BY DEF Define, GInv, SlotsTrue
<1>3. \A x : Location(x)' = Location(x)
  BY <1>0 DEF Location
<1>4. Slot(s, v).var = s /\ Slot(s, v).val = v
  BY DEF Slot
<1> HIDE DEF b, old, new
<1>5. ASSUME NEW k \in find_slot_in_env(s), set_slot_in_env(k, s, v)
      PROVE  GInv'
  <2>1. k \in DOMAIN old /\ old[k].var = s
    BY <1>5 DEF find_slot_in_env, b, old
  <2>2. [old[k] EXCEPT !.val = v] \in [var : Symbols, val : Values]
    <3>1. old[k] \in [var : Symbols, val : Values]
      <4> DEFINE R == [var : Symbols, val : Values]
      <4>1. old \in Seq(R)
        BY <1>1
      <4> HIDE DEF R
      <4>2. old[k] \in R
        BY <4>1, <2>1
      <4> QED BY <4>2 DEF R
    <3> QED BY <3>1
  <2>3. global_env'[b] = [old EXCEPT ![k].val = v]
    BY <1>1, <1>5 DEF set_slot_in_env, b, old
  <2>4. \A c \in Buckets : c # b => global_env'[c] = global_env[c]
    BY <1>1, <1>5 DEF set_slot_in_env, b
  <2>5. /\ global_env'[b] \in Seq([var : Symbols, val : Values])
        /\ DOMAIN global_env'[b] = DOMAIN old
        /\ global_env'[b][k] = [old[k] EXCEPT !.val = v]
        /\ \A j \in DOMAIN old : j # k => global_env'[b][j] = old[j]
    BY <1>1, <2>1, <2>2, <2>3
  <2>6. global_env'[b][k].var = s /\ global_env'[b][k].val = v
    BY <1>1, <2>1, <2>5
  <2>7. ASSUME NEW c \in Buckets, NEW j \in DOMAIN global_env'[c], c # b \/ j # k
        PROVE  /\ j \in DOMAIN global_env[c]
               /\ global_env'[c][j] = global_env[c][j]
               /\ global_env[c][j].var # s
    <3>1. j \in DOMAIN global_env[c] /\ global_env'[c][j] = global_env[c][j]
      BY <2>4, <2>5, <2>7 DEF old
    <3>2. CASE c # b
      BY <3>1, <3>2 DEF GInv, SlotsTrue, b, Location
    <3>3. CASE c = b
      BY <3>1, <3>3, <2>1, <2>7, <1>1 DEF GInv, OneSlot, old
    <3> QED BY <3>1, <3>2, <3>3
  <2>8. SlotsTrue'
    <3>1. global_env' \in [Buckets -> Seq([var : Symbols', val : Values])]
      <4>1. global_env' = [global_env EXCEPT ![b] = global_env'[b]]
        BY <1>1, <1>5, <2>3 DEF set_slot_in_env, b, old
      <4> QED BY <4>1, <1>0, <1>1, <2>5
    <3>2. ASSUME NEW c \in Buckets, NEW j \in DOMAIN global_env'[c]
          PROVE  /\ global_env'[c][j].var \in DOMAIN bound'
                 /\ global_env'[c][j].val = bound'[global_env'[c][j].var]
                 /\ hash_fn'[symname'[global_env'[c][j].var]] = c
      <4>1. CASE c = b /\ j = k
        BY <4>1, <2>6, <1>2, <1>0 DEF b, Location
      <4>2. CASE c # b \/ j # k
        BY <4>2, <3>2, <2>7, <1>2, <1>0 DEF GInv, SlotsTrue
      <4> QED BY <4>1, <4>2
    <3> QED BY <3>1, <3>2, <1>0, <1>2 DEF SlotsTrue
  <2>9. OneSlot'
    <3> SUFFICES ASSUME NEW c \in Buckets, NEW i \in DOMAIN global_env'[c],
                        NEW j \in DOMAIN global_env'[c],
                        global_env'[c][i].var = global_env'[c][j].var
                 PROVE  i = j
      BY DEF OneSlot
    <3>1. CASE c = b /\ (i = k \/ j = k)
      BY <3>1, <2>6, <2>7
    <3>2. CASE c # b \/ (i # k /\ j # k)
      BY <3>2, <2>7 DEF GInv, OneSlot
    <3> QED BY <3>1, <3>2
  <2>10. Placed'
    <3> SUFFICES ASSUME NEW x \in DOMAIN bound'
                 PROVE  \E j \in DOMAIN global_env'[Location(x)] :
                          global_env'[Location(x)][j].var = x
      BY <1>3 DEF Placed, find_slot_in_env
    <3>1. CASE x = s
      BY <3>1, <2>1, <2>5, <2>6 DEF b
    <3>2. CASE x # s
      <4>1. PICK j \in DOMAIN global_env[Location(x)] :
              global_env[Location(x)][j].var = x
        BY <3>2, <1>2 DEF GInv, Placed, find_slot_in_env
      <4>2. Location(x) \in Buckets
        BY <1>2 DEF TableInv, Types, Symbols, Location
      <4>3. j \in DOMAIN global_env'[Location(x)]
        BY <4>1, <4>2, <2>4, <2>5 DEF old
      <4>4. CASE Location(x) = b /\ j = k
        BY <4>1, <4>4, <3>2, <2>1 DEF old
      <4>5. CASE Location(x) # b \/ j # k
        BY <4>1, <4>2, <4>3, <4>5, <2>7
      <4> QED BY <4>4, <4>5
    <3> QED BY <3>1, <3>2
  <2> QED BY <2>8, <2>9, <2>10 DEF GInv
<1>6. CASE find_slot_in_env(s) = {} /\ new_slot_in_env(s, v)
  <2>1. /\ new \in Seq([var : Symbols, val : Values])
        /\ Len(new) = Len(old) + 1 /\ Len(old) \in Nat /\ new[1] = Slot(s, v)
        /\ \A j \in 2..(Len(old) + 1) : new[j] = old[j - 1]
    <3> DEFINE R == [var : Symbols, val : Values]
    <3>1. Slot(s, v) \in R /\ old \in Seq(R)
      BY <1>1
    <3> HIDE DEF R
    <3>2. /\ new \in Seq(R) /\ Len(new) = Len(old) + 1 /\ new[1] = Slot(s, v)
          /\ \A j \in 2..(Len(old) + 1) : new[j] = old[j - 1]
      BY <3>1, Consed DEF new
    <3> QED BY <3>1, <3>2 DEF R
  <2>2. global_env'[b] = new /\ \A c \in Buckets : c # b => global_env'[c] = global_env[c]
    BY <1>1, <1>6 DEF new_slot_in_env, b, old, new
  <2>3. s \notin DOMAIN bound
    BY <1>6 DEF GInv, Placed
  <2>4. \A j \in DOMAIN new : j = 1 \/ (j - 1 \in DOMAIN old /\ new[j] = old[j - 1])
    BY <2>1, <1>1
  <2>5. \A j \in DOMAIN old : j + 1 \in DOMAIN new /\ new[j + 1] = old[j]
    BY <2>1, <1>1
  <2>6. ASSUME NEW c \in Buckets, NEW j \in DOMAIN global_env[c]
        PROVE  global_env[c][j].var \in DOMAIN bound \ {s}
    BY <2>3, <2>6 DEF GInv, SlotsTrue
  <2>7. 1 \in DOMAIN new /\ new[1].var = s /\ new[1].val = v
    BY <2>1, <1>4, <1>1
  <2>8. SlotsTrue'
    <3>1. global_env' \in [Buckets -> Seq([var : Symbols', val : Values])]
      <4>1. global_env' = [global_env EXCEPT ![b] = new]
        BY <1>6 DEF new_slot_in_env, b, old, new
      <4> QED BY <4>1, <1>0, <1>1, <2>1
    <3>2. ASSUME NEW c \in Buckets, NEW j \in DOMAIN global_env'[c]
          PROVE  /\ global_env'[c][j].var \in DOMAIN bound'
                 /\ global_env'[c][j].val = bound'[global_env'[c][j].var]
                 /\ hash_fn'[symname'[global_env'[c][j].var]] = c
      <4>1. CASE c = b /\ j = 1
        BY <4>1, <2>2, <2>7, <1>2, <1>0 DEF b, Location
      <4>2. CASE c = b /\ j # 1
        <5>1. j - 1 \in DOMAIN global_env[c] /\ global_env'[c][j] = global_env[c][j - 1]
          BY <4>2, <3>2, <2>2, <2>4 DEF old
        <5> QED BY <5>1, <2>6, <1>2, <1>0 DEF GInv, SlotsTrue
      <4>3. CASE c # b
        <5>1. j \in DOMAIN global_env[c] /\ global_env'[c][j] = global_env[c][j]
          BY <4>3, <3>2, <2>2
        <5> QED BY <5>1, <2>6, <1>2, <1>0 DEF GInv, SlotsTrue
      <4> QED BY <4>1, <4>2, <4>3
    <3> QED BY <3>1, <3>2, <1>0, <1>2 DEF SlotsTrue
  <2>9. OneSlot'
    <3> SUFFICES ASSUME NEW c \in Buckets, NEW i \in DOMAIN global_env'[c],
                        NEW j \in DOMAIN global_env'[c],
                        global_env'[c][i].var = global_env'[c][j].var
                 PROVE  i = j
      BY DEF OneSlot
    <3>1. CASE c # b
      BY <3>1, <2>2 DEF GInv, OneSlot
    <3>2. CASE c = b
      <4>1. i \in DOMAIN new /\ j \in DOMAIN new /\ new[i].var = new[j].var
        BY <3>2, <2>2
      <4>2. \A m \in DOMAIN new : m # 1 => new[m].var # s
        BY <2>4, <2>6, <1>1 DEF old
      <4>3. CASE i = 1 \/ j = 1
        BY <4>1, <4>2, <4>3, <2>7
      <4>4. CASE i # 1 /\ j # 1
        <5>1. i - 1 = j - 1
          BY <4>1, <4>4, <2>4, <1>1 DEF GInv, OneSlot, old
        <5> QED BY <5>1, <4>1, <2>1
      <4> QED BY <4>3, <4>4
    <3> QED BY <3>1, <3>2
  <2>10. Placed'
    <3> SUFFICES ASSUME NEW x \in DOMAIN bound'
                 PROVE  \E j \in DOMAIN global_env'[Location(x)] :
                          global_env'[Location(x)][j].var = x
      BY <1>3 DEF Placed, find_slot_in_env
    <3>1. CASE x = s
      BY <3>1, <2>2, <2>7 DEF b
    <3>2. CASE x # s
      <4>1. PICK j \in DOMAIN global_env[Location(x)] :
              global_env[Location(x)][j].var = x
        BY <3>2, <1>2 DEF GInv, Placed, find_slot_in_env
      <4>2. Location(x) \in Buckets
        BY <1>2 DEF TableInv, Types, Symbols, Location
      <4>3. CASE Location(x) = b
        BY <4>1, <4>3, <2>2, <2>5 DEF old
      <4>4. CASE Location(x) # b
        BY <4>1, <4>2, <4>4, <2>2
      <4> QED BY <4>3, <4>4
    <3> QED BY <3>1, <3>2
  <2> QED BY <2>8, <2>9, <2>10 DEF GInv
<1> QED BY <1>5, <1>6 DEF Define

LEMMA InitGInv == SymbolsInit => GInv
BY DEF SymbolsInit, GInv, SlotsTrue, OneSlot, Placed

(* mk_symbol adds at the end, if it adds.                                  *)
LEMMA KeepsNames ==
  ASSUME TableInv, NEW n, UNCHANGED table \/ oblist_add_by_name(n)
  PROVE  Symbols \subseteq Symbols' /\ \A s \in Symbols : symname'[s] = symname[s]
<1>1. symname \in Seq(Names) /\ Symbols = 1..Len(symname) /\ Len(symname) \in Nat
  BY DEF TableInv, Types, Symbols
<1>2. CASE UNCHANGED table
  BY <1>2 DEF table, Symbols
<1>3. CASE oblist_add_by_name(n)
  <2>1. symname' = Append(symname, n)
    BY <1>3 DEF oblist_add_by_name
  <2>2. Symbols' = 1..(Len(symname) + 1) /\ \A s \in 1..Len(symname) : symname'[s] = symname[s]
    BY <1>1, <2>1 DEF Symbols
  <2> QED BY <1>1, <2>2
<1> QED BY <1>2, <1>3

LEMMA StepGInv == TableInv /\ GInv /\ [SymbolsNext]_symbolsVars => GInv'
<1> SUFFICES ASSUME TableInv, GInv, [SymbolsNext]_symbolsVars PROVE GInv'
  OBVIOUS
<1>1. ASSUME NEW n \in Names, AssignSyntax(n) PROVE GInv'
  BY <1>1, KeepsNames, Keeping DEF AssignSyntax
<1>2. ASSUME NEW n \in Names, ReadName(n) PROVE GInv'
  BY <1>2, KeepsNames, Keeping DEF ReadName, mk_symbol
<1>3. ASSUME NEW n \in Names, StringToSymbol(n) PROVE GInv'
  BY <1>3, KeepsNames, Keeping DEF StringToSymbol, mk_symbol
<1>4. CASE Gensym
  BY <1>4, KeepsNames, Keeping DEF Gensym
<1>5. CASE Oblist
  BY <1>5, KeepsNames, Keeping DEF Oblist
<1>6. ASSUME NEW s \in Symbols, NEW v \in Values, Define(s, v) PROVE GInv'
  BY <1>6, Defining
<1>7. CASE UNCHANGED symbolsVars
  BY <1>7, KeepsNames, Keeping DEF symbolsVars
<1> QED BY <1>1, <1>2, <1>3, <1>4, <1>5, <1>6, <1>7 DEF SymbolsNext

(* A global variable has what it was last given, however the names fall    *)
(* into the buckets and whatever symbols are made in between: a slot is    *)
(* found in the bucket of its variable's own spelling, and is the only one.*)
THEOREM GlobalsKeepTheirValues == SymbolsSpec => []GlobalsHold
<1>1. SymbolsSpec => [](TableInv /\ GInv)
  BY InitTableInv, StepTableInv, InitGInv, StepGInv, PTL DEF SymbolsSpec
<1> QED BY <1>1, GInvHolds, PTL
=============================================================================
