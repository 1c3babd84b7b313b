----------------------------- MODULE PortsProofs -----------------------------
(***************************************************************************)
(* For every value of the bounds: no file is closed twice (ClosedOnce), a  *)
(* file without a port has been closed (OpenHasPort), and the ports in use *)
(* are not swept (InUseKept).  The three are inductive together with       *)
(* Counted: a port_rep whose file was closed has no direction left, and    *)
(* one whose file is open has one.  What is current is open (CurrentOpen)  *)
(* by Usable: the ports that waiting calls make current again are open,    *)
(* and no call closes one of another, or one that was current before it.   *)
(***************************************************************************)
EXTENDS Ports, SequenceTheorems, TLAPS

Directions == {"input", "output"}
PortCells == [at : {"port", "free"}, kind : SUBSET Directions, closeit : BOOLEAN]
Calls == [op : {"with", "callwith", "read", "write", "restore"},
          dir : Directions, port : Nat, prev : Nat]

Live == {p \in DOMAIN cells : cells[p].at = "port"}
Holds(fs, S) == \A n \in DOMAIN fs : fs[n].port \in S /\ fs[n].prev \in S

Counted(c, n) ==
  /\ n \in {0, 1}
  /\ n = 1 => c.kind = {}
  /\ c.closeit /\ n = 0 => c.kind # {} /\ c.at = "port"

Cells ==
  /\ cells \in Seq(PortCells) /\ closes \in Seq(Nat)
  /\ Len(cells) >= 2 /\ Len(closes) = Len(cells)
  /\ ~cells[Console].closeit /\ ~cells[loadport].closeit
  /\ \A p \in 1..Len(cells) : Counted(cells[p], closes[p])

Waits ==
  /\ frames \in Seq(Calls) /\ conts \in SUBSET Seq(Calls)
  /\ pc \in {"run", "read", "ended"}

Kept ==
  pc # "ended" =>
    /\ {inport, outport, save_inport, loadport} \subseteq Live
    /\ held \subseteq Live
    /\ Holds(frames, Live)
    /\ \A k \in conts : Holds(k, Live)

Left ==
  pc = "ended" => \A p \in 1..Len(cells) :
                    cells[p].closeit /\ closes[p] = 0 => p \in {inport, save_inport}

IInv == Cells /\ Waits /\ Kept /\ Left
-----------------------------------------------------------------------------
(* What the ports of calls are                                             *)
LEMMA PortsWithin ==
  ASSUME NEW fs \in Seq(Calls), NEW S, Holds(fs, S)
  PROVE  PortsOf(fs) \subseteq S
BY DEF PortsOf, Holds

LEMMA HoldsMore ==
  ASSUME NEW fs \in Seq(Calls), NEW S, Holds(fs, S), NEW T, S \subseteq T
  PROVE  Holds(fs, T)
BY DEF Holds

LEMMA HoldsAppend ==
  ASSUME NEW fs \in Seq(Calls), NEW S, Holds(fs, S), NEW f \in Calls,
         f.port \in S, f.prev \in S
  PROVE  /\ Append(fs, f) \in Seq(Calls)
         /\ Holds(Append(fs, f), S)
BY DEF Holds

LEMMA HoldsFront ==
  ASSUME NEW fs \in Seq(Calls), NEW S, Holds(fs, S), fs # <<>>
  PROVE  /\ Front(fs) \in Seq(Calls) /\ Holds(Front(fs), S)
         /\ Last(fs) \in Calls /\ Last(fs).port \in S /\ Last(fs).prev \in S
<1> DEFINE n == Len(fs) - 1
<1>1. n \in Nat /\ n < Len(fs) /\ Len(fs) \in DOMAIN fs
  OBVIOUS
<1>2. SubSeq(fs, 1, n) \in Seq(Calls)
  BY <1>1
<1>3. Len(SubSeq(fs, 1, n)) = n /\ \A i \in 1..n : SubSeq(fs, 1, n)[i] = fs[i]
  <2>1. \A i \in 1..n : fs[i] \in Calls BY <1>1
  <2> HIDE DEF n
  <2> QED BY <1>1, <2>1, SubSeqProperties
<1>4. Holds(SubSeq(fs, 1, n), S)
  BY <1>1, <1>2, <1>3 DEF Holds
<1> QED BY <1>1, <1>2, <1>4 DEF Front, Last, Holds

(* port_close keeps the count: fclose with the last direction only.        *)
LEMMA CloseCounts ==
  ASSUME NEW c \in PortCells, NEW n, Counted(c, n), NEW flag \in SUBSET Directions
  PROVE  /\ Closed(c, flag) \in PortCells
         /\ n + Fcloses(c, flag) \in Nat
         /\ Counted(Closed(c, flag), n + Fcloses(c, flag))
         /\ Closed(c, flag).at = c.at /\ Closed(c, flag).closeit = c.closeit
<1>1. Closed(c, flag) = [at |-> c.at, kind |-> c.kind \ flag, closeit |-> c.closeit]
  BY DEF Closed, PortCells
<1>2. n \in {0, 1} /\ Fcloses(c, flag) \in {0, 1}
  BY DEF Counted, Fcloses
<1>3. Fcloses(c, flag) = 1 => n = 0 /\ c.kind \ flag = {}
  BY <1>2 DEF Fcloses, Counted
<1>4. Fcloses(c, flag) = 0 /\ c.kind # {} => c.kind \ flag # {}
  BY DEF Fcloses
<1>5. n + Fcloses(c, flag) \in {0, 1}
  BY <1>2, <1>3
<1>6. n + Fcloses(c, flag) = 1 => c.kind \ flag = {}
  BY <1>2, <1>3 DEF Counted
<1>7. c.closeit /\ n + Fcloses(c, flag) = 0 => c.kind \ flag # {} /\ c.at = "port"
  BY <1>2, <1>4 DEF Counted
<1> QED BY <1>1, <1>5, <1>6, <1>7 DEF Counted, PortCells

(* So does finalize_cell.                                                  *)
LEMMA SweepCounts ==
  ASSUME NEW c \in PortCells, NEW n, Counted(c, n)
  PROVE  /\ Finalized(c) \in PortCells
         /\ n + FinalFclose(c) \in Nat
         /\ Counted(Finalized(c), n + FinalFclose(c))
         /\ Finalized(c).closeit = c.closeit
<1> DEFINE d == Closed(c, {"input", "output"})
<1>1. /\ d \in PortCells /\ Counted(d, n + Fcloses(c, {"input", "output"}))
      /\ d.closeit = c.closeit /\ n + Fcloses(c, {"input", "output"}) \in Nat
  BY CloseCounts DEF Directions
<1>2. d.kind = {}
  BY DEF Closed, PortCells, Directions
<1>3. Finalized(c) = [at |-> "free", kind |-> {}, closeit |-> c.closeit]
  <2> HIDE DEF d
  <2>1. Finalized(c) = [d EXCEPT !.at = "free"] BY DEF Finalized, d
  <2> QED BY <1>1, <1>2, <2>1 DEF PortCells
<1>4. c.closeit => n + FinalFclose(c) = 1
  BY <1>1, <1>2 DEF FinalFclose, Counted
<1>5. ~c.closeit => n + FinalFclose(c) = n /\ n \in {0, 1}
  BY DEF FinalFclose, Counted
<1>6. c.closeit \in BOOLEAN BY DEF PortCells
<1> QED BY <1>3, <1>4, <1>5, <1>6 DEF Counted, PortCells
-----------------------------------------------------------------------------
(* How the steps change the cells                                          *)

(* Ports are added.                                                        *)
LEMMA AddKeeps ==
  ASSUME Cells, NEW cs \in Seq(PortCells), NEW ns \in Seq(Nat),
         Len(cs) = Len(ns), \A p \in 1..Len(cs) : Counted(cs[p], ns[p]),
         cells' = cells \o cs, closes' = closes \o ns
  PROVE  /\ Cells' /\ Live \subseteq Live' /\ Len(cells') = Len(cells) + Len(cs)
         /\ \A p \in 1..Len(cs) :
              cs[p].at = "port" => Len(cells) + p \in Live'
<1> DEFINE m == Len(cells)
           k == Len(cs)
<1>0. /\ cells \in Seq(PortCells) /\ closes \in Seq(Nat)
      /\ m \in Nat /\ k \in Nat /\ Len(closes) = m /\ Len(ns) = k
  BY DEF Cells
<1>1. /\ cells' \in Seq(PortCells) /\ closes' \in Seq(Nat)
      /\ Len(cells') = m + k /\ Len(closes') = m + k
      /\ \A i \in 1..(m + k) :
           /\ cells'[i] = IF i <= m THEN cells[i] ELSE cs[i - m]
           /\ closes'[i] = IF i <= m THEN closes[i] ELSE ns[i - m]
  <2>1. /\ cells \o cs \in Seq(PortCells) /\ Len(cells \o cs) = m + k
        /\ \A i \in 1..(m + k) :
             (cells \o cs)[i] = IF i <= m THEN cells[i] ELSE cs[i - m]
    <3> HIDE DEF m, k
    <3>1. \A x, y \in Seq(PortCells) :
            /\ x \o y \in Seq(PortCells) /\ Len(x \o y) = Len(x) + Len(y)
            /\ \A i \in 1..(Len(x) + Len(y)) :
                 (x \o y)[i] = IF i <= Len(x) THEN x[i] ELSE y[i - Len(x)]
      BY ConcatProperties, Zenon
    <3> QED BY <1>0, <3>1, Zenon DEF m, k
  <2>2. /\ closes \o ns \in Seq(Nat) /\ Len(closes \o ns) = m + k
        /\ \A i \in 1..(m + k) :
             (closes \o ns)[i] = IF i <= m THEN closes[i] ELSE ns[i - m]
    <3>1. \A x, y \in Seq(Nat) :
            /\ x \o y \in Seq(Nat) /\ Len(x \o y) = Len(x) + Len(y)
            /\ \A i \in 1..(Len(x) + Len(y)) :
                 (x \o y)[i] = IF i <= Len(x) THEN x[i] ELSE y[i - Len(x)]
      BY ConcatProperties, Zenon
    <3>2. \A i \in 1..(Len(closes) + Len(ns)) :
            (closes \o ns)[i] = IF i <= Len(closes) THEN closes[i]
                                ELSE ns[i - Len(closes)]
      BY <1>0, <3>1, Zenon
    <3>3. closes \o ns \in Seq(Nat) /\ Len(closes \o ns) = Len(closes) + Len(ns)
      BY <1>0, <3>1, Zenon
    <3>4. Len(closes) = m /\ Len(ns) = k BY <1>0
    <3> HIDE DEF m, k
    <3> QED BY <3>2, <3>3, <3>4
  <2> QED BY <2>1, <2>2, Zenon
<1>2. \A p \in 1..Len(cells) : cells'[p] = cells[p] /\ closes'[p] = closes[p]
  BY <1>0, <1>1
<1>3. \A p \in 1..Len(cs) : /\ cells'[Len(cells) + p] = cs[p]
                            /\ closes'[Len(cells) + p] = ns[p]
  <2> SUFFICES ASSUME NEW p \in 1..k
               PROVE  cells'[m + p] = cs[p] /\ closes'[m + p] = ns[p]
    OBVIOUS
  <2> HIDE DEF m, k
  <2>1. m + p \in 1..(m + k) /\ ~(m + p <= m) /\ (m + p) - m = p
    BY <1>0
  <2> QED BY <1>1, <2>1
<1>4. \A q \in 1..Len(cells') : q \in 1..Len(cells) \/ q - Len(cells) \in 1..Len(cs)
  BY <1>1 DEF Cells
<1>5. \A q \in 1..Len(cells') : Counted(cells'[q], closes'[q])
  <2> SUFFICES ASSUME NEW q \in 1..Len(cells')
               PROVE  Counted(cells'[q], closes'[q])
    OBVIOUS
  <2>1. CASE q \in 1..Len(cells) BY <2>1, <1>2 DEF Cells
  <2>2. CASE q - Len(cells) \in 1..Len(cs)
    <3>1. q = Len(cells) + (q - Len(cells)) BY <1>1 DEF Cells
    <3> QED BY <2>2, <3>1, <1>3
  <2> QED BY <2>1, <2>2, <1>4
<1>6. Cells'
  BY <1>1, <1>2, <1>5 DEF Cells, Console, loadport
<1>7. DOMAIN cells = 1..Len(cells) /\ DOMAIN cells' = 1..Len(cells')
  BY <1>1 DEF Cells
<1>8. Live \subseteq Live'
  BY <1>1, <1>2, <1>7 DEF Live, Cells
<1>9. \A p \in 1..Len(cs) : cs[p].at = "port" => Len(cells) + p \in Live'
  BY SMTT(30), <1>1, <1>3, <1>7 DEF Live, Cells
<1> QED BY <1>1, <1>6, <1>8, <1>9

LEMMA CloseKeeps ==
  ASSUME Cells, NEW q \in 1..Len(cells), NEW flag \in SUBSET Directions,
         PortClose(q, flag)
  PROVE  Cells' /\ Live' = Live
<1>1. /\ cells' = [cells EXCEPT ![q] = Closed(cells[q], flag)]
      /\ closes' = [closes EXCEPT ![q] = closes[q] + Fcloses(cells[q], flag)]
  BY DEF PortClose
<1>2. cells[q] \in PortCells /\ Counted(cells[q], closes[q])
  BY DEF Cells
<1>3. /\ Closed(cells[q], flag) \in PortCells
      /\ closes[q] + Fcloses(cells[q], flag) \in Nat
      /\ Counted(Closed(cells[q], flag), closes[q] + Fcloses(cells[q], flag))
      /\ Closed(cells[q], flag).at = cells[q].at
      /\ Closed(cells[q], flag).closeit = cells[q].closeit
  BY <1>2, CloseCounts
<1>4. /\ cells' \in Seq(PortCells) /\ closes' \in Seq(Nat)
      /\ Len(cells') = Len(cells) /\ Len(closes') = Len(closes)
  BY <1>1, <1>3 DEF Cells
<1>5. \A p \in 1..Len(cells) :
        /\ Counted(cells'[p], closes'[p])
        /\ cells'[p].at = cells[p].at /\ cells'[p].closeit = cells[p].closeit
  BY <1>1, <1>3 DEF Cells
<1>6. Cells'
  BY <1>4, <1>5 DEF Cells, Console, loadport
<1>7. Live' = Live
  BY <1>4, <1>5 DEF Live, Cells
<1> QED BY <1>6, <1>7

LEMMA SweepKeeps ==
  ASSUME Cells, NEW dead, Sweep(dead)
  PROVE  /\ Cells' /\ Live \ dead \subseteq Live'
         /\ \A p \in 1..Len(cells') :
              cells'[p].closeit /\ closes'[p] = 0 => p \in Live \ dead
<1> DEFINE c(p) == IF p \in dead THEN Finalized(cells[p]) ELSE cells[p]
           n(p) == closes[p] + IF p \in dead THEN FinalFclose(cells[p]) ELSE 0
<1>1. DOMAIN cells = 1..Len(cells) /\ Len(cells) \in Nat
  BY DEF Cells
<1>2. \A p \in 1..Len(cells) :
        /\ c(p) \in PortCells /\ n(p) \in Nat /\ Counted(c(p), n(p))
        /\ c(p).closeit = cells[p].closeit
  <2> SUFFICES ASSUME NEW p \in 1..Len(cells)
               PROVE  /\ c(p) \in PortCells /\ n(p) \in Nat /\ Counted(c(p), n(p))
                      /\ c(p).closeit = cells[p].closeit
    OBVIOUS
  <2>1. cells[p] \in PortCells /\ Counted(cells[p], closes[p]) /\ closes[p] \in Nat
    BY DEF Cells
  <2>2. CASE p \in dead BY <2>1, <2>2, SweepCounts
  <2>3. CASE p \notin dead BY <2>1, <2>3
  <2> QED BY <2>2, <2>3
<1>3. /\ cells' = [p \in 1..Len(cells) |-> c(p)]
      /\ closes' = [p \in 1..Len(cells) |-> n(p)]
  BY <1>1 DEF Sweep
<1> HIDE DEF c, n
<1>4. /\ cells' \in Seq(PortCells) /\ closes' \in Seq(Nat)
      /\ Len(cells') = Len(cells) /\ Len(closes') = Len(cells)
  BY <1>1, <1>2, <1>3
<1>5. \A p \in 1..Len(cells) : cells'[p] = c(p) /\ closes'[p] = n(p)
  BY <1>3
<1>6. Cells'
  BY <1>2, <1>4, <1>5 DEF Cells, Console, loadport
<1>7. \A p \in 1..Len(cells) : p \notin dead => cells'[p] = cells[p]
  BY <1>5 DEF c
<1>8. Live \ dead \subseteq Live'
  BY <1>1, <1>4, <1>7 DEF Live
<1>9. ASSUME NEW p \in 1..Len(cells'), cells'[p].closeit, closes'[p] = 0
      PROVE  p \in Live \ dead
  <2>1. Counted(cells'[p], closes'[p]) BY <1>6 DEF Cells
  <2>2. cells'[p].at = "port" BY <1>9, <2>1 DEF Counted
  <2>3. p \notin dead
    <3> SUFFICES ASSUME p \in dead PROVE FALSE OBVIOUS
    <3>1. cells'[p] = Finalized(cells[p]) BY <1>4, <1>5 DEF c
    <3>2. cells[p] \in PortCells BY <1>4 DEF Cells
    <3>3. Closed(cells[p], {"input", "output"}) \in PortCells
      BY <3>2 DEF Closed, PortCells, Directions
    <3>4. Finalized(cells[p]).at = "free" BY <3>3 DEF Finalized, PortCells
    <3> QED BY <2>2, <3>1, <3>4
  <2> QED BY <1>1, <1>4, <1>7, <2>2, <2>3 DEF Live
<1> QED BY <1>6, <1>8, <1>9
-----------------------------------------------------------------------------
(* The steps                                                               *)

(* What a step has to show that does not end the program.                  *)
LEMMA Goes ==
  ASSUME IInv, pc # "ended", pc' \in {"run", "read"}, Cells', Live \subseteq Live',
         {inport', outport', save_inport'} \subseteq Live', held' \subseteq Live',
         frames' \in Seq(Calls), Holds(frames', Live'),
         conts' \in {conts, conts \cup {frames}}
  PROVE  IInv'
<1>1. conts' \in SUBSET Seq(Calls)
  BY DEF IInv, Waits
<1>2. loadport \in Live'
  BY DEF IInv, Kept
<1>3. \A k \in conts \cup {frames} : Holds(k, Live')
  BY HoldsMore DEF IInv, Kept, Waits
<1> QED BY <1>1, <1>2, <1>3 DEF IInv, Waits, Kept, Left

(* What holds already                                                      *)
LEMMA Before ==
  ASSUME IInv, pc # "ended", Live \subseteq Live'
  PROVE  /\ {inport, outport, save_inport, loadport} \subseteq Live'
         /\ held \subseteq Live' /\ frames \in Seq(Calls) /\ Holds(frames, Live')
         /\ Live \subseteq 1..Len(cells) /\ Live \subseteq Nat
<1>1. Holds(frames, Live')
  BY HoldsMore DEF IInv, Kept, Waits
<1>2. DOMAIN cells = 1..Len(cells) /\ Len(cells) \in Nat
  BY DEF IInv, Cells
<1> QED BY <1>1, <1>2 DEF IInv, Kept, Waits, Live

LEMMA CellsKept ==
  ASSUME Cells, UNCHANGED <<cells, closes>>
  PROVE  Cells' /\ Live' = Live
BY DEF Cells, Live

LEMMA NoFrames ==
  ASSUME NEW S
  PROVE  <<>> \in Seq(Calls) /\ Holds(<<>>, S)
BY DEF Holds

(* One port is opened.                                                     *)
LEMMA OneMore ==
  ASSUME IInv, NEW dirs \in SUBSET Directions, dirs # {},
         cells' = Append(cells, Opened(dirs)), closes' = Append(closes, 0)
  PROVE  /\ Cells' /\ Live \subseteq Live'
         /\ Len(cells) + 1 \in Live' /\ Len(cells) + 1 \in Nat
<1> DEFINE c == Opened(dirs)
<1>1. c \in PortCells /\ c.at = "port" /\ Counted(c, 0)
  BY DEF Opened, PortCells, Counted
<1> HIDE DEF c
<1>2. <<c>> \in Seq(PortCells) /\ <<0>> \in Seq(Nat) /\ Len(<<c>>) = 1
      /\ Len(<<0>>) = 1 /\ <<c>>[1] = c /\ <<0>>[1] = 0
  BY <1>1
<1>3. cells' = cells \o <<c>> /\ closes' = closes \o <<0>>
  <2>1. cells \in Seq(PortCells) /\ closes \in Seq(Nat) BY DEF IInv, Cells
  <2>2. Append(cells, c) = cells \o <<c>> BY <1>1, <2>1, AppendIsConcat
  <2>3. Append(closes, 0) = closes \o <<0>> BY <2>1, AppendIsConcat
  <2> QED BY <2>2, <2>3 DEF c
<1>4. \A p \in 1..Len(<<c>>) : Counted(<<c>>[p], <<0>>[p])
  BY <1>1, <1>2
<1>5. Len(cells) + 1 \in Nat BY DEF IInv, Cells
<1> DEFINE cs == <<c>>
           ns == <<0>>
<1>6. /\ cs \in Seq(PortCells) /\ ns \in Seq(Nat) /\ Len(cs) = 1 /\ Len(ns) = 1
      /\ cs[1].at = "port" /\ \A p \in 1..Len(cs) : Counted(cs[p], ns[p])
      /\ cells' = cells \o cs /\ closes' = closes \o ns
  BY <1>1, <1>2, <1>3, <1>4
<1> HIDE DEF cs, ns
<1>7. Cells BY DEF IInv
<1>8. /\ Cells' /\ Live \subseteq Live'
      /\ \A p \in 1..Len(cs) : cs[p].at = "port" => Len(cells) + p \in Live'
  <2>1. Len(cs) = Len(ns) BY <1>6
  <2> QED BY <1>6, <1>7, <2>1, AddKeeps, Zenon
<1>9. 1 \in 1..Len(cs) BY <1>6
<1> QED BY <1>5, <1>6, <1>8, <1>9

LEMMA OpenKeeps ==
  ASSUME IInv, NEW dirs \in Dirs, Open(dirs)
  PROVE  IInv'
<1>1. dirs \in SUBSET Directions /\ dirs # {}
  BY DEF Dirs, Directions
<1>2. /\ pc = "run" /\ pc' = "run"
      /\ cells' = Append(cells, Opened(dirs)) /\ closes' = Append(closes, 0)
      /\ held' = held \cup {Len(cells) + 1}
      /\ UNCHANGED <<inport, outport, save_inport, frames, conts>>
  BY DEF Open, Running, current
<1>3. Cells' /\ Live \subseteq Live' /\ Len(cells) + 1 \in Live'
  BY <1>1, <1>2, OneMore
<1> QED BY <1>2, <1>3, Before, Goes

LEMMA ProgramKeeps ==
  ASSUME IInv, Hold \/ (\E p \in held : Drop(p))
  PROVE  IInv'
<1>1. /\ pc = "run" /\ pc' = "run" /\ held' \subseteq held \cup {inport, outport}
      /\ UNCHANGED <<cells, closes, inport, outport, save_inport, frames, conts>>
  BY DEF Hold, Drop, Running, current
<1>2. Cells' /\ Live' = Live BY <1>1, CellsKept DEF IInv
<1> QED BY <1>1, <1>2, Before, Goes

LEMMA CloseStep ==
  ASSUME IInv, NEW p \in held, NEW flag \in Dirs, Close(p, flag)
  PROVE  IInv'
<1>1. /\ pc = "run" /\ pc' = "run" /\ PortClose(p, flag)
      /\ UNCHANGED <<inport, outport, save_inport, held, frames, conts>>
  BY DEF Close, Running, current, program
<1>2. p \in 1..Len(cells) /\ flag \in SUBSET Directions
  BY <1>1 DEF IInv, Kept, Live, Cells, Dirs, Directions
<1>3. Cells' /\ Live' = Live BY <1>1, <1>2, CloseKeeps DEF IInv
<1> QED BY <1>1, <1>3, Before, Goes

LEMMA MakeCurrentKeeps ==
  ASSUME IInv, NEW p \in held, NEW dir \in {"input", "output"}, MakeCurrent(p, dir)
  PROVE  IInv'
<1>1. /\ pc = "run" /\ pc' = "run" /\ SetPort(dir, p)
      /\ UNCHANGED <<cells, closes, save_inport, held, frames, conts>>
  BY DEF MakeCurrent, Running, program
<1>2. Cells' /\ Live' = Live BY <1>1, CellsKept DEF IInv
<1>3. {inport', outport'} \subseteq {inport, outport, p}
  BY <1>1 DEF SetPort
<1> QED BY <1>1, <1>2, <1>3, Before, Goes

LEMMA UsePortKeeps ==
  ASSUME IInv, NEW p \in held, NEW o \in {"read", "write"},
         NEW dir \in {"input", "output"}, UsePort(o, dir, p)
  PROVE  IInv'
<1> DEFINE f == Frame(o, dir, Current(dir), Current(dir))
<1>1. /\ pc = "run" /\ pc' = "run" /\ SetPort(dir, p) /\ frames' = Append(frames, f)
      /\ UNCHANGED <<cells, closes, save_inport, held, conts>>
  BY DEF UsePort, Running, program
<1>2. Cells' /\ Live' = Live BY <1>1, CellsKept DEF IInv
<1>3. {inport', outport'} \subseteq {inport, outport, p}
  BY <1>1 DEF SetPort
<1>4. Current(dir) \in Live /\ Current(dir) \in Nat
  BY <1>1, <1>2, Before DEF Current
<1>5. f \in Calls /\ f.port \in Live' /\ f.prev \in Live'
  BY <1>2, <1>4 DEF Frame, Calls, Directions
<1> HIDE DEF f
<1>6. frames' \in Seq(Calls) /\ Holds(frames', Live')
  BY <1>1, <1>2, <1>5, Before, HoldsAppend
<1> QED BY <1>1, <1>2, <1>3, <1>6, Before, Goes

LEMMA WithKeeps ==
  ASSUME IInv, NEW dir \in {"input", "output"}, With(dir) \/ CallWith(dir)
  PROVE  IInv'
<1> DEFINE p == Len(cells) + 1
           f == IF With(dir) THEN Frame("with", dir, p, Current(dir))
                ELSE Frame("callwith", dir, p, p)
<1>1. /\ pc = "run" /\ pc' = "run" /\ frames' = Append(frames, f)
      /\ cells' = Append(cells, Opened({dir})) /\ closes' = Append(closes, 0)
      /\ held' \in {held, held \cup {p}}
      /\ UNCHANGED <<save_inport, conts>>
  BY DEF With, CallWith, Running, program, current
<1>2. {inport', outport'} \subseteq {inport, outport, p}
  BY DEF With, CallWith, SetPort, current
<1>3. Cells' /\ Live \subseteq Live' /\ p \in Live' /\ p \in Nat
  <2>1. {dir} \in SUBSET Directions /\ {dir} # {} BY DEF Directions
  <2> QED BY <1>1, <2>1, OneMore
<1>4. Current(dir) \in Live' /\ Current(dir) \in Nat
  <2>1. {inport, outport} \subseteq Live' /\ {inport, outport} \subseteq Nat
    BY <1>1, <1>3, Before DEF IInv, Kept
  <2> QED BY <2>1 DEF Current
<1>5. f \in Calls /\ f.port \in Live' /\ f.prev \in Live'
  BY <1>3, <1>4 DEF Frame, Calls, Directions
<1> HIDE DEF f
<1>6. frames' \in Seq(Calls) /\ Holds(frames', Live')
  BY <1>1, <1>3, <1>5, Before, HoldsAppend
<1> QED BY <1>1, <1>2, <1>3, <1>6, Before, Goes

(* An error goes to the top level or to a continuation.                    *)
LEMMA FailsKeeps ==
  ASSUME IInv, pc = "run", Cells', Live \subseteq Live', NEW in \in Live', Fails(in),
         UNCHANGED <<outport, held, conts>>
  PROVE  IInv'
<1>1. /\ {inport, outport, save_inport, loadport} \subseteq Live' /\ held \subseteq Live'
  BY Before
<1>2. CASE TopLevel(in)
  BY <1>1, <1>2, NoFrames, Goes DEF TopLevel
<1>3. CASE \E k \in conts : Continue(k, in)
  <2>1. /\ pc' = "run" /\ frames' \in conts /\ inport' = in
        /\ UNCHANGED <<save_inport, outport>>
    BY <1>3 DEF Continue
  <2>2. frames' \in Seq(Calls) /\ Holds(frames', Live')
    BY <2>1, HoldsMore DEF IInv, Waits, Kept
  <2> QED BY <1>1, <2>1, <2>2, Goes
<1> QED BY <1>2, <1>3 DEF Fails

LEMMA WithBothKeeps ==
  ASSUME IInv, WithBoth
  PROVE  IInv'
<1> DEFINE c == Opened({"input"})
           p == Len(cells) + 1
<1>1. /\ pc = "run" /\ UNCHANGED <<outport, held, conts>>
      /\ Fails(p) \/ Fails(inport)
  BY DEF WithBoth, Running
<1>2. c \in PortCells /\ c.at = "port" /\ Counted(c, 0)
  BY DEF Opened, PortCells, Counted, Directions
<1>3. cells \in Seq(PortCells) /\ closes \in Seq(Nat) /\ Cells
  BY DEF IInv, Cells
<1>4. Cells' /\ Live \subseteq Live' /\ \E in \in Live' : Fails(in)
  <2>1. CASE /\ cells' = cells \o <<c, c>> /\ closes' = closes \o <<0, 0>>
             /\ Fails(p)
    <3> DEFINE cs == <<c, c>>
               ns == <<0, 0>>
    <3>1. /\ cs \in Seq(PortCells) /\ ns \in Seq(Nat) /\ Len(cs) = 2 /\ Len(ns) = 2
          /\ cs[1].at = "port" /\ \A i \in 1..Len(cs) : Counted(cs[i], ns[i])
          /\ cells' = cells \o cs /\ closes' = closes \o ns
      <4> HIDE DEF c
      <4> QED BY <1>2, <2>1
    <3> HIDE DEF cs, ns, c
    <3>2. Len(cs) = Len(ns) /\ 1 \in 1..Len(cs) BY <3>1
    <3>3. /\ Cells' /\ Live \subseteq Live'
          /\ \A i \in 1..Len(cs) : cs[i].at = "port" => Len(cells) + i \in Live'
      BY <1>3, <3>1, <3>2, AddKeeps, Zenon
    <3> QED BY <2>1, <3>1, <3>2, <3>3
  <2>2. CASE /\ cells' = Append(cells, Closed(c, {"input"}))
             /\ closes' = Append(closes, 1) /\ Fails(inport)
    <3> DEFINE d == Closed(c, {"input"})
               cs == <<d>>
               ns == <<1>>
    <3>1. d \in PortCells /\ d.at = "port" /\ d.kind = {} /\ Counted(d, 1)
      <4>1. d = [at |-> "port", kind |-> {}, closeit |-> TRUE]
        <5>1. {"input"} \ {"input"} = {} OBVIOUS
        <5>2. d = [c EXCEPT !.kind = {"input"} \ {"input"}] BY DEF Opened, Closed
        <5> QED BY <5>1, <5>2 DEF Opened
      <4> HIDE DEF d
      <4> QED BY <4>1 DEF PortCells, Counted
    <3>2. /\ cs \in Seq(PortCells) /\ ns \in Seq(Nat) /\ Len(cs) = 1 /\ Len(ns) = 1
          /\ \A i \in 1..Len(cs) : Counted(cs[i], ns[i])
      <4> HIDE DEF d
      <4> QED BY <3>1
    <3>3. cells' = cells \o cs /\ closes' = closes \o ns
      <4>1. Append(cells, d) = cells \o <<d>> BY <1>3, <3>1, AppendIsConcat
      <4>2. Append(closes, 1) = closes \o <<1>> BY <1>3, AppendIsConcat
      <4> QED BY <2>2, <4>1, <4>2
    <3> HIDE DEF cs, ns, d
    <3>4. Len(cs) = Len(ns) BY <3>2
    <3>5. Cells' /\ Live \subseteq Live'
      BY <1>3, <3>2, <3>3, <3>4, AddKeeps, Zenon
    <3> QED BY <1>1, <2>2, <3>5, Before
  <2>3. CASE /\ cells' = Append(cells, c) /\ closes' = Append(closes, 0)
             /\ Fails(inport)
    <3>1. {"input"} \in SUBSET Directions /\ {"input"} # {} BY DEF Directions
    <3>2. Cells' /\ Live \subseteq Live' BY <2>3, <3>1, OneMore
    <3> QED BY <1>1, <2>3, <3>2, Before
  <2> QED BY <2>1, <2>2, <2>3 DEF WithBoth
<1> QED BY <1>1, <1>4, FailsKeeps

LEMMA ReturnKeeps ==
  ASSUME IInv, Return
  PROVE  IInv'
<1> DEFINE f == Last(frames)
           g == [f EXCEPT !.op = "restore"]
<1>1. /\ pc = "run" /\ frames # <<>> /\ UNCHANGED <<held, conts>>
      /\ \/ /\ PortClose(f.port, {f.dir})
            /\ frames' \in {Front(frames), Append(Front(frames), g)}
            /\ UNCHANGED <<inport, outport, save_inport, pc>>
         \/ Fails(inport) /\ UNCHANGED <<cells, closes, outport>>
  BY DEF Return, Busy, current
<1>2. /\ f \in Calls /\ f.port \in Live /\ f.prev \in Live
      /\ Front(frames) \in Seq(Calls) /\ Holds(Front(frames), Live)
  BY <1>1, HoldsFront DEF IInv, Waits, Kept
<1>3. g \in Calls /\ g.port \in Live /\ g.prev \in Live
  BY <1>2 DEF Calls
<1> HIDE DEF f, g
<1>4. CASE PortClose(f.port, {f.dir}) /\ frames' \in {Front(frames), Append(Front(frames), g)}
           /\ UNCHANGED <<inport, outport, save_inport, pc>>
  <2>1. f.port \in 1..Len(cells)
    BY <1>2 DEF Live, IInv, Cells
  <2>2. {f.dir} \in SUBSET Directions
    BY <1>2 DEF Calls
  <2>3. Cells' /\ Live' = Live
    BY <1>4, <2>1, <2>2, CloseKeeps DEF IInv
  <2>4. frames' \in Seq(Calls) /\ Holds(frames', Live')
    BY <1>2, <1>3, <1>4, <2>3, HoldsAppend
  <2> QED BY <1>1, <1>4, <2>3, <2>4, Before, Goes
<1>5. CASE Fails(inport) /\ UNCHANGED <<cells, closes, outport>>
  <2>1. Cells' /\ Live' = Live BY <1>5, CellsKept DEF IInv
  <2>2. inport \in Live' BY <1>1, <2>1, Before
  <2> QED BY <1>1, <1>5, <2>1, <2>2, FailsKeeps
<1> QED BY <1>1, <1>4, <1>5

LEMMA SetFormerKeeps ==
  ASSUME IInv, SetFormer
  PROVE  IInv'
<1> DEFINE f == Last(frames)
<1>1. /\ pc = "run" /\ frames # <<>> /\ UNCHANGED <<cells, closes, held, conts>>
      /\ \/ /\ Restore(f) /\ frames' = Front(frames)
            /\ UNCHANGED <<save_inport, pc>>
         \/ Fails(inport) /\ UNCHANGED outport
  BY DEF SetFormer, Busy
<1>2. /\ f.prev \in Live
      /\ Front(frames) \in Seq(Calls) /\ Holds(Front(frames), Live)
  BY <1>1, HoldsFront DEF IInv, Waits, Kept
<1> HIDE DEF f
<1>3. Cells' /\ Live' = Live BY <1>1, CellsKept DEF IInv
<1>4. /\ {inport, outport, save_inport, loadport} \subseteq Live'
      /\ held \subseteq Live'
  BY <1>1, <1>3, Before
<1>5. CASE Fails(inport) /\ UNCHANGED outport
  BY <1>1, <1>3, <1>4, <1>5, FailsKeeps
<1>6. CASE /\ Restore(f) /\ frames' = Front(frames)
           /\ UNCHANGED <<save_inport, pc>>
  <2>1. {inport', outport'} \subseteq {inport, outport, f.prev}
    BY <1>6 DEF Restore, SetPort
  <2> QED BY <1>1, <1>2, <1>3, <1>4, <1>6, <2>1, Goes
<1> QED BY <1>1, <1>5, <1>6

(* An error, the next form, and what comes of reading it                   *)
LEMMA TopLevelKeeps ==
  ASSUME IInv, Error \/ NextForm \/ FormRead
  PROVE  IInv'
<1>1. /\ pc # "ended" /\ pc' \in {"run", "read"}
      /\ UNCHANGED <<cells, closes, outport, held, conts>>
      /\ {inport', save_inport'} \subseteq {inport, save_inport, loadport}
      /\ frames' \in {frames, <<>>}
  BY DEF Error, NextForm, FormRead, TopLevel, program
<1>2. Cells' /\ Live' = Live BY <1>1, CellsKept DEF IInv
<1>3. frames' \in Seq(Calls) /\ Holds(frames', Live')
  BY <1>1, <1>2, Before, NoFrames
<1> QED BY <1>1, <1>2, <1>3, Before, Goes

(* A continuation is made, or called.                                      *)
LEMMA ContinuationKeeps ==
  ASSUME IInv, CallCC \/ (\E k \in conts : Jump(k))
  PROVE  IInv'
<1>1. /\ pc = "run" /\ pc' = "run"
      /\ UNCHANGED <<cells, closes, inport, outport, save_inport, held>>
      /\ conts' \in {conts, conts \cup {frames}}
      /\ frames' = frames \/ frames' \in conts
  BY DEF CallCC, Jump, Continue, Running, current
<1>2. Cells' /\ Live' = Live BY <1>1, CellsKept DEF IInv
<1>3. frames' \in Seq(Calls) /\ Holds(frames', Live')
  BY <1>1, <1>2, Before DEF IInv, Waits, Kept
<1> QED BY <1>1, <1>2, <1>3, Before, Goes

(* The collector marks the ports of registers, variables, frames and       *)
(* continuations.                                                          *)
LEMMA GcKeeps ==
  ASSUME IInv, Gc
  PROVE  IInv'
<1> DEFINE marked == Roots \cup held \cup Waiting
           dead == {p \in DOMAIN cells : cells[p].at = "port"} \ marked
<1>1. /\ pc # "ended" /\ Sweep(dead)
      /\ UNCHANGED <<inport, outport, save_inport, held, frames, conts, pc>>
  BY DEF Gc, current, program
<1>2. Cells' /\ Live \ dead \subseteq Live'
  BY <1>1, SweepKeeps DEF IInv
<1>3. Live \cap marked \subseteq Live'
  BY <1>2
<1> HIDE DEF dead
<1>4. {inport, outport, save_inport, loadport} \subseteq Live' /\ held \subseteq Live'
  BY <1>1, <1>3 DEF IInv, Kept, Roots
<1>5. ASSUME NEW fs \in Seq(Calls), Holds(fs, Live), fs = frames \/ fs \in conts
      PROVE  Holds(fs, Live')
  <2>1. PortsOf(fs) \subseteq marked
    BY <1>5 DEF Waiting
  <2>2. Holds(fs, Live \cap marked)
    <3> HIDE DEF marked
    <3> QED BY <1>5, <2>1 DEF Holds, PortsOf
  <2> HIDE DEF marked
  <2> QED BY <1>3, <2>2, HoldsMore
<1>6. Holds(frames, Live') /\ \A k \in conts : Holds(k, Live')
  BY <1>1, <1>5 DEF IInv, Waits, Kept
<1>7. loadport' = loadport BY DEF loadport
<1> HIDE DEF marked
<1> QED BY <1>1, <1>2, <1>4, <1>6, <1>7 DEF IInv, Waits, Kept, Left

LEMMA DeinitKeeps ==
  ASSUME IInv, Deinit
  PROVE  IInv'
<1> DEFINE atoms == {inport, save_inport, loadport}
           dead == {p \in DOMAIN cells : cells[p].at = "port"} \ atoms
<1>1. /\ pc' = "ended" /\ Sweep(dead)
      /\ UNCHANGED <<inport, outport, save_inport, frames, conts>>
  BY DEF Deinit, current, program
<1>2. /\ Cells'
      /\ \A p \in 1..Len(cells') :
           cells'[p].closeit /\ closes'[p] = 0 => p \in Live \ dead
  BY <1>1, SweepKeeps DEF IInv
<1>3. Live \ dead \subseteq atoms
  BY DEF Live
<1>4. ~cells'[loadport].closeit
  BY <1>2 DEF Cells, loadport
<1> HIDE DEF dead
<1>5. Left'
  BY <1>1, <1>2, <1>3, <1>4 DEF Left
<1> QED BY <1>1, <1>2, <1>5 DEF IInv, Waits, Kept
-----------------------------------------------------------------------------
LEMMA InitIInv == Init => IInv
<1> SUFFICES ASSUME Init PROVE IInv
  OBVIOUS
<1> DEFINE a == [at |-> "port", kind |-> {"output"}, closeit |-> FALSE]
           b == [at |-> "port", kind |-> {"input"}, closeit |-> FALSE]
<1>1. a \in PortCells /\ b \in PortCells /\ Counted(a, 0) /\ Counted(b, 0)
  BY DEF PortCells, Directions, Counted
<1>2. /\ cells = <<a, b>> /\ closes = <<0, 0>> /\ inport = 2 /\ save_inport = 2
      /\ outport = 1 /\ held = {} /\ frames = <<>> /\ conts = {} /\ pc = "run"
  BY DEF Init, loadport, Console
<1>3. ~a.closeit /\ ~b.closeit /\ a.at = "port" /\ b.at = "port"
  OBVIOUS
<1> HIDE DEF a, b
<1>4. Cells
  BY <1>1, <1>2, <1>3 DEF Cells, Console, loadport
<1>5. 1 \in Live /\ 2 \in Live
  BY <1>2, <1>3 DEF Live
<1> QED BY <1>2, <1>4, <1>5, NoFrames DEF IInv, Waits, Kept, Left, loadport

LEMMA NextIInv == IInv /\ [Next]_vars => IInv'
<1> SUFFICES ASSUME IInv, [Next]_vars PROVE IInv'
  OBVIOUS
<1>1. ASSUME NEW dirs \in Dirs, Open(dirs) PROVE IInv'
  BY <1>1, OpenKeeps
<1>2. CASE Hold \/ \E p \in held : Drop(p)
  BY <1>2, ProgramKeeps
<1>3. ASSUME NEW p \in held, NEW flag \in Dirs, Close(p, flag) PROVE IInv'
  BY <1>3, CloseStep
<1>4. ASSUME NEW p \in held, NEW dir \in {"input", "output"}, MakeCurrent(p, dir)
      PROVE  IInv'
  BY <1>4, MakeCurrentKeeps
<1>5. ASSUME NEW p \in held, Use(p) PROVE IInv'
  BY <1>5, UsePortKeeps DEF Use
<1>6. ASSUME NEW dir \in {"input", "output"}, With(dir) \/ CallWith(dir)
      PROVE  IInv'
  BY <1>6, WithKeeps
<1>7. CASE WithBoth BY <1>7, WithBothKeeps
<1>8. CASE Return \/ SetFormer BY <1>8, ReturnKeeps, SetFormerKeeps
<1>9. CASE Error \/ NextForm \/ FormRead BY <1>9, TopLevelKeeps
<1>10. CASE CallCC \/ \E k \in conts : Jump(k) BY <1>10, ContinuationKeeps
<1>11. CASE Gc BY <1>11, GcKeeps
<1>12. CASE Deinit BY <1>12, DeinitKeeps
<1>13. CASE UNCHANGED vars
  <2>1. UNCHANGED <<cells, closes, inport, outport, save_inport, held, conts, frames, pc>>
    BY <1>13 DEF vars, current, program
  <2>2. Cells' /\ Live' = Live BY <2>1, CellsKept DEF IInv
  <2> QED BY <2>1, <2>2 DEF IInv, Waits, Kept, Left, loadport
<1> QED
  BY <1>1, <1>2, <1>3, <1>4, <1>5, <1>6, <1>7, <1>8, <1>9, <1>10, <1>11, <1>12,
     <1>13 DEF Next

LEMMA Invariance == Spec => []IInv
BY InitIInv, NextIInv, PTL DEF Spec

(* Whatever the program does with a file -- closes one direction of it,    *)
(* leaves a procedure of the library by a jump, forgets it -- port_close   *)
(* and finalize_cell together call fclose for it at most once.             *)
THEOREM FilesAreClosedOnce == Spec => []ClosedOnce
<1>1. IInv => ClosedOnce
  BY DEF IInv, Cells, Counted, ClosedOnce
<1> QED BY <1>1, Invariance, PTL

(* A file the program opened that was not closed has a port cell that was  *)
(* not swept; after scheme_deinit only what was the current input has one. *)
THEOREM OpenFilesHavePorts == Spec => []OpenHasPort
<1>1. IInv => OpenHasPort
  BY DEF IInv, Cells, Counted, Left, OpenHasPort
<1> QED BY <1>1, Invariance, PTL

(* The collector sweeps no port that is current, or that a waiting call, a *)
(* continuation or the top level will make current again.                  *)
THEOREM PortsInUseAreKept == Spec => []InUseKept
<1>1. IInv => InUseKept
  <2> SUFFICES ASSUME IInv, pc # "ended"
               PROVE  InUse \cup {save_inport, loadport} \subseteq Live
    BY DEF InUseKept, Live
  <2>1. PortsOf(frames) \subseteq Live /\ \A k \in conts : PortsOf(k) \subseteq Live
    BY PortsWithin DEF IInv, Waits, Kept
  <2> QED BY <2>1 DEF IInv, Kept, InUse, Waiting
<1> QED BY <1>1, Invariance, PTL

-----------------------------------------------------------------------------
(* What is current is open                                                 *)

(* The calls whose port the library closes, and those after which a port   *)
(* is current again.                                                       *)
Closing(f) == f.op \in {"with", "callwith"}
Restoring(f) == f.op # "callwith"

(* For each call that waits, the port to be current again is open, in the  *)
(* cells cs, and the one to be closed is of no other direction.            *)
Opens(fs, cs) ==
  \A n \in DOMAIN fs :
    /\ Closing(fs[n]) => cs[fs[n].port].kind \subseteq {fs[n].dir} /\ fs[n].port > loadport
    /\ Restoring(fs[n]) => fs[n].dir \in cs[fs[n].prev].kind

(* No port is closed for two calls, and none that an inner call has closed *)
(* is made current again by an outer one; nor is one that was lent.        *)
Apart(fs) ==
  \A n, m \in DOMAIN fs :
    /\ Closing(fs[n]) /\ Closing(fs[m]) /\ fs[n].port = fs[m].port => n = m
    /\ Restoring(fs[n]) /\ Closing(fs[m]) /\ fs[n].prev = fs[m].port
         => m < n /\ fs[m].op = "with"

(* The current port p is not lent, but while (read p) or (write x p) runs. *)
Unlent(fs, dir, p) ==
  p \in Lent(fs) => /\ fs # <<>> /\ Last(fs).op \in {"read", "write"}
                    /\ Last(fs).dir = dir

(* Between the two last calls of with-..., of a port of this direction     *)
Between(fs, dir) == fs # <<>> /\ Last(fs).op = "restore" /\ Last(fs).dir = dir

Usable ==
  /\ "input" \in cells[loadport].kind
  /\ Between(frames, "input") \/ "input" \in cells[inport].kind
  /\ Between(frames, "output") \/ "output" \in cells[outport].kind
  /\ pc = "read" => frames = <<>> /\ "input" \in cells[save_inport].kind
  /\ Opens(frames, cells) /\ Apart(frames)
  /\ Unlent(frames, "input", inport) /\ Unlent(frames, "output", outport)

OInv == pc # "ended" /\ careful => Usable

LEMMA NothingWaits ==
  ASSUME NEW cs, NEW dir, NEW p
  PROVE  Opens(<<>>, cs) /\ Apart(<<>>) /\ Unlent(<<>>, dir, p)
BY DEF Opens, Apart, Unlent, Lent

(* An outer part of the calls                                              *)
LEMMA PrefixKeeps ==
  ASSUME NEW fs \in Seq(Calls), NEW m \in 0..Len(fs), NEW k, k = SubSeq(fs, 1, m), NEW cs
  PROVE  /\ k \in Seq(Calls) /\ Len(k) = m /\ DOMAIN k = 1..m
         /\ \A i \in 1..m : k[i] = fs[i]
         /\ Opens(fs, cs) => Opens(k, cs)
         /\ Apart(fs) => Apart(k)
         /\ Lent(k) \subseteq Lent(fs)
<1>1. m \in Nat /\ m <= Len(fs) /\ Len(fs) \in Nat /\ DOMAIN fs = 1..Len(fs)
  OBVIOUS
<1>2. k \in Seq(Calls) /\ Len(k) = m /\ \A i \in 1..m : k[i] = fs[i]
  <2>1. \A i \in 1..m : fs[i] \in Calls BY <1>1
  <2> QED BY <1>1, <2>1, SubSeqProperties
<1>3. DOMAIN k = 1..m /\ \A i \in 1..m : i \in DOMAIN fs
  BY <1>1, <1>2
<1>4. Opens(fs, cs) => Opens(k, cs)
  BY <1>2, <1>3 DEF Opens
<1>5. Apart(fs) => Apart(k)
  <2> SUFFICES ASSUME Apart(fs), NEW a \in 1..m, NEW b \in 1..m
               PROVE  /\ Closing(k[a]) /\ Closing(k[b]) /\ k[a].port = k[b].port => a = b
                      /\ Restoring(k[a]) /\ Closing(k[b]) /\ k[a].prev = k[b].port
                           => b < a /\ k[b].op = "with"
    BY <1>3 DEF Apart
  <2>1. k[a] = fs[a] /\ k[b] = fs[b] /\ a \in DOMAIN fs /\ b \in DOMAIN fs
    BY <1>2, <1>3
  <2> QED BY <2>1 DEF Apart
<1>6. Lent(k) \subseteq Lent(fs)
  BY <1>2, <1>3 DEF Lent
<1> QED BY <1>2, <1>3, <1>4, <1>5, <1>6

(* One more call                                                           *)
LEMMA OneMoreCall ==
  ASSUME NEW fs \in Seq(Calls), NEW f \in Calls, NEW cs, Opens(fs, cs), Apart(fs),
         Closing(f) => cs[f.port].kind \subseteq {f.dir} /\ f.port > loadport,
         Restoring(f) => f.dir \in cs[f.prev].kind /\ f.prev \notin Lent(fs),
         Closing(f) => \A n \in DOMAIN fs : fs[n].port # f.port /\ fs[n].prev # f.port,
         f.op = "with" => f.prev # f.port
  PROVE  /\ Opens(Append(fs, f), cs) /\ Apart(Append(fs, f))
         /\ Lent(Append(fs, f)) = Lent(fs) \cup (IF f.op = "callwith" THEN {f.port} ELSE {})
         /\ Append(fs, f) # <<>> /\ Last(Append(fs, f)) = f
<1> DEFINE gs == Append(fs, f)
           z == Len(fs) + 1
<1>1. /\ gs \in Seq(Calls) /\ Len(gs) = z /\ z \in Nat /\ gs[z] = f
      /\ DOMAIN gs = 1..z /\ DOMAIN fs = 1..Len(fs) /\ Len(fs) \in Nat
      /\ \A i \in 1..Len(fs) : gs[i] = fs[i] /\ fs[i] \in Calls
  OBVIOUS
<1>2. \A i \in 1..z : (i \in 1..Len(fs) /\ i < z) \/ i = z
  BY <1>1
<1> HIDE DEF gs
<1>3. Opens(gs, cs)
  <2> SUFFICES ASSUME NEW n \in 1..z
               PROVE  /\ Closing(gs[n]) => cs[gs[n].port].kind \subseteq {gs[n].dir} /\ gs[n].port > loadport
                      /\ Restoring(gs[n]) => gs[n].dir \in cs[gs[n].prev].kind
    BY <1>1 DEF Opens
  <2> QED BY <1>1, <1>2 DEF Opens
<1>4. Apart(gs)
  <2> SUFFICES ASSUME NEW n \in 1..z, NEW m \in 1..z
               PROVE  /\ Closing(gs[n]) /\ Closing(gs[m]) /\ gs[n].port = gs[m].port => n = m
                      /\ Restoring(gs[n]) /\ Closing(gs[m]) /\ gs[n].prev = gs[m].port
                           => m < n /\ gs[m].op = "with"
    BY <1>1 DEF Apart
  <2>1. CASE n \in 1..Len(fs) /\ m \in 1..Len(fs)
    <3>1. gs[n] = fs[n] /\ gs[m] = fs[m]
      BY <1>1, <2>1
    <3> QED BY <1>1, <2>1, <3>1 DEF Apart
  <2>2. CASE n \in 1..Len(fs) /\ m = z
    BY <1>1, <2>2
  <2>3. CASE n = z /\ m \in 1..Len(fs)
    <3>1. Restoring(f) /\ fs[m].op = "callwith" => f.prev # fs[m].port
      BY <1>1, <2>3 DEF Lent
    <3>2. Closing(f) => fs[m].port # f.port
      BY <1>1, <2>3
    <3>3. gs[n] = f /\ gs[m] = fs[m] /\ m < n
      BY <1>1, <1>2, <2>3
    <3> QED BY <3>1, <3>2, <3>3 DEF Closing
  <2>4. CASE n = z /\ m = z
    BY <1>1, <2>4 DEF Closing, Restoring
  <2> QED BY <1>2, <2>1, <2>2, <2>3, <2>4
<1>5. Lent(gs) = Lent(fs) \cup (IF f.op = "callwith" THEN {f.port} ELSE {})
  BY <1>1, <1>2 DEF Lent
<1>6. gs # <<>> /\ Last(gs) = f
  BY <1>1 DEF Last
<1> QED BY <1>3, <1>4, <1>5, <1>6 DEF gs

(* The cells change, but not in what is to be closed and to be current.    *)
LEMMA OpensStill ==
  ASSUME NEW fs, NEW cs, NEW ds, Opens(fs, cs),
         \A n \in DOMAIN fs :
           /\ Closing(fs[n]) => ds[fs[n].port].kind \subseteq cs[fs[n].port].kind
           /\ Restoring(fs[n]) => ds[fs[n].prev].kind = cs[fs[n].prev].kind
  PROVE  Opens(fs, ds)
BY DEF Opens

(* A step that leaves what waits and what is current, and the ports S of   *)
(* which these are.                                                        *)
LEMMA StaysUsable ==
  ASSUME IInv, Usable, NEW S, {inport, outport, save_inport, loadport} \subseteq S,
         Holds(frames, S), \A p \in S : cells'[p].kind = cells[p].kind,
         UNCHANGED <<inport, outport, save_inport, frames, pc>>
  PROVE  Usable'
<1>1. Opens(frames', cells')
  <2>1. \A n \in DOMAIN frames : frames[n].port \in S /\ frames[n].prev \in S
    BY DEF Holds
  <2> QED BY <2>1, OpensStill DEF Usable
<1>2. loadport' = loadport
  BY DEF loadport
<1>3. /\ "input" \in cells'[loadport].kind
      /\ Between(frames', "input") \/ "input" \in cells'[inport'].kind
      /\ Between(frames', "output") \/ "output" \in cells'[outport'].kind
      /\ pc' = "read" => frames' = <<>> /\ "input" \in cells'[save_inport'].kind
  BY DEF Usable, Between
<1>4. Apart(frames') /\ Unlent(frames', "input", inport') /\ Unlent(frames', "output", outport')
  BY DEF Usable
<1> QED BY <1>1, <1>2, <1>3, <1>4 DEF Usable

LEMMA LiveHolds ==
  ASSUME IInv, pc # "ended"
  PROVE  /\ {inport, outport, save_inport, loadport} \subseteq Live /\ held \subseteq Live
         /\ Holds(frames, Live) /\ frames \in Seq(Calls) /\ DOMAIN frames = 1..Len(frames)
         /\ \A n \in DOMAIN frames : /\ frames[n] \in Calls /\ frames[n].port \in Live
                                     /\ frames[n].prev \in Live
         /\ Live \subseteq 1..Len(cells) /\ Len(cells) \in Nat
         /\ cells \in Seq(PortCells) /\ DOMAIN cells = 1..Len(cells)
<1>1. cells \in Seq(PortCells) /\ frames \in Seq(Calls)
  BY DEF IInv, Cells, Waits
<1>2. DOMAIN cells = 1..Len(cells) /\ Len(cells) \in Nat /\ DOMAIN frames = 1..Len(frames)
  BY <1>1
<1>3. Live \subseteq 1..Len(cells)
  BY <1>2 DEF Live
<1> QED BY <1>1, <1>2, <1>3 DEF IInv, Kept, Holds

LEMMA OpenedKinds ==
  ASSUME IInv, pc # "ended", NEW c, cells' = Append(cells, c)
  PROVE  /\ \A p \in 1..Len(cells) : cells'[p] = cells[p]
         /\ cells'[Len(cells) + 1] = c
         /\ Len(cells) + 1 \notin Live /\ Len(cells) + 1 > loadport
<1>1. cells \in Seq(PortCells) /\ Len(cells) \in Nat /\ Len(cells) >= 2 /\ Live \subseteq 1..Len(cells)
  BY LiveHolds DEF IInv, Cells
<1> QED BY <1>1 DEF loadport

LEMMA OpenStaysUsable ==
  ASSUME IInv, Usable, pc # "ended", NEW dirs, Open(dirs)
  PROVE  Usable'
<1>1. \A p \in Live : cells'[p].kind = cells[p].kind
  BY LiveHolds, OpenedKinds DEF Open
<1>2. UNCHANGED <<inport, outport, save_inport, frames, pc>>
  BY DEF Open, current
<1> QED BY <1>1, <1>2, LiveHolds, StaysUsable

LEMMA ProgramStaysUsable ==
  ASSUME IInv, Usable, pc # "ended", Hold \/ (\E p \in held : Drop(p)) \/ CallCC
  PROVE  Usable'
<1>1. UNCHANGED <<cells, inport, outport, save_inport, frames, pc>>
  BY DEF Hold, Drop, CallCC, current
<1> QED BY <1>1, LiveHolds, StaysUsable

LEMMA GcStaysUsable ==
  ASSUME IInv, Usable, Gc
  PROVE  Usable'
<1> DEFINE marked == Roots \cup held \cup Waiting
           S == Live \cap marked
<1>1. /\ pc # "ended" /\ UNCHANGED <<inport, outport, save_inport, frames, pc>>
      /\ cells' = [p \in DOMAIN cells |->
                     IF p \in {q \in DOMAIN cells : cells[q].at = "port"} \ marked
                     THEN Finalized(cells[p]) ELSE cells[p]]
  BY DEF Gc, current, Sweep
<1>2. \A p \in S : cells'[p].kind = cells[p].kind
  <2> HIDE DEF marked
  <2> QED BY <1>1 DEF Live
<1>3. {inport, outport, save_inport, loadport} \subseteq S
  BY <1>1, LiveHolds DEF Roots
<1>4. PortsOf(frames) \subseteq marked
  BY DEF Waiting
<1>5. Holds(frames, S)
  <2> HIDE DEF marked
  <2> QED BY <1>1, <1>4, LiveHolds DEF Holds, PortsOf
<1> HIDE DEF S
<1> QED BY <1>1, <1>2, <1>3, <1>5, StaysUsable

(* While the program runs, or a call of the library goes on, the current   *)
(* ports are open and not lent.                                            *)
LEMMA RunningUsable ==
  ASSUME Usable, pc = "run", ~Busy({"read", "write", "restore"})
  PROVE  /\ "input" \in cells[loadport].kind
         /\ "input" \in cells[inport].kind /\ "output" \in cells[outport].kind
         /\ inport \notin Lent(frames) /\ outport \notin Lent(frames)
BY DEF Usable, Unlent, Between, Busy

(* The program closes a port that is not current and will not be again.    *)
LEMMA CloseStaysUsable ==
  ASSUME IInv, Usable, NEW p \in held, NEW flag, Close(p, flag), careful'
  PROVE  Usable'
<1>1. /\ pc = "run" /\ ~Busy({"read", "write", "restore"})
      /\ p \notin {inport, outport, loadport} /\ p \notin Former(frames)
      /\ cells' = [cells EXCEPT ![p] = Closed(cells[p], flag)]
      /\ UNCHANGED <<inport, outport, save_inport, frames, pc>>
  BY DEF Close, Running, PortClose, current, program
<1>2. \A q \in 1..Len(cells) : q # p => cells'[q] = cells[q]
  BY <1>1, LiveHolds
<1>3. \A q \in 1..Len(cells) : cells'[q].kind \subseteq cells[q].kind
  <2>1. p \in 1..Len(cells) /\ cells[p] \in PortCells
    BY <1>1, LiveHolds
  <2>2. cells'[p] = Closed(cells[p], flag)
    BY <1>1, <2>1, LiveHolds
  <2>3. cells'[p].kind = cells[p].kind \ flag
    BY <2>1, <2>2 DEF Closed, PortCells
  <2> QED BY <1>2, <2>3
<1>4. ASSUME NEW n \in DOMAIN frames
      PROVE  /\ Closing(frames[n]) => cells'[frames[n].port].kind \subseteq cells[frames[n].port].kind
             /\ Restoring(frames[n]) => cells'[frames[n].prev].kind = cells[frames[n].prev].kind
  <2>1. frames[n].port \in 1..Len(cells) /\ frames[n].prev \in 1..Len(cells)
    BY <1>1, LiveHolds
  <2>2. Restoring(frames[n]) => frames[n].prev # p
    BY <1>1 DEF Restoring, Former
  <2> QED BY <1>2, <1>3, <2>1, <2>2
<1>5. Opens(frames', cells')
  BY <1>1, <1>4, OpensStill DEF Usable
<1>6. /\ cells'[loadport] = cells[loadport] /\ cells'[inport] = cells[inport]
      /\ cells'[outport] = cells[outport] /\ loadport' = loadport
  BY <1>1, <1>2, LiveHolds DEF loadport
<1> QED BY <1>1, <1>5, <1>6, RunningUsable DEF Usable

(* It makes a port current that was not lent.                              *)
LEMMA MakeCurrentStaysUsable ==
  ASSUME IInv, Usable, NEW p \in held, NEW dir \in Directions, MakeCurrent(p, dir), careful'
  PROVE  Usable'
<1>1. /\ pc = "run" /\ ~Busy({"read", "write", "restore"})
      /\ dir \in cells[p].kind /\ SetPort(dir, p) /\ p \notin Lent(frames)
      /\ UNCHANGED <<cells, frames, pc>>
  BY DEF MakeCurrent, Running, Is, program
<1>3. Unlent(frames, "input", p) /\ Unlent(frames, "output", p)
  BY <1>1 DEF Unlent
<1>4. loadport' = loadport
  BY DEF loadport
<1>5. CASE dir = "input"
  <2>1. inport' = p /\ outport' = outport
    BY <1>1, <1>5 DEF SetPort
  <2> QED BY <1>1, <1>3, <1>4, <1>5, <2>1, RunningUsable DEF Usable
<1>6. CASE dir = "output"
  <2>1. outport' = p /\ inport' = inport
    BY <1>1, <1>6 DEF SetPort
  <2> QED BY <1>1, <1>3, <1>4, <1>6, <2>1, RunningUsable DEF Usable
<1> QED BY <1>5, <1>6 DEF Directions

LEMMA LibraryStaysUsable ==
  ASSUME IInv, Usable, NEW dir \in Directions, With(dir) \/ CallWith(dir)
  PROVE  Usable'
<1> SUFFICES ASSUME NEW p, p = Len(cells) + 1,
                    NEW f, f = IF With(dir) THEN Frame("with", dir, p, Current(dir))
                               ELSE Frame("callwith", dir, p, p)
             PROVE  Usable'
  OBVIOUS
<1>1. /\ pc = "run" /\ pc' = "run" /\ ~Busy({"read", "write", "restore"})
      /\ cells' = Append(cells, Opened({dir})) /\ frames' = Append(frames, f)
      /\ IF f.op = "with" THEN SetPort(dir, p) ELSE UNCHANGED <<inport, outport>>
  BY DEF With, CallWith, Running, program, current, Frame
<1>2. /\ \A q \in Live : cells'[q] = cells[q]
      /\ cells'[p].kind = {dir} /\ p \notin Live /\ p > loadport /\ p \in Nat
  BY <1>1, LiveHolds, OpenedKinds DEF Opened
<1>3. /\ f.op \in {"with", "callwith"} /\ f.dir = dir /\ f.port = p
      /\ f.op = "with" => f.prev = Current(dir)
  BY DEF Frame
<1>4. Current(dir) \in Live /\ dir \in cells[Current(dir)].kind /\ Current(dir) \notin Lent(frames)
  BY <1>1, LiveHolds, RunningUsable DEF Current, Directions
<1>5. f \in Calls
  BY <1>2, <1>4, LiveHolds, <1>1 DEF Frame, Calls
<1>6. Opens(frames, cells')
  BY ZenonT(60), <1>1, <1>2, LiveHolds, OpensStill DEF Usable
<1>7. /\ Opens(frames', cells') /\ Apart(frames')
      /\ Lent(frames') = Lent(frames) \cup (IF f.op = "callwith" THEN {p} ELSE {})
  <2>1. /\ Closing(f) => cells'[f.port].kind \subseteq {f.dir} /\ f.port > loadport
        /\ Restoring(f) => f.dir \in cells'[f.prev].kind /\ f.prev \notin Lent(frames)
        /\ f.op = "with" => f.prev # f.port
    BY <1>2, <1>3, <1>4 DEF Restoring
  <2>2. Closing(f) => \A n \in DOMAIN frames : frames[n].port # f.port /\ frames[n].prev # f.port
    BY <1>1, <1>2, <1>3, LiveHolds
  <2>3. frames \in Seq(Calls) /\ Apart(frames)
    BY <1>1, LiveHolds DEF Usable
  <2>4. /\ Opens(Append(frames, f), cells') /\ Apart(Append(frames, f))
        /\ Lent(Append(frames, f))
             = Lent(frames) \cup (IF f.op = "callwith" THEN {f.port} ELSE {})
    BY <1>5, <1>6, <2>1, <2>2, <2>3, OneMoreCall, Zenon
  <2> QED BY <1>1, <1>3, <2>4
<1>8. loadport' = loadport
  BY DEF loadport
<1>9. /\ "input" \in cells'[loadport].kind /\ "input" \in cells'[inport].kind
      /\ "output" \in cells'[outport].kind
      /\ loadport # p /\ inport # p /\ outport # p
  BY <1>1, <1>2, LiveHolds, RunningUsable
<1>10. inport \notin Lent(frames) /\ outport \notin Lent(frames) /\ p \notin Lent(frames)
  <2>1. p \notin Lent(frames)
    BY <1>1, <1>2, LiveHolds DEF Lent
  <2> QED BY <1>1, <2>1, RunningUsable
<1>11. CASE f.op = "callwith"
  <2>1. inport' = inport /\ outport' = outport
    BY <1>1, <1>11
  <2>2. inport \notin Lent(frames') /\ outport \notin Lent(frames')
    BY <1>7, <1>9, <1>10
  <2> QED BY <1>1, <1>7, <1>8, <1>9, <2>1, <2>2 DEF Usable, Unlent
<1>12. CASE f.op = "with"
  <2>1. Lent(frames') = Lent(frames)
    BY <1>7, <1>12
  <2>2. \/ dir = "input" /\ inport' = p /\ outport' = outport
        \/ dir = "output" /\ outport' = p /\ inport' = inport
    BY <1>1, <1>12 DEF SetPort, Directions
  <2>3. "input" \in cells'[inport'].kind /\ "output" \in cells'[outport'].kind
    BY <1>2, <1>9, <2>2
  <2>4. inport' \notin Lent(frames') /\ outport' \notin Lent(frames')
    BY <1>10, <2>1, <2>2
  <2> QED BY <1>1, <1>7, <1>8, <1>9, <2>3, <2>4 DEF Usable, Unlent
<1> QED BY <1>3, <1>11, <1>12

LEMMA UseStaysUsable ==
  ASSUME IInv, Usable, NEW o \in {"read", "write"}, NEW dir \in Directions,
         NEW p \in held, UsePort(o, dir, p)
  PROVE  Usable'
<1> SUFFICES ASSUME NEW f, f = Frame(o, dir, Current(dir), Current(dir)) PROVE Usable'
  OBVIOUS
<1>1. /\ pc = "run" /\ pc' = "run" /\ ~Busy({"read", "write", "restore"}) /\ UNCHANGED cells
      /\ dir \in cells[p].kind /\ SetPort(dir, p) /\ frames' = Append(frames, f)
  BY DEF UsePort, Running, Is, program
<1>2. f.op = o /\ f.dir = dir /\ f.prev = Current(dir) /\ f.port = Current(dir)
  BY DEF Frame
<1>3. Current(dir) \in Live /\ dir \in cells[Current(dir)].kind /\ Current(dir) \notin Lent(frames)
  BY <1>1, LiveHolds, RunningUsable DEF Current, Directions
<1>4. f \in Calls
  <2>1. Current(dir) \in Nat
    BY <1>1, <1>3, LiveHolds
  <2> QED BY <2>1 DEF Frame, Calls
<1>5. /\ Opens(frames', cells') /\ Apart(frames') /\ Lent(frames') = Lent(frames)
      /\ frames' # <<>> /\ Last(frames') = f
  <2>1. ~Closing(f) /\ f.op # "with" /\ f.op # "callwith"
    BY <1>2 DEF Closing
  <2>2. f.dir \in cells[f.prev].kind /\ f.prev \notin Lent(frames)
    BY <1>2, <1>3
  <2>3. frames \in Seq(Calls) /\ Apart(frames) /\ Opens(frames, cells)
    BY <1>1, LiveHolds DEF Usable
  <2> QED BY <1>1, <1>4, <2>1, <2>2, <2>3, OneMoreCall
<1>6. loadport' = loadport
  BY DEF loadport
<1>7. inport \notin Lent(frames') /\ outport \notin Lent(frames')
  BY <1>1, <1>5, RunningUsable
<1>8. CASE dir = "input"
  <2>1. inport' = p /\ outport' = outport
    BY <1>1, <1>8 DEF SetPort
  <2> QED BY <1>1, <1>2, <1>5, <1>6, <1>7, <1>8, <2>1, RunningUsable DEF Usable, Unlent
<1>9. CASE dir = "output"
  <2>1. outport' = p /\ inport' = inport
    BY <1>1, <1>9 DEF SetPort
  <2> QED BY <1>1, <1>2, <1>5, <1>6, <1>7, <1>9, <2>1, RunningUsable DEF Usable, Unlent
<1> QED BY <1>8, <1>9 DEF Directions

(* Nothing waits at the top level; what was the current input is kept for  *)
(* the next form.                                                          *)
LEMMA TopLevelUsable ==
  ASSUME NEW in, TopLevel(in), UNCHANGED outport,
         "input" \in cells'[loadport].kind, "input" \in cells'[in].kind,
         "output" \in cells'[outport].kind
  PROVE  Usable'
<1>1. frames' = <<>> /\ save_inport' = in /\ inport' = loadport /\ loadport' = loadport
  BY DEF TopLevel, loadport
<1>2. Opens(frames', cells') /\ Apart(frames') /\ Unlent(frames', "input", inport')
      /\ Unlent(frames', "output", outport')
  BY <1>1, NothingWaits
<1> QED BY <1>1, <1>2 DEF Usable

LEMMA FormsStayUsable ==
  ASSUME IInv, Usable, Error \/ NextForm \/ FormRead
  PROVE  Usable'
<1>1. UNCHANGED <<cells, outport>> /\ loadport' = loadport
  BY DEF Error, NextForm, FormRead, loadport
<1>2. CASE TopLevel(inport)
  <2>1. ~Busy({"restore"})
    BY DEF Error, NextForm, FormRead, Busy, Usable
  <2>2. /\ "input" \in cells[loadport].kind /\ "input" \in cells[inport].kind
        /\ "output" \in cells[outport].kind
    BY <2>1 DEF Usable, Between, Busy
  <2> QED BY <1>1, <1>2, <2>2, TopLevelUsable
<1>3. CASE pc = "read" /\ pc' = "run" /\ inport' = save_inport /\ UNCHANGED <<save_inport, frames>>
  <2>1. frames' = <<>> /\ "input" \in cells'[inport'].kind
    BY <1>1, <1>3 DEF Usable
  <2>2. Opens(frames', cells') /\ Apart(frames') /\ Unlent(frames', "input", inport')
        /\ Unlent(frames', "output", outport')
    BY <2>1, NothingWaits
  <2> QED BY <1>1, <1>3, <2>1, <2>2 DEF Usable
<1> QED BY <1>2, <1>3 DEF Error, NextForm, FormRead

(* A jump out of calls                                                     *)
LEMMA ContinueStaysUsable ==
  ASSUME IInv, Usable, pc = "run", ~Busy({"write", "restore"}), careful',
         NEW k \in conts, NEW in, Continue(k, in), in \notin Lent(frames),
         UNCHANGED outport, \A p \in Live : cells'[p] = cells[p],
         "input" \in cells'[in].kind
  PROVE  Usable'
<1>1. /\ pc' = "run" /\ ~Busy({"read", "write", "restore"})
      /\ frames' = k /\ Within(k, frames) /\ inport' = in /\ outport' = outport
  BY DEF Continue, Busy
<1>2. frames \in Seq(Calls) /\ k \in Seq(Calls)
  BY <1>1, LiveHolds DEF IInv, Waits
<1>3. Len(k) \in 0..Len(frames) /\ k = SubSeq(frames, 1, Len(k))
  BY <1>1, <1>2 DEF Within
<1>4. Opens(k, cells) /\ Apart(k) /\ Lent(k) \subseteq Lent(frames)
  BY <1>2, <1>3, PrefixKeeps DEF Usable
<1>5. Opens(k, cells')
  <2>1. \A n \in DOMAIN k : k[n].port \in Live /\ k[n].prev \in Live
    BY DEF IInv, Kept, Holds
  <2> QED BY <1>4, <2>1, OpensStill
<1>6. loadport' = loadport /\ loadport \in Live /\ outport \in Live
  BY LiveHolds DEF loadport
<1>7. "input" \in cells'[loadport].kind /\ "output" \in cells'[outport].kind
  BY <1>1, <1>6, RunningUsable
<1>8. in \notin Lent(k) /\ outport \notin Lent(k)
  BY <1>1, <1>4, RunningUsable
<1> QED BY <1>1, <1>4, <1>5, <1>6, <1>7, <1>8 DEF Usable, Unlent

(* An error, while the current input is open and not lent                  *)
LEMMA FailsStaysUsable ==
  ASSUME IInv, Usable, pc = "run", ~Busy({"read", "write", "restore"}), careful',
         NEW in, Fails(in), in \notin Lent(frames), UNCHANGED outport,
         \A p \in Live : cells'[p] = cells[p], "input" \in cells'[in].kind
  PROVE  Usable'
<1>1. ~Busy({"write", "restore"})
  BY DEF Busy
<1>2. loadport \in Live /\ outport \in Live
  BY LiveHolds
<1>3. "input" \in cells'[loadport].kind /\ "output" \in cells'[outport].kind
  BY <1>2, RunningUsable
<1>4. CASE TopLevel(in)
  BY <1>3, <1>4, TopLevelUsable
<1>5. CASE \E k \in conts : Continue(k, in)
  BY <1>1, <1>5, ContinueStaysUsable
<1> QED BY <1>4, <1>5 DEF Fails

LEMMA JumpStaysUsable ==
  ASSUME IInv, Usable, NEW k \in conts, Jump(k), careful'
  PROVE  Usable'
<1>1. /\ pc = "run" /\ ~Busy({"write", "restore"}) /\ ~Busy({"read"})
      /\ Continue(k, inport) /\ UNCHANGED <<cells, outport>>
  BY DEF Jump, Continue
<1>2. ~Busy({"read", "write", "restore"})
  BY <1>1 DEF Busy
<1> QED BY <1>1, <1>2, RunningUsable, ContinueStaysUsable

LEMMA WithBothStaysUsable ==
  ASSUME IInv, Usable, WithBoth, careful'
  PROVE  Usable'
<1> DEFINE p == Len(cells) + 1
           c == Opened({"input"})
<1>1. pc = "run" /\ UNCHANGED outport /\ ~Busy({"read", "write", "restore"})
  BY DEF WithBoth, Running
<1>2. /\ cells \in Seq(PortCells) /\ Len(cells) \in Nat
      /\ inport \in 1..Len(cells) /\ Live \subseteq 1..Len(cells)
  BY <1>1, LiveHolds
<1>3. "input" \in cells[inport].kind /\ inport \notin Lent(frames)
  BY <1>1, RunningUsable
<1>4. CASE cells' = cells \o <<c, c>> /\ Fails(p)
  <2>1. \A q \in 1..Len(cells) : cells'[q] = cells[q]
    BY <1>2, <1>4
  <2>2. cells'[p] = c
    BY <1>2, <1>4
  <2>3. "input" \in cells'[p].kind
    BY <2>2 DEF Opened
  <2>4. p \notin Lent(frames)
    <3>1. p \notin Live BY <1>2
    <3> HIDE DEF p
    <3> QED BY <1>1, <3>1, LiveHolds DEF Lent
  <2>5. \A q \in Live : cells'[q] = cells[q]
    BY <1>2, <2>1
  <2> HIDE DEF p, c
  <2> QED BY <1>1, <1>4, <2>3, <2>4, <2>5, FailsStaysUsable
<1>5. ASSUME NEW d, cells' = Append(cells, d), Fails(inport) PROVE Usable'
  <2>1. \A q \in 1..Len(cells) : cells'[q] = cells[q]
    BY <1>2, <1>5
  <2>2. \A q \in Live : cells'[q] = cells[q]
    BY <1>2, <2>1
  <2> QED BY <1>1, <1>2, <1>3, <1>5, <2>1, <2>2, FailsStaysUsable
<1> QED BY <1>4, <1>5 DEF WithBoth

(* The innermost call and those around it                                  *)
LEMMA Innermost ==
  ASSUME IInv, Usable, pc = "run", frames # <<>>, NEW z, z = Len(frames),
         NEW f, f = Last(frames), NEW k, k = Front(frames)
  PROVE  /\ z \in Nat /\ z > 0 /\ z \in DOMAIN frames /\ f = frames[z]
         /\ f \in Calls /\ f.port \in Live /\ f.prev \in Live
         /\ k \in Seq(Calls) /\ DOMAIN k = 1..(z - 1)
         /\ \A n \in 1..(z - 1) : n \in DOMAIN frames /\ n < z /\ k[n] = frames[n]
         /\ Opens(k, cells) /\ Apart(k) /\ Lent(k) \subseteq Lent(frames)
         /\ Closing(f) => cells[f.port].kind \subseteq {f.dir} /\ f.port > loadport
         /\ Restoring(f) => f.dir \in cells[f.prev].kind /\ f.prev \notin Lent(k)
<1>1. /\ frames \in Seq(Calls) /\ z \in Nat /\ z > 0 /\ z \in DOMAIN frames /\ f = frames[z]
      /\ f \in Calls /\ f.port \in Live /\ f.prev \in Live /\ DOMAIN frames = 1..z
  BY LiveHolds DEF Last
<1>2. /\ k \in Seq(Calls) /\ DOMAIN k = 1..(z - 1) /\ \A n \in 1..(z - 1) : k[n] = frames[n]
      /\ Opens(k, cells) /\ Apart(k) /\ Lent(k) \subseteq Lent(frames)
  <2>1. z - 1 \in 0..Len(frames) /\ k = SubSeq(frames, 1, z - 1) /\ frames \in Seq(Calls)
    BY <1>1 DEF Front
  <2>2. Opens(frames, cells) /\ Apart(frames)
    BY DEF Usable
  <2> QED BY <2>1, <2>2, PrefixKeeps, Zenon
<1>3. \A n \in 1..(z - 1) : n \in DOMAIN frames /\ n < z
  BY <1>1
<1>4. /\ Closing(f) => cells[f.port].kind \subseteq {f.dir} /\ f.port > loadport
      /\ Restoring(f) => f.dir \in cells[f.prev].kind
  BY <1>1 DEF Usable, Opens
<1>5. ASSUME Restoring(f), NEW m \in 1..(z - 1), k[m].op = "callwith"
      PROVE  f.prev # k[m].port
  <2>1. m \in DOMAIN frames /\ k[m] = frames[m]
    BY <1>2, <1>3
  <2> QED BY <1>1, <1>5, <2>1 DEF Usable, Apart, Closing
<1>6. Restoring(f) => f.prev \notin Lent(k)
  BY <1>2, <1>5 DEF Lent
<1> QED BY <1>1, <1>2, <1>3, <1>4, <1>6

(* A call closes its port, which is not what another call makes current    *)
(* again; after call-with-... it is not current, and with-... makes the    *)
(* former one current by its next call.                                    *)
LEMMA ReturnStaysUsable ==
  ASSUME IInv, Usable, Return, careful'
  PROVE  Usable'
<1> SUFFICES ASSUME NEW f, f = Last(frames), NEW k, k = Front(frames), NEW z, z = Len(frames),
                    NEW g, g = [f EXCEPT !.op = "restore"]
             PROVE  Usable'
  OBVIOUS
<1>1. /\ pc = "run" /\ frames # <<>> /\ loadport' = loadport /\ Closing(f)
      /\ ~Busy({"read", "write", "restore"})
  BY DEF Return, Busy, Closing, loadport
<1>2. /\ z \in Nat /\ z > 0 /\ z \in DOMAIN frames /\ f = frames[z]
      /\ f \in Calls /\ f.port \in Live /\ f.prev \in Live
      /\ k \in Seq(Calls) /\ DOMAIN k = 1..(z - 1)
      /\ \A n \in 1..(z - 1) : n \in DOMAIN frames /\ n < z /\ k[n] = frames[n]
      /\ Opens(k, cells) /\ Apart(k) /\ Lent(k) \subseteq Lent(frames)
      /\ Closing(f) => cells[f.port].kind \subseteq {f.dir} /\ f.port > loadport
      /\ Restoring(f) => f.dir \in cells[f.prev].kind /\ f.prev \notin Lent(k)
  BY <1>1, Innermost
<1>3. CASE Fails(inport) /\ UNCHANGED <<cells, outport>>
  BY <1>1, <1>3, RunningUsable, FailsStaysUsable
<1>4. CASE /\ cells' = [cells EXCEPT ![f.port] = Closed(cells[f.port], {f.dir})]
           /\ frames' = IF f.op = "callwith" THEN k ELSE Append(k, g)
           /\ UNCHANGED <<inport, outport, save_inport, pc>>
  <2>1. \A q \in Live : q # f.port => cells'[q] = cells[q]
    BY <1>1, <1>2, <1>4, LiveHolds
  <2>2. ASSUME NEW n \in 1..(z - 1)
        PROVE  /\ Closing(k[n]) => k[n].port # f.port
               /\ Restoring(k[n]) => k[n].prev # f.port
    <3>1. n \in DOMAIN frames /\ k[n] = frames[n] /\ n < z /\ ~(z < n)
      BY <1>2
    <3>2. Closing(frames[n]) => frames[n].port # f.port
      BY <1>1, <1>2, <3>1 DEF Usable, Apart
    <3>3. Restoring(frames[n]) => frames[n].prev # f.port
      <4>1. Restoring(frames[n]) /\ frames[n].prev = frames[z].port => z < n
        BY <1>1, <1>2, <3>1 DEF Usable, Apart
      <4> QED BY <1>2, <3>1, <4>1
    <3> QED BY <3>1, <3>2, <3>3
  <2>3. Opens(k, cells')
    <3>1. ASSUME NEW n \in DOMAIN k
          PROVE  /\ Closing(k[n]) => cells'[k[n].port].kind \subseteq cells[k[n].port].kind
                 /\ Restoring(k[n]) => cells'[k[n].prev].kind = cells[k[n].prev].kind
      <4>1. n \in 1..(z - 1) /\ n \in DOMAIN frames /\ k[n] = frames[n]
        BY <1>2
      <4>2. k[n].port \in Live /\ k[n].prev \in Live
        BY <1>1, <4>1, LiveHolds
      <4> QED BY <2>1, <2>2, <4>1, <4>2
    <3> QED BY <1>2, <3>1, OpensStill
  <2>4. /\ loadport \in Live /\ inport \in Live /\ outport \in Live
        /\ loadport # f.port /\ "input" \in cells'[loadport].kind
    <3>1. loadport \in Live /\ inport \in Live /\ outport \in Live /\ loadport # f.port
      BY <1>1, <1>2, LiveHolds DEF loadport
    <3> QED BY <1>1, <2>1, <3>1, RunningUsable
  <2>5. CASE f.op = "callwith"
    <3>1. f.port \in Lent(frames)
      BY <1>2, <2>5 DEF Lent
    <3>2. inport # f.port /\ outport # f.port
      BY <1>1, <3>1, RunningUsable
    <3>3. "input" \in cells'[inport].kind /\ "output" \in cells'[outport].kind
      BY <1>1, <2>1, <2>4, <3>2, RunningUsable
    <3>4. inport \notin Lent(k) /\ outport \notin Lent(k)
      BY <1>1, <1>2, RunningUsable
    <3> QED BY <1>1, <1>2, <1>4, <2>3, <2>4, <2>5, <3>3, <3>4 DEF Usable, Unlent
  <2>6. CASE f.op # "callwith"
    <3>1. g \in Calls /\ g.op = "restore" /\ g.dir = f.dir /\ g.prev = f.prev
      BY <1>2 DEF Calls
    <3>2. f.op = "with" /\ Restoring(f) /\ ~Closing(g)
      BY <1>1, <2>6, <3>1 DEF Closing, Restoring
    <3>3. f.prev # f.port
      <4>1. f.prev = f.port => z < z
        BY <1>1, <1>2, <3>2 DEF Usable, Apart
      <4> QED BY <1>2, <4>1
    <3>4. g.dir \in cells'[g.prev].kind /\ g.prev \notin Lent(k)
      BY <1>2, <2>1, <3>1, <3>2, <3>3
    <3>5. /\ Opens(frames', cells') /\ Apart(frames') /\ Lent(frames') = Lent(k)
          /\ frames' # <<>> /\ Last(frames') = g
      <4>1. frames' = Append(k, g)
        BY <1>4, <2>6
      <4>2. g.op # "with" /\ g.op # "callwith"
        BY <3>1
      <4>3. /\ Opens(Append(k, g), cells') /\ Apart(Append(k, g))
            /\ Lent(Append(k, g)) = Lent(k) \cup (IF g.op = "callwith" THEN {g.port} ELSE {})
            /\ Append(k, g) # <<>> /\ Last(Append(k, g)) = g
        <5>1. /\ k \in Seq(Calls) /\ g \in Calls /\ Opens(k, cells') /\ Apart(k)
              /\ Closing(g) => cells'[g.port].kind \subseteq {g.dir} /\ g.port > loadport
              /\ Restoring(g) => g.dir \in cells'[g.prev].kind /\ g.prev \notin Lent(k)
              /\ Closing(g) => \A n \in DOMAIN k : k[n].port # g.port /\ k[n].prev # g.port
              /\ g.op = "with" => g.prev # g.port
          BY <1>2, <2>3, <3>1, <3>2, <3>4, <4>2
        <5> QED BY <5>1, OneMoreCall, Zenon
      <4> QED BY <4>1, <4>2, <4>3
    <3>6. inport \notin Lent(frames') /\ outport \notin Lent(frames')
      BY <1>1, <1>2, <3>5, RunningUsable
    <3>7. /\ f.dir # "input" => "input" \in cells'[inport].kind
          /\ f.dir # "output" => "output" \in cells'[outport].kind
      <4>1. "input" \in cells[inport].kind /\ "output" \in cells[outport].kind
        BY <1>1, RunningUsable
      <4> QED BY <1>1, <1>2, <2>1, <2>4, <4>1
    <3> QED BY <1>1, <1>4, <2>4, <3>1, <3>5, <3>6, <3>7 DEF Usable, Unlent, Between
  <2> QED BY <2>5, <2>6
<1> QED BY <1>3, <1>4 DEF Return, PortClose, current

(* The former port passes the test, and was not lent.                      *)
LEMMA SetFormerStaysUsable ==
  ASSUME IInv, Usable, SetFormer
  PROVE  Usable'
<1> SUFFICES ASSUME NEW f, f = Last(frames), NEW k, k = Front(frames), NEW z, z = Len(frames)
             PROVE  Usable'
  OBVIOUS
<1>1. /\ pc = "run" /\ frames # <<>> /\ loadport' = loadport /\ Restoring(f)
      /\ UNCHANGED cells
  BY DEF SetFormer, Busy, Restoring, loadport
<1>2. /\ f \in Calls /\ f.prev \in Live /\ k \in Seq(Calls)
      /\ Opens(k, cells) /\ Apart(k) /\ Lent(k) \subseteq Lent(frames)
      /\ f.dir \in cells[f.prev].kind /\ f.prev \notin Lent(k)
  BY <1>1, Innermost, Zenon
<1>3. SetPort(f.dir, f.prev) /\ frames' = k /\ UNCHANGED <<save_inport, pc>>
  BY <1>2 DEF SetFormer, Is, Restore
(* The current port of the other direction is open, and was not lent: a    *)
(* call of read or write would be of that direction.                       *)
<1>4. /\ f.dir # "input" => inport \notin Lent(k) /\ "input" \in cells[inport].kind
      /\ f.dir # "output" => outport \notin Lent(k) /\ "output" \in cells[outport].kind
  BY <1>2 DEF Usable, Unlent, Between
<1>5. "input" \in cells[loadport].kind
  BY DEF Usable
<1>6. CASE f.dir = "input"
  <2>1. inport' = f.prev /\ outport' = outport
    BY <1>3, <1>6 DEF SetPort
  <2> QED BY <1>1, <1>2, <1>3, <1>4, <1>5, <1>6, <2>1 DEF Usable, Unlent
<1>7. CASE f.dir = "output"
  <2>1. outport' = f.prev /\ inport' = inport
    BY <1>3, <1>7 DEF SetPort
  <2> QED BY <1>1, <1>2, <1>3, <1>4, <1>5, <1>7, <2>1 DEF Usable, Unlent
<1> QED BY <1>2, <1>6, <1>7 DEF Calls, Directions

LEMMA InitOInv == Init => OInv
<1> SUFFICES ASSUME Init PROVE Usable
  BY DEF OInv
<1>1. /\ "input" \in cells[loadport].kind /\ "input" \in cells[inport].kind
      /\ "output" \in cells[outport].kind /\ pc = "run" /\ frames = <<>>
  BY DEF Init, Console, loadport
<1> QED BY <1>1, NothingWaits DEF Usable

LEMMA NextOInv == IInv /\ OInv /\ [Next]_vars => OInv'
<1> SUFFICES ASSUME IInv, OInv, [Next]_vars, pc' # "ended", careful' PROVE Usable'
  BY DEF OInv
<1>0. pc # "ended" /\ careful
  <2>1. CASE UNCHANGED vars
    BY <2>1 DEF vars
  <2>2. CASE Next
    <3>1. ASSUME NEW dirs, Open(dirs) PROVE pc # "ended" /\ careful
      BY <3>1 DEF Open, Running
    <3>2. CASE Hold \/ (\E p \in held : Drop(p)) \/ CallCC
      BY <3>2 DEF Hold, Drop, CallCC, Running
    <3>3. ASSUME NEW p, NEW flag, Close(p, flag) PROVE pc # "ended" /\ careful
      BY <3>3 DEF Close, Running
    <3>4. ASSUME NEW p, NEW dir, MakeCurrent(p, dir) PROVE pc # "ended" /\ careful
      BY <3>4 DEF MakeCurrent, Running
    <3>5. ASSUME NEW p, Use(p) PROVE pc # "ended" /\ careful
      BY <3>5 DEF Use, UsePort, Running
    <3>6. ASSUME NEW dir, With(dir) \/ CallWith(dir) PROVE pc # "ended" /\ careful
      BY <3>6 DEF With, CallWith, Running
    <3>7. CASE WithBoth \/ Return \/ SetFormer \/ Error \/ NextForm \/ FormRead \/ Gc
      BY <3>7 DEF WithBoth, Return, SetFormer, Fails, Continue, Error, NextForm,
                  FormRead, Gc, Running
    <3>8. ASSUME NEW k, Jump(k) PROVE pc # "ended" /\ careful
      BY <3>8 DEF Jump, Continue
    <3>9. ~Deinit /\ pc' # "ended"
      BY DEF Deinit
    <3> QED
      BY <2>2, <3>1, <3>2, <3>3, <3>4, <3>5, <3>6, <3>7, <3>8, <3>9 DEF Next, vars
  <2> QED BY <2>1, <2>2
<1>1. Usable
  BY <1>0 DEF OInv
<1>2. ASSUME NEW dirs \in Dirs, Open(dirs) PROVE Usable'
  BY <1>0, <1>1, <1>2, OpenStaysUsable
<1>3. CASE Hold \/ (\E p \in held : Drop(p)) \/ CallCC
  BY <1>0, <1>1, <1>3, ProgramStaysUsable
<1>4. ASSUME NEW p \in held, NEW flag \in Dirs, Close(p, flag) PROVE Usable'
  BY <1>1, <1>4, CloseStaysUsable
<1>5. ASSUME NEW p \in held, NEW dir \in {"input", "output"}, MakeCurrent(p, dir)
      PROVE  Usable'
  BY <1>1, <1>5, MakeCurrentStaysUsable DEF Directions
<1>6. ASSUME NEW p \in held, Use(p) PROVE Usable'
  BY <1>1, <1>6, UseStaysUsable DEF Use, Directions
<1>7. ASSUME NEW dir \in {"input", "output"}, With(dir) \/ CallWith(dir) PROVE Usable'
  BY <1>1, <1>7, LibraryStaysUsable DEF Directions
<1>8. CASE WithBoth BY <1>1, <1>8, WithBothStaysUsable
<1>9. CASE Return \/ SetFormer
  BY <1>1, <1>9, ReturnStaysUsable, SetFormerStaysUsable
<1>10. CASE Error \/ NextForm \/ FormRead BY <1>1, <1>10, FormsStayUsable
<1>11. ASSUME NEW k \in conts, Jump(k) PROVE Usable'
  BY <1>1, <1>11, JumpStaysUsable
<1>12. CASE Gc BY <1>1, <1>12, GcStaysUsable
<1>13. ~Deinit
  BY DEF Deinit
<1>14. CASE UNCHANGED vars
  <2>1. UNCHANGED <<cells, inport, outport, save_inport, frames, pc>>
    BY <1>14 DEF vars, current
  <2>2. \A p \in Live : cells'[p].kind = cells[p].kind
    BY <2>1
  <2> QED BY <1>0, <1>1, <2>1, <2>2, LiveHolds, StaysUsable
<1> QED
  BY <1>0, <1>2, <1>3, <1>4, <1>5, <1>6, <1>7, <1>8, <1>9, <1>10, <1>11, <1>12,
     <1>13, <1>14 DEF Next

(* What is current is open, however calls of the library that open, lend   *)
(* and close ports are nested and left, by a jump or by an error, caught   *)
(* or not.  This is said, as CurrentOpen says it, of careful programs (no  *)
(* port in use is closed, none that call-with-... will close is made       *)
(* current, no call that was left is entered again, no error in what       *)
(* (read p) reads is caught), and not of the moment between the last two   *)
(* calls of with-... .                                                     *)
THEOREM CurrentIsOpen == Spec => []CurrentOpen
<1>1. OInv => CurrentOpen
  BY DEF OInv, Usable, Between, Busy, CurrentOpen, Is
<1> QED BY <1>1, Invariance, InitOInv, NextOInv, PTL DEF Spec
=============================================================================
