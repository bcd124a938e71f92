----------------------------- MODULE DalySnapshot -----------------------------
(***************************************************************************)
(* What the two Daly sources share: the snapshot that answers fill in      *)
(* piece by piece, and the packet and the model that are made of it.  A    *)
(* value that may be missing is a set with one element or none; the        *)
(* voltage of a cell is a number, 0 if it was never read.                  *)
(***************************************************************************)
EXTENDS Naturals, FiniteSets, FiniteSetsExt

CONSTANTS
    MaxCells,  \* BMS_DECODED_PACKET_MAX_CELLS
    FirstNo    \* the number of the first frame of cells: 0 on CAN, 1 on RS485

CellsAssumption == MaxCells \in Nat \ {0} /\ FirstNo \in {0, 1}

Cmds == {"rated", "soc", "range", "temps", "mos", "status", "cells", "balance", "failure"}

\* The power switches and the flags of faults are left out.
NoSnapshot ==
    [valid |-> FALSE, soc |-> {}, range |-> {}, cells |-> [i \in 1..MaxCells |-> 0], count |-> 0,
     temps |-> FALSE]

Nothing == [have |-> FALSE, soc |-> {}, range |-> {}, cells |-> <<>>]

IsSnapshot(s) ==
    /\ {s.valid, s.temps} \subseteq BOOLEAN
    /\ DOMAIN s.cells = 1..MaxCells /\ s.count \in 0..MaxCells
    /\ Cardinality(s.soc) <= 1 /\ Cardinality(s.range) <= 1

Clamped(n) == Min({n, MaxCells})

\* The state of charge, the range and the count replace what was there;
\* a frame of cells adds its cell and lets the count only grow.  What cannot be a
\* voltage, as 0, is no cell.  Anything else shows that the battery is alive.
Decode(s, f) ==
    LET t    == [s EXCEPT !.valid = TRUE]
        at   == f.no + 1 - FirstNo
        here == at \in 1..MaxCells /\ f.mv > 0
    IN CASE f.cmd = "soc"    -> [t EXCEPT !.soc = {f.val}]
         [] f.cmd = "range"  -> [t EXCEPT !.range = {f.range}]
         [] f.cmd = "temps"  -> [t EXCEPT !.temps = TRUE]
         [] f.cmd = "status" /\ f.n > 0 -> [t EXCEPT !.count = Clamped(f.n)]
         [] f.cmd = "cells" /\ here -> [t EXCEPT !.cells[at] = f.mv, !.count = Max({@, at})]
         [] OTHER -> t

\* The frames that are expected for the cells: one for each the battery told of, and
\* the largest number before it did.
FrameCount(s, cmd) ==
    IF cmd # "cells" THEN 1 ELSE IF s.count = 0 THEN MaxCells ELSE s.count

Lowest(mvs)  == CHOOSE m \in mvs : \A n \in mvs : m <= n
Highest(mvs) == CHOOSE m \in mvs : \A n \in mvs : n <= m

\* The lowest and the highest of some of the cells, in place of those that were told.
Extremes(s, cells) ==
    IF cells = {} THEN s
    ELSE LET mvs == {s.cells[i] : i \in cells}
         IN [s EXCEPT !.range = {<<Lowest(mvs), Highest(mvs)>>}]

\* dalyRs485BuildDecodedPacket; a packet of nothing but flags is none.
HasContent(s) == s.valid /\ (s.soc # {} \/ s.range # {} \/ s.temps \/ s.count > 0)

Packet(s) ==
    [have |-> TRUE, soc |-> s.soc, range |-> s.range, cells |-> [i \in 1..s.count |-> s.cells[i]]]
=============================================================================
