----------------------------- MODULE GrowattWords -----------------------------
(***************************************************************************)
(* How the words of Growatt frames are read. Batteries of both byte orders *)
(* exist, and the decoder guesses the order from what would be plausible.  *)
(* A battery, or this firmware's own sender, tells a pack voltage that     *)
(* drifts, and the lowest and highest cell around the average; the decoder *)
(* reads the voltage of 0x313 and the cells of 0x315 and 0x319.            *)
(***************************************************************************)
EXTENDS Integers, Sequences

CONSTANTS
    Low, High, Step,  \* pack voltages, in hundredths of a volt
    Spreads,          \* how far a cell may be from the average, in millivolts
    Orders,           \* byte orders: "big", "little"
    Flags             \* first byte of 0x319

WordsAssumption ==
    /\ {Low, High, Step} \subseteq Nat \ {0} /\ 3000 <= Low /\ Low <= High /\ High <= 9000
    /\ Spreads \subseteq Nat /\ Orders \subseteq {"big", "little"} /\ Flags \subseteq 0..255

VARIABLES pack, above, below, order

vars == <<pack, above, below, order>>

CellCount == 16
Average(cv) == (10 * cv + CellCount \div 2) \div CellCount

-----------------------------------------------------------------------------
(* Bytes.                                                                  *)

Hi(w) == w \div 256
Lo(w) == w % 256
Word(hi, lo) == 256 * hi + lo

\* putBe16, and what a battery of the other order does.
Put(w) == IF order = "big" THEN <<Hi(w), Lo(w)>> ELSE <<Lo(w), Hi(w)>>

\* sendGrowattCanSet: the frames of the pack and of its extreme cells.
Frame313 == Put(pack)
Frame319(flags) == <<flags>> \o Put(Average(pack) + above) \o Put(Average(pack) - below)

Read(d, i, o) == IF o = "big" THEN Word(d[i], d[i + 1]) ELSE Word(d[i + 1], d[i])

-----------------------------------------------------------------------------
(* The decoder.                                                            *)

\* canGrowattValidPackVoltageRaw: hundredths or tenths of a volt, by what is plausible.
Volts(w) ==
    IF 3000 <= w /\ w <= 9000 THEN {w} ELSE IF 300 <= w /\ w <= 900 THEN {10 * w} ELSE {}

\* canGrowattDecodePackVoltage: the higher of two plausible voltages is taken, and its order.
PackVoltage(d) ==
    LET be == Volts(Read(d, 1, "big")) le == Volts(Read(d, 1, "little"))
    IN {[order |-> "big", cv |-> v] : v \in {v \in be : \A u \in le : v >= u}} \cup
       {[order |-> "little", cv |-> v] : v \in {v \in le : \A u \in be : v > u}}

Plausible(mv) == 1500 <= mv /\ mv <= 5000
Distance(a, b) == IF a > b THEN a - b ELSE b - a

\* canGrowattDecodeCellWord: of two plausible cells the one nearer to the average.
CellWord(d, i, cv) ==
    LET be == Read(d, i, "big") le == Read(d, i, "little")
    IN {w \in {be, le} :
           /\ Plausible(w)
           /\ w = be /\ Plausible(le) => Distance(be, Average(cv)) <= Distance(le, Average(cv))
           /\ w # be /\ Plausible(be) => Distance(le, Average(cv)) < Distance(be, Average(cv))}

\* canGrowattCellCandidateScore.
Score(c, cv) == c.max - c.min + 4 * Distance((c.max + c.min) \div 2, Average(cv))

\* canGrowattDecodeCellExtremes: of four readings that may be, the first of the lowest score.
Candidates(d) ==
    << [max |-> Read(d, 1, "big"),    min |-> Read(d, 3, "big")],
       [max |-> Read(d, 1, "little"), min |-> Read(d, 3, "little")],
       [max |-> Read(d, 2, "big"),    min |-> Read(d, 4, "big")],
       [max |-> Read(d, 2, "little"), min |-> Read(d, 4, "little")] >>

MayBe(c) == Plausible(c.min) /\ Plausible(c.max) /\ c.max >= c.min

CellExtremes(d, cv) ==
    LET c == Candidates(d)
        ok == {i \in 1..4 : MayBe(c[i])}
        Before(i, j) == Score(c[i], cv) < Score(c[j], cv) \/ (Score(c[i], cv) = Score(c[j], cv) /\ i < j)
    IN {c[i] : i \in {i \in ok : \A j \in ok \ {i} : Before(i, j)}}

-----------------------------------------------------------------------------
Init == pack = Low /\ above \in Spreads /\ below \in Spreads /\ order \in Orders

\* The battery is charged until it is full, and then another one is.
Drift == /\ pack' = (IF pack + Step > High THEN Low ELSE pack + Step)
         /\ UNCHANGED <<above, below, order>>

Spec == Init /\ [][Drift]_vars

Is(p) == [max |-> Average(p) + above, min |-> Average(p) - below]

\* At most one reading of a frame is taken, and it is a voltage a pack can have.
TypeOK ==
    /\ pack \in Low..High /\ {above, below} \subseteq Spreads /\ order \in Orders
    /\ \E p \in PackVoltage(Frame313) : PackVoltage(Frame313) = {p} /\ 3000 <= p.cv /\ p.cv <= 9000

\* A pack is never read as of less than it has: a guess errs upwards only.
PackIsNotUnderstated == \A p \in PackVoltage(Frame313) : p.cv >= pack

\* A cell that is less than half of the 255 mV from the average by which two readings differ at
\* least is read as it was sent, in either order.
CellNearAverageIsRead ==
    \A mv \in {Is(pack).max, Is(pack).min} : CellWord(Put(mv), 1, pack) = {mv}

\* The extremes of a battery that sends the low byte first are read as they were sent.
LittleExtremesAreRead ==
    order = "little" => \A f \in Flags : CellExtremes(Frame319(f), pack) = {Is(pack)}

=============================================================================
