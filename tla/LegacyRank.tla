------------------------------ MODULE LegacyRank ------------------------------
(***************************************************************************)
(* What a command does to a DRAMSim::Rank and its PIMRank outside the      *)
(* targeted execution: the rank's book of open rows, the modes SB (single  *)
(* bank), HAB (half of all banks at once) and HAB_PIM, which are switched  *)
(* by accesses to reserved rows, and the sequencer doPIM, which runs the   *)
(* program of the CRF one command per column access.                       *)
(*                                                                         *)
(* A value is the bag of the terms of its sum, a term the sequence of its  *)
(* factors, a factor the cell or the input it comes from; a row no one has *)
(* written holds a value of its own.  Register numbers inside a command    *)
(* are left out: the generated programs address registers by the column of *)
(* the access only (auto).  Timing is left to MemoryController; NUM_BANKS  *)
(* is 16, an even and an odd bank for each PIM block, and UpperBank 8.     *)
(***************************************************************************)
EXTENDS AddressMapping, FiniteSets, Bags

CONSTANTS
  UpperBank,   \* the first bank of the second pair an ABMR needs
  NumGrf,      \* registers in each GRF, 8 in the code
  RowBit       \* the bit of reserved rows, 1 << 13 in the code

Bank   == 0 .. NumBanks - 1
Block  == 0 .. NumBanks \div 2 - 1
Closed == 0 - 1

IsReservedRA(row) == row >= RowBit
Masked2accessibleRA(row) == row % RowBit
PARK_RA     == RowBit
PIM_ABMR_RA == RowBit + 1
PIM_SBMR_RA == RowBit + 2
PIM_REG_RA  == RowBit + 3

GetGrfIdx(col) == col % NumGrf
GetGrfIdxHigh(row, col) == (row % 2) * (NumGrf \div 2) + ((col \div NumGrf) % (NumGrf \div 2))

NOP == [type |-> "NOP", dst |-> "A_OUT", src0 |-> "A_OUT", src1 |-> "A_OUT", src2 |-> "A_OUT",
        auto |-> FALSE, relu |-> FALSE, counter |-> 0, offset |-> 0]

\* PIMCmd::toInt, then fromInt: what the 32 bits keep of a command of each type.
Encoded(cmd) ==
  CASE cmd.type = "NOP"  -> [NOP EXCEPT !.counter = cmd.counter % 2^11]
    [] cmd.type = "JUMP" -> [NOP EXCEPT !.type = "JUMP", !.counter = cmd.counter % 2^17,
                                        !.offset = cmd.offset % 2^11]
    [] cmd.type = "EXIT" -> [NOP EXCEPT !.type = "EXIT"]
    [] cmd.type \in {"FILL", "MOV"} -> [cmd EXCEPT !.src1 = "A_OUT", !.src2 = "A_OUT", !.auto = FALSE]
    [] OTHER -> [cmd EXCEPT !.relu = FALSE]

CrfWords == 8                   \* commands in a burst of the CRF
CrfBursts == 4

Zeros == [i \in 0 .. NumGrf - 1 |-> EmptyBag]
BlockInit == [grfA |-> Zeros, grfB |-> Zeros, srf |-> EmptyBag, aOut |-> EmptyBag, mOut |-> EmptyBag]

RankInit(open) ==
  [mode |-> "SB", exec |-> "IDLE",
   open |-> open,                      \* bankStates: the open row of each bank
   abmr |-> {}, sbmr |-> {},           \* the banks whose flag is set
   op |-> FALSE, even |-> FALSE, odd |-> FALSE, ra13 |-> FALSE,
   pc |-> 0, exit |-> FALSE, lastJump |-> -1, jumps |-> -1, lastRepeat |-> -1, repeats |-> -1,
   crf |-> [n \in 0 .. CrfBursts - 1 |-> [j \in 1 .. CrfWords |-> NOP]],
   block |-> [p \in Block |-> BlockInit],
   cells |-> <<>>,                     \* the cells written, with their values
   fault |-> "none"]                   \* what ended the program

Fault(s, what) == [s EXCEPT !.fault = what]

\* Bank::read and write.
Cell(s, bank, row, col) ==
  IF <<bank, row, col>> \in DOMAIN s.cells THEN s.cells[<<bank, row, col>>]
  ELSE SetToBag({<<<<bank, row, col>>>>})

PutCell(s, bank, row, col, value) ==
  [s EXCEPT !.cells = [x \in DOMAIN @ \cup {<<bank, row, col>>} |->
                         IF x = <<bank, row, col>> THEN value ELSE @[x]]]

\* PIMBlock: the product of two sums, and what MOV and FILL make of a value with relu.
Times(v, w) == [t \in {x \o y : x \in DOMAIN v, y \in DOMAIN w} |-> 1]
Relu(v) == SetToBag({<<<<"relu", v>>>>})

-----------------------------------------------------------------------------
(* doPIM                                                                    *)

ReadOpd(s, pb, opd, c, auto, mac) ==
  LET b == s.block[pb]
  IN  CASE opd = "EVEN_BANK" -> Cell(s, 2 * pb, c.row, c.col)
        [] opd = "ODD_BANK"  -> Cell(s, 2 * pb + 1, c.row, c.col)
        [] opd = "GRF_A"     -> b.grfA[IF auto THEN GetGrfIdx(c.col) ELSE 0]
        [] opd = "GRF_B"     -> b.grfB[IF ~auto THEN 0
                                       ELSE IF mac THEN GetGrfIdxHigh(c.row, c.col)
                                       ELSE GetGrfIdx(c.col)]
        [] opd = "A_OUT"     -> b.aOut
        [] opd = "M_OUT"     -> b.mOut
        [] OTHER             -> b.srf

WriteOpd(s, pb, opd, c, auto, mac, value) ==
  CASE opd = "EVEN_BANK" -> PutCell(s, 2 * pb, c.row, c.col, value)
    [] opd = "ODD_BANK"  -> IF c.bank % 2 = 0 THEN Fault(s, "bank coding")
                            ELSE PutCell(s, 2 * pb + 1, c.row, c.col, value)
    [] opd = "GRF_A"     -> [s EXCEPT !.block[pb].grfA[IF auto THEN GetGrfIdx(c.col) ELSE 0] = value]
    [] opd = "GRF_B"     -> [s EXCEPT !.block[pb].grfB[IF ~auto THEN 0
                                                       ELSE IF mac THEN GetGrfIdxHigh(c.row, c.col)
                                                       ELSE GetGrfIdx(c.col)] = value]
    [] opd = "A_OUT"     -> [s EXCEPT !.block[pb].aOut = value]
    [] opd = "M_OUT"     -> [s EXCEPT !.block[pb].mOut = value]
    [] OTHER             -> [s EXCEPT !.block[pb].srf = value]

\* A write by NOP or in HAB: GRF_A to the even bank, GRF_B to the odd one.
PIMToBank(s, pb, c) ==
  CASE c.bank = 0 -> PutCell(s, 2 * pb, c.row, c.col, s.block[pb].grfA[GetGrfIdx(c.col)])
    [] c.bank = 1 -> PutCell(s, 2 * pb + 1, c.row, c.col, s.block[pb].grfB[GetGrfIdx(c.col)])
    [] OTHER      -> s

DoPIMBlock(s, cmd, pb, c) ==
  LET auto == cmd.auto \/ cmd.type = "FILL"
      mac == cmd.type = "MAC"
      Get(opd) == ReadOpd(s, pb, opd, c, auto, mac)
      Put(value) == WriteOpd(s, pb, cmd.dst, c, auto, mac, value)
  IN  CASE cmd.type \in {"FILL", "MOV"} -> Put(IF cmd.relu THEN Relu(Get(cmd.src0)) ELSE Get(cmd.src0))
        [] cmd.type = "ADD" -> Put(Get(cmd.src0) (+) Get(cmd.src1))
        [] cmd.type = "MUL" -> Put(Times(Get(cmd.src0), Get(cmd.src1)))
        [] cmd.type = "MAC" -> Put(Times(Get(cmd.src0), Get(cmd.src1)) (+) Get(cmd.dst))
        [] cmd.type = "MAD" -> Put(Times(Get(cmd.src0), Get(cmd.src1)) (+) Get(cmd.src2))
        [] cmd.type = "NOP" /\ c.kind = "WRITE" -> PIMToBank(s, pb, c)
        [] OTHER -> s

\* The blocks one after the other.
Blocks(s, cmd, c) ==
  LET upTo[n \in 0 .. NumBanks \div 2] == IF n = 0 THEN s ELSE DoPIMBlock(upTo[n - 1], cmd, n - 1, c)
  IN  upTo[NumBanks \div 2]

\* A taken JUMP goes back; the counter is loaded where the last JUMP was another one.
Jump(s, cmd) ==
  LET fresh == s.lastJump # s.pc /\ cmd.counter > 0
      left == IF fresh THEN cmd.counter ELSE s.jumps
      base == IF fresh THEN [s EXCEPT !.lastJump = s.pc] ELSE s
  IN  IF left > 0 THEN [base EXCEPT !.pc = @ - cmd.offset, !.jumps = left - 1]
      ELSE [base EXCEPT !.jumps = left]

\* A FILL, an auto command and a NOP stay where they are for their repetitions.
Repeat(s, cmd) ==
  LET times == IF cmd.type = "FILL" \/ cmd.auto THEN NumGrf - 1 ELSE cmd.counter
      left == IF s.lastRepeat # s.pc THEN times ELSE s.repeats
  IN  IF ~(cmd.type \in {"FILL", "NOP"} \/ cmd.auto) THEN s
      ELSE IF left > 0 THEN [s EXCEPT !.lastRepeat = s.pc, !.pc = @ - 1, !.repeats = left - 1]
      ELSE [s EXCEPT !.lastRepeat = -1, !.repeats = left]

Word(s, pc) == s.crf[pc \div CrfWords][(pc % CrfWords) + 1]

\* The program counter moves on and looks ahead for the EXIT.
Advance(s) == [s EXCEPT !.pc = @ + 1, !.exit = @ \/ Word(s, s.pc + 1).type = "EXIT"]

\* The do-while of doPIM: JUMPs cost no access.
RECURSIVE Run(_, _)
Run(s, c) ==
  LET cmd == Word(s, s.pc)
  IN  CASE cmd.type = "EXIT" -> [s EXCEPT !.exit = TRUE]
        [] cmd.type = "JUMP" -> Run(Advance(Jump(s, cmd)), c)
        [] OTHER             -> Advance(Blocks(Repeat(s, cmd), cmd, c))

DoPIM(s, c) == Run(s, [c EXCEPT !.row = Masked2accessibleRA(@)])

-----------------------------------------------------------------------------
(* PIMRank: control, and accesses in the modes                              *)

\* d is the control burst: pim_op, the toggle conditions and the registers to zero.
ControlPIM(s, d) ==
  LET set == [s EXCEPT !.block = [p \in Block |->
                                    [@[p] EXCEPT !.grfA = IF d.zeroA THEN Zeros ELSE @,
                                                 !.grfB = IF d.zeroB THEN Zeros ELSE @]],
                       !.op = d.op, !.even = d.even, !.odd = d.odd, !.ra13 = d.ra13]
  IN  IF ~d.op THEN [set EXCEPT !.exec = IF @ = "LEGACY_RANK_WIDE" THEN "DRAINING" ELSE @,
                                !.mode = "HAB"]
      ELSE IF s.exec # "IDLE" THEN Fault(set, "legacy/targeted rank mode conflict")
      ELSE [set EXCEPT !.exec = "LEGACY_RANK_WIDE", !.mode = "HAB_PIM", !.pc = 0, !.lastJump = -1,
                       !.jumps = -1, !.lastRepeat = -1, !.repeats = -1, !.exit = FALSE]

IsToggleCond(s, c) ==
  /\ s.op /\ ~s.exit
  /\ s.ra13 \/ ~IsReservedRA(c.row)
  /\ IF c.bank % 2 = 0 THEN s.even ELSE s.odd

ReadHab(s, c) ==
  IF IsReservedRA(c.row) THEN s
  ELSE IF c.bank > 1 THEN Fault(s, "bank out of range")
  ELSE [s EXCEPT !.block = [p \in Block |->
          [@[p] EXCEPT !.grfB[GetGrfIdx(c.col)] = Cell(s, 2 * p + c.bank, c.row, c.col)]]]

WriteHab(s, c) ==
  CASE c.row = PIM_REG_RA /\ c.col = 0         -> ControlPIM(s, c.data)
    [] c.row = PIM_REG_RA /\ c.col = 1         -> [s EXCEPT !.block = [p \in Block |-> [@[p] EXCEPT !.srf = c.data]]]
    [] c.row = PIM_REG_RA /\ c.col \in 4 .. 7  -> [s EXCEPT !.crf[c.col - 4] = c.data]
    [] c.row = PIM_REG_RA /\ c.col \in 8 .. 15 -> [s EXCEPT !.block = [p \in Block |-> [@[p] EXCEPT !.grfA[c.col - 8] = c.data]]]
    [] c.row = PIM_REG_RA /\ c.col \in 24 .. 31 -> [s EXCEPT !.block = [p \in Block |-> [@[p] EXCEPT !.grfB[c.col - 24] = c.data]]]
    [] IsReservedRA(c.row) -> s
    [] OTHER -> LET upTo[n \in 0 .. NumBanks \div 2] == IF n = 0 THEN s ELSE PIMToBank(upTo[n - 1], n - 1, c)
                IN  upTo[NumBanks \div 2]

-----------------------------------------------------------------------------
(* Rank::receiveFromBus                                                     *)

\* The banks a command opens, closes and is checked against.
Checked(s, c) == IF s.mode = "SB" THEN {c.bank} ELSE {b \in Bank : b % 2 = c.bank % 2}
Updated(s, c) == IF s.mode = "SB" THEN {c.bank} ELSE {b \in Bank : b % 2 = c.bank}

Allowed(s, c) ==
  IF c.kind = "REF" THEN \A b \in Bank : s.open[b] = Closed
  ELSE \A b \in Checked(s, c) : CASE c.kind = "ACTIVATE"  -> s.open[b] = Closed
                                  [] c.kind = "PRECHARGE" -> s.open[b] # Closed
                                  [] OTHER                -> s.open[b] = c.row

UpdateState(s, c) ==
  LET row == IF c.kind = "ACTIVATE" THEN c.row ELSE Closed
  IN  IF c.kind \in {"ACTIVATE", "PRECHARGE"}
      THEN [s EXCEPT !.open = [b \in Bank |-> IF b \in Updated(s, c) THEN row ELSE @[b]]]
      ELSE s

WriteSb(s, c) == IF IsReservedRA(c.row) THEN s ELSE PutCell(s, c.bank, c.row, c.col, c.data)

Access(s, c) ==
  CASE s.mode = "SB" -> IF c.kind = "READ" THEN s ELSE WriteSb(s, c)
    [] s.mode = "HAB_PIM" /\ IsToggleCond(s, c) -> DoPIM(s, c)
    [] OTHER -> IF c.kind = "READ" THEN ReadHab(s, c) ELSE WriteHab(s, c)

\* The activates of the ABMR row that have been seen lead to HAB ...
ABMRBanks == {0, 1} \cup IF NumBanks <= 2 THEN {} ELSE {UpperBank, UpperBank + 1}
Activated(s, c) ==
  LET seen == s.abmr \cup ({c.bank} \cap {0, 1, UpperBank, UpperBank + 1})
  IN  IF ~(s.mode = "SB" /\ c.row = PIM_ABMR_RA /\ c.col = 31) THEN s
      ELSE IF ABMRBanks \subseteq seen THEN [s EXCEPT !.abmr = {}, !.mode = "HAB"]
      ELSE [s EXCEPT !.abmr = seen]

\* ... and the precharges of the SBMR row back to SB.
Precharged_First(s, c) ==                       \* mutant: the first of the two is enough
  IF s.mode = "HAB" /\ c.row = PIM_SBMR_RA THEN [s EXCEPT !.sbmr = {}, !.mode = "SB"] ELSE s
Precharged(s, c) ==
  LET seen == s.sbmr \cup ({c.bank} \cap {0, 1})
  IN  IF ~(s.mode = "HAB" /\ c.row = PIM_SBMR_RA) THEN s
      ELSE IF seen = {0, 1} THEN [s EXCEPT !.sbmr = {}, !.mode = "SB"]
      ELSE [s EXCEPT !.sbmr = seen]

SendToBank(s, c) ==
  CASE c.kind = "ACTIVATE"  -> Activated(s, c)
    [] c.kind = "PRECHARGE" -> Precharged(s, c)
    [] c.kind = "REF"       -> s
    [] OTHER                -> Access(s, c)

ReceiveFromBus(s, c) ==
  IF IsReservedRA(c.row) THEN SendToBank(s, c)
  ELSE IF ~Allowed(s, c) THEN Fault(s, "not allowed")
  ELSE SendToBank(UpdateState(s, c), c)

Step_Draining(s) == s                           \* mutant: a rank that drains stays so
\* PIMRank::step, without targeted work: the rank that drains is idle.
Step(s) == [s EXCEPT !.exec = IF @ = "DRAINING" THEN "IDLE" ELSE @]

=============================================================================
