----------------------------- MODULE BankState -----------------------------
(***************************************************************************)
(* BankState and the two books kept of it: the memory controller's, which  *)
(* it updates when a command leaves the command queue, and the rank's,     *)
(* which it updates when the command arrives a cycle later (tCMD = 1) and  *)
(* against which it checks every command.                                  *)
(*                                                                         *)
(* The source keeps absolute cycles (nextRead, ...); a bank here keeps the *)
(* cycles still to wait, so max(next, now + d) is Later(left, d) and every *)
(* cycle takes one from each.  The ranks are in the normal mode (SB); AL   *)
(* is 0; PowerDown is never entered (nothing calls powerDown) and          *)
(* lastCommand only matters while settle (stateChangeCountdown) runs,      *)
(* which is after a PRECHARGE or a REF.                                    *)
(***************************************************************************)
EXTENDS Naturals

CONSTANTS NumRanks, NumBanks, NumBankGroups,
          NumRows,
          Timing        \* the timing parameters of the device, by name

TimingNames == {"BL2", "RL", "WL", "tCCDS", "tCCDL", "tRCDRD", "tRCDWR", "tRAS", "tRC",
                "tRP", "tRRDS", "tRRDL", "tRTPL", "tWR", "tWTRS", "tWTRL", "tRTRS",
                "tREFI", "tRFC"}

ASSUME BankAssumption ==
  /\ NumRanks \in Nat \ {0} /\ NumBanks \in Nat \ {0}
  /\ NumBankGroups \in 1 .. NumBanks /\ NumRows \in Nat \ {0}
  /\ Timing \in [TimingNames -> Nat]

\* What the parameters of a real device satisfy; BL2 is BL / 2.
ASSUME TimingAssumption ==
  /\ \A n \in {"BL2", "RL", "WL", "tRP", "tRFC", "tRCDRD", "tRCDWR", "tRTRS"} : Timing[n] > 0
  /\ Timing.tRCDWR + 1 >= Timing.BL2
  /\ Timing.tWTRL >= Timing.tWTRS
  /\ Timing.RL + Timing.BL2 + Timing.tRTRS >= Timing.WL
  /\ Timing.tREFI >= NumRanks

Ranks == 0 .. NumRanks - 1
Banks == 0 .. NumBanks - 1
Rows == 0 .. NumRows - 1

Later(a, b) == IF a < b THEN b ELSE a
SameBankGroup(a, b) == LET size == NumBanks \div NumBankGroups IN a \div size = b \div size

READ_TO_PRE == Timing.BL2 + Later(Timing.tRTPL, Timing.tCCDL) - Timing.tCCDL
WRITE_TO_PRE == Timing.WL + Timing.BL2 + Timing.tWR
READ_TO_WRITE_NoSwitch == Timing.RL + Timing.BL2 - Timing.WL  \* mutant
READ_TO_WRITE == Timing.RL + Timing.BL2 + Timing.tRTRS - Timing.WL
WRITE_TO_READ_LONG == Timing.WL + Timing.BL2 + Timing.tWTRL
WRITE_TO_READ_SHORT == Timing.WL + Timing.BL2 + Timing.tWTRS
WRITE_TO_READ_RANK == Later(Timing.WL + Timing.BL2 + Timing.tRTRS, Timing.RL) - Timing.RL
SwitchRank == Timing.BL2 + Timing.tRTRS

\* The gap between two column accesses, and between two activates, of banks a and b.
ColumnGap(a, b) == Later(IF SameBankGroup(a, b) THEN Timing.tCCDL ELSE Timing.tCCDS, Timing.BL2)
ActivateGap(a, b) == IF SameBankGroup(a, b) THEN Timing.tRRDL ELSE Timing.tRRDS

(* Banks: state, open row, and cycles until a READ, WRITE, ACTIVATE or      *)
(* PRECHARGE is allowed (nextRead, ...), until the state settles.           *)
States == {"Idle", "RowActive", "Precharging", "Refreshing"}
Bank == [state : States, row : Rows, read : Nat, write : Nat, act : Nat, pre : Nat, settle : Nat]
BankInit == [state |-> "Idle", row |-> 0, read |-> 0, write |-> 0, act |-> 0, pre |-> 0,
             settle |-> 0]

\* A bank a cycle on: step() advances currentClockCycle.
Less(n) == IF n > 0 THEN n - 1 ELSE 0
Waited(k) == [k EXCEPT !.read = Less(@), !.write = Less(@), !.act = Less(@), !.pre = Less(@)]

\* updateBankState: Precharging and Refreshing settle to Idle.
Settled(k) == [k EXCEPT !.settle = Less(@),
                        !.state = IF k.settle = 1 THEN "Idle" ELSE @]

\* setBankStatesRW.
Column(k, read, write) == [k EXCEPT !.read = Later(@, read), !.write = Later(@, write)]

(* The controller's book: bank b of rank r after command c                  *)
(* (updateCommandQueue).                                                     *)
ControllerRead(k, r, b, c) ==
  LET own == [k EXCEPT !.pre = IF b = c.bank THEN Later(@, READ_TO_PRE) ELSE @]
  IN  IF r = c.rank THEN Column(own, ColumnGap(b, c.bank), READ_TO_WRITE)
      ELSE IF k.state = "RowActive" THEN Column(k, SwitchRank, READ_TO_WRITE)
      ELSE k

ControllerWrite(k, r, b, c) ==
  LET own == [k EXCEPT !.pre = IF b = c.bank THEN Later(@, WRITE_TO_PRE) ELSE @]
  IN  IF r = c.rank THEN Column(own, WRITE_TO_READ_LONG, ColumnGap(b, c.bank))
      ELSE IF k.state = "RowActive" THEN Column(k, WRITE_TO_READ_RANK, SwitchRank)
      ELSE k

ControllerActivate(k, r, b, c) ==
  IF r # c.rank THEN k
  ELSE IF b # c.bank THEN [k EXCEPT !.act = Later(@, ActivateGap(b, c.bank))]
  ELSE Column([k EXCEPT !.state = "RowActive", !.row = c.row, !.act = Later(@, Timing.tRC),
                        !.pre = Later(@, Timing.tRAS)],
              Timing.tRCDRD, Timing.tRCDWR)

ControllerPrecharge(k, r, b, c) ==
  IF r # c.rank \/ b # c.bank THEN k
  ELSE [k EXCEPT !.state = "Precharging", !.settle = Timing.tRP, !.act = Later(@, Timing.tRP)]

ControllerRefresh(k, r, b, c) ==
  IF r # c.rank THEN k
  ELSE [k EXCEPT !.state = "Refreshing", !.settle = Timing.tRFC, !.act = Timing.tRFC]

ControllerBank(k, r, b, c) ==
  CASE c.kind = "READ"      -> ControllerRead(k, r, b, c)
    [] c.kind = "WRITE"     -> ControllerWrite(k, r, b, c)
    [] c.kind = "ACTIVATE"  -> ControllerActivate(k, r, b, c)
    [] c.kind = "PRECHARGE" -> ControllerPrecharge(k, r, b, c)
    [] c.kind = "REF"       -> ControllerRefresh(k, r, b, c)

ControllerAfter(books, c) ==
  [r \in Ranks |-> [b \in Banks |-> ControllerBank(books[r][b], r, b, c)]]

(* The rank's book: bank b after command c (Rank::updateBank, updateState).  *)
RankActivate(k, b, c) ==
  IF b = c.bank
  THEN [k EXCEPT !.state = "RowActive", !.row = c.row, !.act = Timing.tRC,
                 !.read = Timing.tRCDRD, !.write = Timing.tRCDWR, !.pre = Timing.tRAS]
  ELSE [k EXCEPT !.act = Later(@, ActivateGap(b, c.bank))]

RankBank(k, b, c) ==
  LET target == b = c.bank
      turn == IF SameBankGroup(b, c.bank) THEN WRITE_TO_READ_LONG ELSE WRITE_TO_READ_SHORT
  IN  CASE c.kind = "READ" ->
             Column([k EXCEPT !.pre = IF target THEN Later(@, READ_TO_PRE) ELSE @],
                    ColumnGap(b, c.bank), READ_TO_WRITE)
        [] c.kind = "WRITE" ->
             Column([k EXCEPT !.pre = IF target THEN Later(@, WRITE_TO_PRE) ELSE @],
                    turn, ColumnGap(b, c.bank))
        [] c.kind = "ACTIVATE" -> RankActivate(k, b, c)
        [] c.kind = "PRECHARGE" ->
             IF target THEN [k EXCEPT !.state = "Idle", !.act = Later(@, Timing.tRP)] ELSE k
        [] c.kind = "REF" -> [k EXCEPT !.act = Timing.tRFC]

RankAfter(banks, c) == [b \in Banks |-> RankBank(banks[b], b, c)]

\* Rank::check and checkBank: a command for which this is false ends the program.
RankAccepts(banks, c) ==
  LET k == banks[c.bank]
  IN  CASE c.kind = "READ"      -> k.state = "RowActive" /\ k.read = 0 /\ k.row = c.row
        [] c.kind = "WRITE"     -> k.state = "RowActive" /\ k.write = 0 /\ k.row = c.row
        [] c.kind = "ACTIVATE"  -> k.state = "Idle" /\ k.act = 0
        [] c.kind = "PRECHARGE" -> k.state = "RowActive" /\ k.pre = 0
        [] c.kind = "REF"       -> \A b \in Banks : banks[b].state = "Idle"

=============================================================================
