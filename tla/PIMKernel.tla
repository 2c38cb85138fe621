------------------------------ MODULE PIMKernel ------------------------------
(***************************************************************************)
(* PIMKernel, the host of the rank-wide PIM: the transactions and barriers *)
(* it submits for an elementwise kernel and for a matrix-vector product,   *)
(* with the programs PIMCmdGen writes to the CRF, for one channel and one  *)
(* rank.  addBarrier marks the youngest transaction.  What the host must   *)
(* find in the banks afterwards is Expected.                               *)
(***************************************************************************)
EXTENDS LegacyRank, SequencesExt

CONSTANTS ColsPerRow,                           \* bursts of a row that hold data
          Input0Row, Input1Row, ResultRow,      \* the rows of elementwise kernels
          ZeroRow                               \* zero_row of a GEMVTREE

\* Rows are disjoint; addrGenSafe carries columns over into the next rows.  A row has 32
\* bursts, which is ColsPerRow for the eight registers of the code: with fewer registers
\* only so many of them hold data, and the others are registers of the reserved rows.
ASSUME KernelAssumption ==
  /\ NumBanks \in Nat /\ NumBanks % 2 = 0 /\ UpperBank \in Bank
  /\ NumBankGroups * NumBanksPerBg = NumBanks /\ UpperBank = 2 * NumBanksPerBg
  /\ NumRows = 2 * RowBit /\ NumCols = 32 * BurstLength
  /\ NumGrf \in {2, 4, 8} /\ ColsPerRow = (NumGrf * NumGrf) \div 2
  /\ {Input0Row, Input1Row, ResultRow, ZeroRow} \subseteq 0 .. RowBit - 1

\* A kernel: elementwise over tiles, or a product with input and output tiles and a batch.
Eltwise(type, tiles) == [type |-> type, tiles |-> tiles]
Gemv(type, inputs, outputs, batch) ==
  [type |-> type, inputs |-> inputs, outputs |-> outputs, batch |-> batch]

-----------------------------------------------------------------------------
(* PIMCmdGen                                                                *)

Cmd(type, dst, src0) == [NOP EXCEPT !.type = type, !.dst = dst, !.src0 = src0]
Op(type, dst, src0, src1) == [Cmd(type, dst, src0) EXCEPT !.src1 = src1, !.auto = TRUE]
Fill(dst, src, relu) == [Cmd("FILL", dst, src) EXCEPT !.relu = relu]
Nops == [NOP EXCEPT !.counter = NumGrf - 1]
JUMP(times, offset) == [NOP EXCEPT !.type = "JUMP", !.counter = times, !.offset = offset]
EXIT == [NOP EXCEPT !.type = "EXIT"]

EltwisePIMKernel(type) ==
  <<Fill("GRF_A", "EVEN_BANK", FALSE), Op(type, "GRF_A", "GRF_A", "EVEN_BANK"), Nops,
    Fill("GRF_B", "ODD_BANK", FALSE), Op(type, "GRF_B", "GRF_B", "ODD_BANK"), Nops>>

ActPIMKernel == <<Fill("GRF_A", "EVEN_BANK", TRUE), Nops, Fill("GRF_B", "ODD_BANK", TRUE), Nops>>

GemvPIMKernel(even, odd) ==
  <<Op("MAC", "GRF_B", "GRF_A", "EVEN_BANK"), JUMP(even, 2),
    Op("MAC", "GRF_B", "GRF_A", "ODD_BANK"), JUMP(odd, 2), Nops>>

GemvTreePIMKernel ==
  LET half(bank) == <<Op("MAC", "GRF_B", "GRF_A", bank), JUMP(NumGrf - 1, 2), Nops,
                      Op("MUL", "GRF_B", "GRF_B", "EVEN_BANK")>>
  IN  half("EVEN_BANK") \o half("ODD_BANK")

\* Every program ends in EXIT, the ones that repeat after a JUMP to their first command.
Repeated(cmds, jumps) ==
  IF jumps = 0 THEN Append(cmds, EXIT)
  ELSE cmds \o <<JUMP(jumps, Len(cmds) + 1), EXIT>>

CeilHalf(n) == (n + 1) \div 2
Program(k) ==
  CASE k.type \in {"ADD", "MUL"} -> Repeated(EltwisePIMKernel(k.type), k.tiles - 1)
    [] k.type = "RELU"     -> Repeated(ActPIMKernel, k.tiles - 1)
    [] k.type = "GEMVTREE" -> Repeated(GemvTreePIMKernel, CeilHalf(k.inputs) - 1)
    [] OTHER -> Repeated(GemvPIMKernel(NumGrf * CeilHalf(k.inputs) - 1,
                                       NumGrf * (k.inputs \div 2) - 1), 0)

-----------------------------------------------------------------------------
(* Transactions                                                             *)

Nil == EmptyBag
Transaction(kind, bank, row, col, data) ==
  [kind |-> kind, chan |-> 0, bank |-> bank, row |-> row, col |-> col, data |-> data, bar |-> FALSE]

\* addBarrier
Fenced(q) == [q EXCEPT ![Len(q)].bar = TRUE]

\* addTransactionAll with num_loop: the columns carry over into the following rows.
Burst(kind, bank, row, col, count) ==
  Fenced([i \in 1 .. count |->
            Transaction(kind, bank, row + ((col + i - 1) \div ColsPerRow),
                        (col + i - 1) % ColsPerRow, Nil)])

\* parkIn and parkOut: the banks of all groups in turn.
Park == Fenced([i \in 1 .. NumBanks |->
                  Transaction("READ", ((i - 1) % NumBankGroups) * NumBanksPerBg
                                      + ((i - 1) \div NumBankGroups),
                              PARK_RA, 0, Nil)])
ParkIn == Park
ParkOut == Park

\* changePIMMode
Switch(bank, row) == Transaction("WRITE", bank, row, 31, Nil)
ToHAB == Fenced(<<Switch(0, PIM_ABMR_RA), Switch(1, PIM_ABMR_RA),
                  Switch(UpperBank, PIM_ABMR_RA), Switch(UpperBank + 1, PIM_ABMR_RA)>>)
ToSB == Fenced(<<Switch(0, PIM_SBMR_RA), Switch(1, PIM_SBMR_RA)>>)
Control(op, zeroB) ==
  Fenced(<<Transaction("WRITE", 0, PIM_REG_RA, 0,
                       [op |-> op, even |-> TRUE, odd |-> TRUE, ra13 |-> FALSE,
                        zeroA |-> FALSE, zeroB |-> zeroB])>>)

\* programCrf: as many bursts as the program needs, filled up with NOPs.
ProgramCrf(cmds) ==
  LET bursts == (Len(cmds) + CrfWords - 1) \div CrfWords
      word(n) == IF n <= Len(cmds) THEN Encoded(cmds[n]) ELSE NOP
  IN  Fenced([i \in 1 .. bursts |->
                Transaction("WRITE", 1, PIM_REG_RA, 3 + i,
                            [j \in 1 .. CrfWords |-> word(CrfWords * (i - 1) + j)])])

\* The sequences of f(i), for i from first to last, one after the other.
Concatenated(first, last, f(_)) == FlattenSeq([i \in 1 .. last - first + 1 |-> f(first + i - 1)])

-----------------------------------------------------------------------------
(* executeEltwise                                                           *)

\* The bursts of one tile in the banks of one parity (computeAddOrMul, computeRelu).
ComputeTile(k, i, b) ==
  LET c == NumGrf * i
  IN  Burst("READ", b, Input0Row, c, NumGrf)
      \o (IF k.type = "RELU" THEN <<>> ELSE Burst("READ", b, Input1Row, c, NumGrf))
      \o Burst("WRITE", b, ResultRow, c, NumGrf)

Compute(k) ==
  LET both(i) == ComputeTile(k, i, 0) \o ComputeTile(k, i, 1)
  IN  Concatenated(0, k.tiles - 1, both)

ExecuteEltwise(k) ==
  ParkIn \o ToHAB \o ProgramCrf(Program(k)) \o Control(TRUE, FALSE)
  \o Compute(k) \o Control(FALSE, FALSE) \o ToSB \o ParkOut

-----------------------------------------------------------------------------
(* executeGemv                                                              *)

Input(batch, tile, i) == SetToBag({<<<<batch, tile, i, "in">>>>})
WeightCol(k, tile, output) ==
  NumGrf * NumGrf * ((tile \div 2) + (output * k.inputs) \div 2)

\* computeGemv: the inputs of a tile go to GRF_A, then a read of each of its columns.
ComputeGemv(k, tile, output, batch) ==
  LET inputs == Fenced([i \in 1 .. NumGrf |->
                          Transaction("WRITE", 1, PIM_REG_RA, 8 + (i - 1), Input(batch, tile, i - 1))])
      columns(n) == Burst("READ", tile % 2, 0, WeightCol(k, tile, output) + NumGrf * n, NumGrf)
  IN  inputs \o Concatenated(0, NumGrf - 1, columns)

ResultCol(k, output, batch) ==
  ((k.outputs * k.inputs) \div 2) * NumGrf * NumGrf + (output + batch) * NumGrf

Result(col) == Burst("WRITE", 1, 0, col, NumGrf)
ResetGrfB == Burst("READ", 0, ZeroRow, 0, NumGrf)

\* All even tiles, then all odd ones; the tree kernel writes and resets after each tile.
GemvPass(k, output, batch) ==
  LET tiles == [i \in 1 .. k.inputs |-> IF i <= CeilHalf(k.inputs) THEN 2 * (i - 1)
                                        ELSE 2 * (i - 1 - CeilHalf(k.inputs)) + 1]
      plain(i) == ComputeGemv(k, tiles[i], output, batch)
      tree(i) == ComputeGemv(k, i, output, batch)
                 \o Result(ResultCol(k, output, batch) + i * NumGrf) \o ResetGrfB
  IN  Control(TRUE, TRUE)
      \o (IF k.type = "GEMVTREE" THEN Concatenated(0, k.inputs - 1, tree)
          ELSE Concatenated(1, k.inputs, plain) \o Result(ResultCol(k, output, batch)))
      \o Control(FALSE, TRUE)

\* The zero row, for the tree kernel only.
ZeroRows ==
  [i \in 1 .. NumBanks * NumGrf |->
     Transaction("WRITE", (i - 1) \div NumGrf, ZeroRow, (i - 1) % NumGrf, Nil)]

ExecuteGemv(k) ==
  LET passes(n) == GemvPass(k, n \div k.batch, n % k.batch)
  IN  (IF k.type = "GEMVTREE" THEN Fenced(ZeroRows) ELSE <<>>)
      \o ParkIn \o ToHAB \o ProgramCrf(Program(k))
      \o Concatenated(0, k.outputs * k.batch - 1, passes) \o ToSB \o ParkOut

Execute(k) == IF k.type \in {"ADD", "MUL", "RELU"} THEN ExecuteEltwise(k) ELSE ExecuteGemv(k)

-----------------------------------------------------------------------------
(* What the host reads back                                                 *)

Place(bank, row, col) == <<bank, row + (col \div ColsPerRow), col % ColsPerRow>>
At(bank, row, col) == SetToBag({<<Place(bank, row, col)>>})

EltwiseExpected(k) ==
  LET value(b, c) == LET x == At(b, Input0Row, c)
                         y == At(b, Input1Row, c)
                     IN  CASE k.type = "ADD" -> x (+) y
                           [] k.type = "MUL" -> Times(x, y)
                           [] OTHER -> Relu(x)
      places == {<<b, c>> : b \in Bank, c \in 0 .. k.tiles * NumGrf - 1}
  IN  {[place |-> Place(x[1], ResultRow, x[2]), value |-> value(x[1], x[2])] : x \in places}

\* preloadGemv lays a tile's weights in the even or the odd bank of the block, by rows
\* of NumGrf; a block's register j has the inner product of its row j with the inputs.
PreloadCol(k, tile, output) == NumGrf * NumGrf * (output * CeilHalf(k.inputs) + (tile \div 2))
Products(k, pb, tile, output, batch, j) ==
  SetToBag({<<<<batch, tile, i, "in">>,
              Place(2 * pb + (tile % 2), 0, PreloadCol(k, tile, output) + j * NumGrf + i)>> :
              i \in 0 .. NumGrf - 1})

GemvExpected(k) ==
  LET passes == {<<o, b>> : o \in 0 .. k.outputs - 1, b \in 0 .. k.batch - 1}
      whole(pb, o, b, j) == SetToBag(UNION {DOMAIN Products(k, pb, t, o, b, j) : t \in 0 .. k.inputs - 1})
  IN  IF k.type = "GEMV"
      THEN {[place |-> Place(2 * pb + 1, 0, ResultCol(k, x[1], x[2]) + j),
             value |-> whole(pb, x[1], x[2], j)] : pb \in Block, x \in passes, j \in 0 .. NumGrf - 1}
      ELSE {[place |-> Place(2 * pb + 1, 0, ResultCol(k, x[1], x[2]) + t * NumGrf + j),
             value |-> Products(k, pb, t, x[1], x[2], j)] :
              pb \in Block, x \in passes, t \in 0 .. k.inputs - 1, j \in 0 .. NumGrf - 1}
           \cup {[place |-> <<b, ZeroRow, c>>, value |-> Nil] : b \in Bank, c \in 0 .. NumGrf - 1}

Expected(k) == IF k.type \in {"ADD", "MUL", "RELU"} THEN EltwiseExpected(k) ELSE GemvExpected(k)

=============================================================================
