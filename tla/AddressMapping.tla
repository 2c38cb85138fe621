---------------------------- MODULE AddressMapping ----------------------------
(***************************************************************************)
(* AddrMapping, how every part of the memory reads an address, the         *)
(* channel MultiChannelMemorySystem picks with it, and PIMAddrManager,     *)
(* which builds the addresses of the host kernels.  An address is a number *)
(* whose bits are the fields of a scheme.                                  *)
(***************************************************************************)
EXTENDS Integers, Sequences, FiniteSets

CONSTANTS NumChans, NumRanks, NumBankGroups, NumBanks, NumRows,
          NumCols,       \* columns of a row, a burst takes BurstLength of them
          BurstLength, BusBytes

\* The smallest n with 2^n >= value.
uLog2(value) == Cardinality({n \in 0 .. 30 : 2^n < value})

NumBanksPerBg == NumBanks \div NumBankGroups
TransactionBits == uLog2(BusBytes * BurstLength)      \* byteOffsetWidth + colLowBitWidth

\* The widths of the fields; "inner" and "group" are the two parts of a bank.
BitWidth ==
  [chan  |-> uLog2(NumChans), rank |-> uLog2(NumRanks), bank |-> uLog2(NumBanks),
   group |-> uLog2(NumBankGroups), inner |-> uLog2(NumBanks) - uLog2(NumBankGroups),
   row   |-> uLog2(NumRows), col |-> uLog2(NumCols) - (TransactionBits - uLog2(BusBytes))]

\* The order in which a scheme takes its fields off the low end of an address.
Fields ==
  [Scheme1 |-> <<"bank", "col", "row", "rank", "chan">>,
   Scheme2 |-> <<"rank", "bank", "col", "row", "chan">>,
   Scheme3 |-> <<"row", "col", "bank", "rank", "chan">>,
   Scheme4 |-> <<"col", "row", "bank", "rank", "chan">>,
   Scheme5 |-> <<"bank", "rank", "col", "row", "chan">>,
   Scheme6 |-> <<"col", "rank", "bank", "row", "chan">>,
   Scheme7 |-> <<"chan", "bank", "rank", "col", "row">>,
   Scheme8 |-> <<"chan", "inner", "group", "col", "row", "rank">>]

\* diffBitWidth: the low bits of what the earlier fields have left of the address.
Field(scheme, address, name) ==
  LET order == Fields[scheme]
      below[i \in 1 .. Len(order)] ==
        IF i = 1 THEN TransactionBits ELSE below[i - 1] + BitWidth[order[i - 1]]
      at == CHOOSE i \in DOMAIN order : order[i] = name
  IN  (address \div 2^below[at]) % 2^BitWidth[name]

addressMapping(scheme, address) ==
  [chan |-> Field(scheme, address, "chan"),
   rank |-> Field(scheme, address, "rank"),
   bank |-> IF scheme # "Scheme8" THEN Field(scheme, address, "bank")
            ELSE Field(scheme, address, "inner") + 2^BitWidth.inner * Field(scheme, address, "group"),
   row  |-> Field(scheme, address, "row"),
   col  |-> Field(scheme, address, "col")]

\* MultiChannelMemorySystem: with one channel the address is not looked at.
findChannelNumber(scheme, address) ==
  IF NumChans = 1 THEN 0 ELSE addressMapping(scheme, address).chan

\* PIMAddrManager counts the same widths out for itself ...
PIMBits ==
  [group |-> uLog2(NumBankGroups), bank |-> uLog2(NumBanks) - uLog2(NumBankGroups),
   row |-> uLog2(NumRows), chan |-> uLog2(NumChans), col |-> uLog2(NumCols \div BurstLength),
   offset |-> uLog2(BurstLength * BusBytes)]

\* ... and puts the fields together for Scheme8, the only one it knows.
addrGen(chan, ra, bankgroup, bank, row, col) ==
  LET inRank  == ra * 2^PIMBits.row + row
      inRow   == inRank * 2^PIMBits.col + col
      inGroup == inRow * 2^PIMBits.group + bankgroup
      inBank  == inGroup * 2^PIMBits.bank + bank
  IN  (inBank * 2^PIMBits.chan + chan) * 2^PIMBits.offset

=============================================================================
