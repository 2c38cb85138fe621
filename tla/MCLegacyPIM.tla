----------------------------- MODULE MCLegacyPIM -----------------------------
(***************************************************************************)
(* Three PIM blocks with two registers each.  Elementwise kernels of one   *)
(* and two tiles; products with an odd number of input tiles for a batch   *)
(* of two, and with two output tiles; and a product of four input tiles    *)
(* whose partial sums are written out one by one, by a program that jumps  *)
(* back to its start.                                                      *)
(***************************************************************************)
EXTENDS LegacyPIM

\* Every scheme takes the addresses of a small memory to all of its places, one to one, and
\* addrGen is the way back.
Small == INSTANCE AddressMapping WITH NumChans <- 2, NumRanks <- 2, NumBankGroups <- 2, NumBanks <- 4,
                                      NumRows <- 4, NumCols <- 8, BurstLength <- 4, BusBytes <- 8
SmallAddresses == {32 * n : n \in 0 .. 127}
SmallPlaces == [chan : 0 .. 1, rank : 0 .. 1, bank : 0 .. 3, row : 0 .. 3, col : 0 .. 1]
ASSUME SchemesAssumption ==
  /\ \A scheme \in DOMAIN Small!Fields :
       {Small!addressMapping(scheme, a) : a \in SmallAddresses} = SmallPlaces
  /\ \A p \in SmallPlaces :
       Small!addressMapping("Scheme8", Small!addrGen(p.chan, p.rank, p.bank \div 2, p.bank % 2,
                                                     p.row, p.col)) = p

MCKernels == {Eltwise("ADD", 2), Eltwise("MUL", 1), Eltwise("RELU", 2),
              Gemv("GEMV", 3, 1, 2), Gemv("GEMV", 2, 2, 1), Gemv("GEMVTREE", 4, 1, 1)}

\* Nothing open, a data row open everywhere, or in a bank no switch command goes to.
MCOpenRows == {[b \in Bank |-> Closed], [b \in Bank |-> Input0Row],
               [b \in Bank |-> IF b = 3 THEN ResultRow ELSE Closed]}

=============================================================================
