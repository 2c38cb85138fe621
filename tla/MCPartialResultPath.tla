------------------------- MODULE MCPartialResultPath -------------------------
(* Two channels with two bank groups each, which send unequal numbers of    *)
(* records: several bursts, one burst, a partial burst, and none.           *)
EXTENDS CSCPartialResultPath

UnequalRecords == [b \in BG |-> CASE b = 0 -> 5 [] b = 1 -> 2 [] b = 2 -> 3 [] OTHER -> 0]
=============================================================================
