------------------------- MODULE MCMemoryController -------------------------
(* Small instances of MemoryController.  The timings keep the order of the *)
(* real ones: a write holds its row longer than the gap to the next write, *)
(* a refresh lasts longer than a row cycle.                                *)
EXTENDS MemoryController

SmallTiming ==
  [BL2 |-> 1, RL |-> 2, WL |-> 1, tCCDS |-> 1, tCCDL |-> 2, tRCDRD |-> 2, tRCDWR |-> 1,
   tRAS |-> 2, tRC |-> 3, tRP |-> 1, tRRDS |-> 1, tRRDL |-> 2, tRTPL |-> 2, tWR |-> 1,
   tWTRS |-> 1, tWTRL |-> 2, tRTRS |-> 1, tREFI |-> 10, tRFC |-> 3]

Place(r, b, row) == [rank |-> r, bank |-> b, row |-> row, column |-> 0]
ReadOf(p, token) == [write |-> FALSE, token |-> token, place |-> p]
WriteOf(p) == [write |-> TRUE, token |-> FALSE, place |-> p]

MixedRequests == {WriteOf(Place(0, 0, 0)), ReadOf(Place(0, 0, 0), FALSE),
                  ReadOf(Place(0, 0, 1), TRUE), WriteOf(Place(0, 1, 0)),
                  ReadOf(Place(1, 0, 0), FALSE)}
NoRequests == {}

RowStream == {WriteOf(Place(0, 0, 0))}
RowConflict == RowStream \cup {ReadOf(Place(0, 0, 1), FALSE)}
=============================================================================
