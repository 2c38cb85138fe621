------------------------- MODULE MCPIMRankTargeted -------------------------
(* Small instances of PIMRankTargeted: the .cfg files give the constants.  *)
EXTENDS PIMRankTargeted

BothBlocks == {{0, 1}}
=============================================================================
