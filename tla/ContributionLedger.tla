------------------------- MODULE ContributionLedger -------------------------
(***************************************************************************)
(* What a bank group accumulator promises its owner, with no queue, slot,  *)
(* lookup or latency: the products it took over and has not handed out yet *)
(* form a set; it hands out records, each the sum of some of the products  *)
(* of one row; it never hands out a product twice and never lets a product *)
(* overtake an earlier one of the same stream and row; a reset forgets     *)
(* whatever is still held.                                                 *)
(***************************************************************************)
EXTENDS Naturals, Sequences

CONSTANT Product   \* records with at least the fields row, stream, sequence, index

VARIABLES
  held,      \* the products taken over and not handed out
  handed     \* the sequence of records handed out: [row, parts]

ledgerVars == <<held, handed>>

Given == UNION {handed[i].parts : i \in 1 .. Len(handed)}

\* p was produced before q by the same producer, for the same row.
Before(p, q) ==
  /\ p.stream = q.stream /\ p.row = q.row
  /\ \/ p.sequence < q.sequence
     \/ p.sequence = q.sequence /\ p.index < q.index

LedgerInit == held = {} /\ handed = <<>>

\* New products only: a retry of a batch adds nothing.
Take(products) ==
  /\ products \subseteq Product
  /\ products \cap (held \cup Given) = {}
  /\ held' = held \cup products
  /\ UNCHANGED handed

HandOut(parts) ==
  /\ parts # {}
  /\ \A p, q \in parts : p.row = q.row
  /\ \A p \in held \ parts, q \in parts : ~Before(p, q)
  /\ held' = held \ parts
  /\ handed' = Append(handed, [row |-> (CHOOSE p \in parts : TRUE).row, parts |-> parts])

Discard == held' = {} /\ UNCHANGED handed

LedgerNext ==
  \/ Take(held' \ held)
  \/ \E parts \in SUBSET held : HandOut(parts)
  \/ Discard

LedgerSpec == LedgerInit /\ [][LedgerNext]_ledgerVars
=============================================================================
