--------------------------- MODULE ResultDelivery ---------------------------
(***************************************************************************)
(* What the partial result path promises, with no packer, burst, buffer,   *)
(* cursor or latency: every record a bank group sent is added to the host  *)
(* result exactly once, the records of one bank group in the order it sent *)
(* them, and the path reports completion only when all of them are there.  *)
(***************************************************************************)
EXTENDS Naturals, Sequences, FiniteSets

CONSTANT Source   \* the bank groups

VARIABLES
  sent,      \* per source, the number of records sent: they are numbered from 1
  added,     \* the records added to the result, [bg, seq], in order
  complete   \* completion has been reported

deliveryVars == <<sent, added, complete>>

\* The records of each source appear in the order it sent them, without a gap.
InOrder(records, limit) ==
  \A i \in 1 .. Len(records) :
    LET b == records[i].bg
    IN  /\ records[i].seq = Cardinality({j \in 1 .. i : records[j].bg = b})
        /\ records[i].seq <= limit[b]

AllAdded ==
  \A b \in Source :
    Cardinality({i \in 1 .. Len(added) : added[i].bg = b}) = sent[b]

DeliveryInit ==
  /\ sent = [b \in Source |-> 0]
  /\ added = <<>>
  /\ complete = FALSE

Send(b) ==
  /\ ~complete
  /\ sent' = [sent EXCEPT ![b] = @ + 1]
  /\ UNCHANGED <<added, complete>>

Add ==
  /\ ~complete
  /\ Len(added') > Len(added)
  /\ SubSeq(added', 1, Len(added)) = added
  /\ InOrder(added', sent)
  /\ UNCHANGED sent

Report == AllAdded' /\ complete' = TRUE

DeliveryNext ==
  \/ \E b \in Source : Send(b)
  \/ Add /\ complete' = complete
  \/ Add /\ Report
  \/ Report /\ ~complete /\ UNCHANGED <<sent, added>>

DeliverySpec == DeliveryInit /\ [][DeliveryNext]_deliveryVars
=============================================================================
