------------------------- MODULE MCNativeExecution -------------------------
(* Small instances of CSCNativeExecution with two bank groups.             *)
EXTENDS CSCNativeExecution

Descriptor(rows) == [rows |-> rows, valid |-> TRUE, xStays |-> TRUE]
D(chunks) == Descriptor([c \in 1 .. chunks |-> <<0>>])
Malformed == [D(1) EXCEPT !.valid = FALSE]
LosesX == [D(1) EXCEPT !.xStays = FALSE]

Image(first, second) == [bg \in 0 .. 1 |-> IF bg = 0 THEN first ELSE second]

\* First imbalanced work, an empty bank group, and two ways to fail; then one bank
\* group's work on the engines, flags and rank state the first launch left behind.
Relaunched ==
  <<{Image(<<D(2)>>, <<D(1)>>), Image(<<>>, <<D(1), D(1)>>), Image(<<LosesX>>, <<Malformed>>)},
    {Image(<<>>, <<D(2)>>)}>>

\* One launch, of two bank groups that succeed or of one that fails.
Single == <<{Image(<<D(1)>>, <<D(1)>>), Image(<<LosesX>>, <<>>)}>>

\* With accumulators of one entry: rows that merge and evict each other while the
\* FIFO and the writes fill up, and an empty bank group.
Contended == {Image(<<Descriptor(<<<<0, 1, 0, 1>>, <<1, 0, 1>>>>)>>, <<>>)}
\* One chunk in each bank group, whose records come at the same time.
Short == {Image(<<Descriptor(<<<<1>>>>)>>, <<Descriptor(<<<<0, 1>>>>)>>)}

Policy(barrier, serialized, consumer, calls) ==
  [barrier |-> barrier, serialized |-> serialized, consumer |-> consumer, calls |-> calls]
\* The production default, serialized requests, and the lockstep reference.
RawPolicies ==
  {Policy(FALSE, FALSE, "RAW", {"flush", "flushBG", "reset"}),
   Policy(FALSE, TRUE, "RAW", {"flushBG", "reset"}),
   Policy(TRUE, FALSE, "RAW", {"flushBG", "reset"})}
\* With accumulators: graceful and incomplete flushes at every point, or a reset
\* with as many reads as may be outstanding.
BGAPolicies ==
  {Policy(FALSE, TRUE, "WRITEBACK", {"flush"}), Policy(FALSE, FALSE, "WRITEBACK", {"reset"}),
   Policy(TRUE, TRUE, "VALIDATION", {"flushBG"})}
AllPolicies == RawPolicies \cup BGAPolicies
AllImages ==
  [p \in AllPolicies |->
     IF p.consumer = "RAW" THEN Relaunched
     ELSE IF p.consumer = "VALIDATION" THEN <<Short>> ELSE <<Contended>>]

ProductionPolicy == {Policy(FALSE, FALSE, "RAW", {"flush", "flushBG", "resetBG"})}
ProductionImages == [p \in ProductionPolicy |-> Single]
=============================================================================
