----------------------- MODULE MCFp16NativeExecution -----------------------
(* A small instance of CSCFp16NativeExecution: two channels of two bank    *)
(* groups.                                                                 *)
EXTENDS CSCFp16NativeExecution, TLC

Image(work) == [b \in 0 .. 3 |-> IF b \in DOMAIN work THEN work[b] ELSE <<>>]

\* A chunk and a half whose rows evict each other until every queue behind is full;
\* short columns in two bank groups of one channel, and of two channels.
SmallImages ==
  {Image(0 :> <<<<1, 2, 3, 1, 2, 3>>>>), Image(3 :> <<<<1, 2, 3, 1, 2, 2>>>>),
   Image(0 :> <<<<1>>>> @@ 1 :> <<<<2, 1, 3>>>>),
   Image(1 :> <<<<2>>>> @@ 2 :> <<<<1>>, <<3, 1>>>>)}

AllModes ==
  {COMPUTE_ONLY, BGA_VALIDATION, TRANSPORT_ONLY, END_TO_END_TIMED, SERIAL_VALIDATION,
   SERIAL_END_TO_END}
=============================================================================
