----------------------- MODULE MCBankGroupAccumulator -----------------------
(* A small instance of CSCBankGroupAccumulator. *)
EXTENDS CSCBankGroupAccumulator

Batches(st, g, n, payloads) ==
  [stream : {st}, generation : {g}, sequence : {n}, rows : payloads]

\* Two batches of each producer in the first generation, which share rows and hold
\* more rows than there are entries, and one batch each after a reset; the batch
\* with a row out of range is refused.
MCOffers ==
  UNION {Batches(0, 1, 1, {<<0>>, <<1, 0>>, <<NumRows>>}), Batches(0, 1, 2, {<<0>>, <<2>>}),
         Batches(1, 1, 1, {<<0>>, <<2, 1>>}),              Batches(1, 1, 2, {<<0>>}),
         Batches(0, 2, 1, {<<1, 0>>}),                     Batches(1, 2, 1, {<<1, 0>>})}
=============================================================================
