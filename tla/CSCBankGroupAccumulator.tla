----------------------- MODULE CSCBankGroupAccumulator -----------------------
(***************************************************************************)
(* One bank group accumulator under its owner: producers offer batches,    *)
(* retry them, finish; the owner requests the final drain, accepts output  *)
(* records, aborts to a newer generation; the memory clock steps it.       *)
(***************************************************************************)
EXTENDS BGAState

CONSTANTS
  Offers,          \* the batches a producer may present, ill-formed ones included
  MaxGeneration    \* bound of the model: abortReset goes no further

ASSUME OffersAssumption ==
  /\ Offers \subseteq [stream : Nat, generation : Nat, sequence : Nat, rows : Seq(Nat)]
  /\ MaxGeneration \in Nat \ {0}

VARIABLES
  bga,       \* the accumulator
  handed     \* history: the records its owner has accepted, [row, value]

vars == <<bga, handed>>

Init == bga = BGAInit /\ handed = <<>>

Offer(b) == bga' = OfferBatch(bga, b) /\ UNCHANGED handed

ProducerDone(st) == bga' = MarkProducerDone(bga, st) /\ UNCHANGED handed

RequestDrain == bga' = RequestFinalDrain(bga) /\ UNCHANGED handed

\* acceptOutput throws unless a record is there and not already accepted.
Accept ==
  /\ bga.output # <<>>
  /\ ~bga.retiring
  /\ bga' = AcceptOutput(bga)
  /\ LET front == Head(bga.output)
     IN  handed' = Append(handed, [row |-> front.row, value |-> front.value])

Abort(g) == g > bga.generation /\ bga' = AbortReset(bga, g) /\ UNCHANGED handed

Tick == Step(bga, bga') /\ UNCHANGED handed

\* A throw out of step() ends the simulation: nothing follows a fault.
Next ==
  /\ bga.fault = "none"
  /\ \/ \E b \in Offers : Offer(b)
     \/ \E st \in Stream : ProducerDone(st)
     \/ RequestDrain
     \/ Accept
     \/ \E g \in 1 .. MaxGeneration : Abort(g)
     \/ Tick

Spec == Init /\ [][Next]_vars

\* The memory clock never stops (MemorySystem::update steps every BGA of its
\* ranks), the owner accepts what is there, and a producer whose batch was not
\* taken presents it again on every one of its ticks.
Fairness ==
  /\ WF_vars(bga.fault = "none" /\ Tick)
  /\ WF_vars(bga.fault = "none" /\ Accept)
  /\ \A st \in Stream :
       WF_vars(/\ bga.fault = "none"
               /\ bga.presented[st] # NoBatch
               /\ Offer(bga.presented[st]))

FairSpec == Spec /\ Fairness

-----------------------------------------------------------------------------
(* Invariants *)

Operation == [kind : {"NONE", "LOOKUP", "MERGE", "INSERT"}, input : Contribution,
              slot : Slot, remaining : Nat]

PendingMiss == [active : BOOLEAN, input : Contribution, victim : Slot, eviction : Nat,
                awaiting : BOOLEAN]

Record == [row : Row, value : Seq(Contribution), seq : Nat, slot : Slot,
           reason : {"CAPACITY_EVICTION", "FINAL_DRAIN"}]

Entry == [valid : BOOLEAN, reserved : BOOLEAN, row : Row, value : Seq(Contribution),
          age : Nat]

\* What invariantError can report.
Faults ==
  {"none", "retirement lost reserved slot", "duplicate row tag detected by lookup",
   "full miss has no non-reserved victim", "merge target changed",
   "insert target occupied/reserved", "output invalid/reserved accumulator slot",
   "accepted batch lost reserved FIFO capacity",
   "duplicate/reservation accumulator invariant", "contribution conservation invariant"}

\* The state of a BGA, field by field.
BGAType ==
  [generation : Nat \ {0},
   queue : [Stream -> Seq(Contribution)],
   presented : [Stream -> Batch], accepted : [Stream -> Batch], last : [Stream -> Batch],
   done : [Stream -> BOOLEAN],
   acc : [Slot -> Entry],
   output : Seq(Record),
   op : Operation,
   miss : PendingMiss,
   retiring : BOOLEAN, draining : BOOLEAN,
   rr : Stream, age : Nat, outSeq : Nat,
   taken : Nat, retired : Nat, aborted : Nat,
   fault : Faults]

\* Every queue stays within its configured depth: the input FIFO of a stream
\* (together with the batch accepted but not yet visible) and the output queue.
QueuesBounded ==
  /\ \A st \in Stream :
       Len(bga.queue[st]) + Len(bga.accepted[st].rows) <= InputQueueDepth
  /\ Len(bga.output) <= OutputQueueDepth

TypeOK ==
  /\ bga \in BGAType
  /\ handed \in Seq([row : Row, value : Seq(Contribution)])

\* None of the throws of invariantError is reachable, by any sequence of calls:
\* the target of a merge is still there when the adder is done, the target of an
\* insert is still free, a full miss finds a victim, an accepted batch finds its
\* room, a retired record still owns its slot, and the checks that end step() pass.
NoInvariantError == bga.fault = "none"

\* No sequence of calls leaves the declared domains or reaches an invariantError.
SafeState == TypeOK /\ NoInvariantError

\* While anything may still be added, at most one record is on its way out, and
\* then nothing is being compared or added: an eviction excludes the datapath, so
\* a lookup never misses a row only because its entry is leaving.
EvictionExcludesDatapath ==
  \/ bga.output = <<>>
  \/ bga.miss.active /\ bga.op = NoOperation /\ Len(bga.output) = 1
  \/ bga.draining /\ bga.op = NoOperation /\ ~InputPending(bga)

\* The additions into one row follow the order each producer sent them in, across
\* records, so timing never reorders the FP32 additions of one row and stream.
AdditionOrder ==
  LET sums == [i \in 1 .. Len(handed) |-> handed[i].value]
                \o [i \in 1 .. Len(bga.output) - (IF bga.retiring THEN 1 ELSE 0) |->
                      bga.output[i + (IF bga.retiring THEN 1 ELSE 0)].value]
                \o [k \in 1 .. AccumulatorEntries |->
                      IF k - 1 \in LiveSlots(bga) THEN bga.acc[k - 1].value ELSE <<>>]
      precedes(p, q) == \/ p.generation < q.generation
                        \/ p.generation = q.generation /\ p.sequence < q.sequence
                        \/ /\ p.generation = q.generation /\ p.sequence = q.sequence
                           /\ p.index < q.index
      sameSource(p, q) == p.row = q.row /\ p.stream = q.stream
  IN  \A i, j \in 1 .. Len(sums) :
        \A m \in 1 .. Len(sums[i]), n \in 1 .. Len(sums[j]) :
          /\ sameSource(sums[i][m], sums[j][n])
          /\ i < j \/ (i = j /\ m < n)
          => precedes(sums[i][m], sums[j][n])

-----------------------------------------------------------------------------
(* The ledger it implements *)

Held(s) ==
  (UNION {Range(s.queue[st]) \cup Range(Contributions(s.accepted[st])) : st \in Stream})
  \cup (IF s.op # NoOperation THEN {s.op.input} ELSE {})
  \cup (IF s.miss.active THEN {s.miss.input} ELSE {})
  \cup (UNION {Range(s.acc[k].value) : k \in LiveSlots(s)})
  \cup (UNION {Range(s.output[i].value) :
                 i \in (IF s.retiring THEN 2 ELSE 1) .. Len(s.output)})

Ledger == INSTANCE ContributionLedger WITH
  Product <- Contribution,
  held    <- Held(bga),
  handed  <- [i \in 1 .. Len(handed) |->
                [row |-> handed[i].row, parts |-> Range(handed[i].value)]]

\* Every product accepted is handed out at most once, in a record of its own row,
\* never ahead of an earlier one of its stream and row, whatever the interleaving
\* of offers, retries, evictions, drains and resets.
ImplementsLedger == Ledger!LedgerSpec

-----------------------------------------------------------------------------
(* Liveness *)

\* A requested final drain ends with everything handed out, unless a reset
\* cancels it.
DrainCompletes == bga.draining ~> (FinalDrainComplete(bga) \/ ~bga.draining)

\* A batch that met backpressure is accepted in the end (or a reset drops it).
BackpressureEnds ==
  \A st \in Stream : bga.presented[st] # NoBatch ~> bga.presented[st] = NoBatch

\* What the host waits for on the accumulator comes: its drain, and the acceptance
\* of every batch that met backpressure.
Progress == DrainCompletes /\ BackpressureEnds
=============================================================================
