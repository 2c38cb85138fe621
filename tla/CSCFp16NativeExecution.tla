----------------------- MODULE CSCFp16NativeExecution -----------------------
(***************************************************************************)
(* csc_descriptor::CSCFp16NativeExecution and its driver runFp16M7: the    *)
(* engines of all bank groups, an accumulator each, the partial result     *)
(* path, and the four execution modes, which leave the later stages out.   *)
(*                                                                         *)
(* tick() is one action: the memory system returns reads, every            *)
(* accumulator makes a step, every engine a tick, the outputs go on, the   *)
(* path makes a step.  The memory system is modelled by what tick() sees   *)
(* of it: it may refuse any read, holds those it accepted for any time and *)
(* returns at most one of a channel per cycle.  trace_ of the ingress      *)
(* adapter or capture sink is 'emitted', that of the consumer of outputs   *)
(* is 'handed'.  Event times other than the completion flags are left out. *)
(***************************************************************************)
EXTENDS Integers, Sequences, FiniteSets, FiniteSetsExt, SequencesExt

CONSTANTS
  Half, InputQueueDepth, AccumulatorEntries, OutputQueueDepth, CompareLatency, AddLatency,
  Channels, BankGroupsPerRank, RecordsPerBurst, PendingCapacity, WriteLatency,
  MaxInflightWrites, ReadLatency, MaxInflightReads, ReduceRecordsPerCycle, ReduceLatency,
  AcceptsPerCycle,   \* validation_output_accepts_per_cycle_
  Rejects,           \* write_reject_attempts, read_reject_attempts
  Modes,             \* the execution modes to be checked
  Images             \* the images: per bank group, a sequence of descriptors

\* The validateConfig of the accumulator and CSCFp16TransportConfig::validate throw
\* on anything else, except that they let a queue be shorter than a batch: such a
\* queue never takes a full batch.
ASSUME Fp16NativeAssumption ==
  /\ {Half, InputQueueDepth, AccumulatorEntries, OutputQueueDepth, CompareLatency, AddLatency,
      Channels, BankGroupsPerRank, RecordsPerBurst, PendingCapacity, WriteLatency,
      MaxInflightWrites, ReadLatency, MaxInflightReads, ReduceRecordsPerCycle,
      ReduceLatency, AcceptsPerCycle} \subseteq Nat \ {0}
  /\ InputQueueDepth >= Half
  /\ Rejects \in Nat /\ Images # {} /\ Modes # {}

Accumulator == INSTANCE Fp16BGAState
Engine == INSTANCE CSCFp16DescriptorEngine
Path == INSTANCE CSCFp16PartialResultPath

BG == Path!BG

\* What each mode of runFp16M7 constructs; serial: ingress SERIAL_EVENT.
Mode(bga, serial, transport, reduce) ==
  [bga |-> bga, serial |-> serial, transport |-> transport, reduce |-> reduce]
COMPUTE_ONLY     == Mode(FALSE, FALSE, FALSE, FALSE)
BGA_VALIDATION   == Mode(TRUE, FALSE, FALSE, FALSE)
TRANSPORT_ONLY   == Mode(TRUE, FALSE, TRUE, FALSE)
END_TO_END_TIMED == Mode(TRUE, FALSE, TRUE, TRUE)
SERIAL_VALIDATION == Mode(TRUE, TRUE, FALSE, FALSE)
SERIAL_END_TO_END == Mode(TRUE, TRUE, TRUE, TRUE)

VARIABLES
  mode, image,
  unit,     \* per bank group: engine, adapter, accumulator and the two traces
  path,
  run,      \* the rest of the execution: flags, reads outstanding, cursor
  beat      \* flips with every cycle in which the memory system is forthcoming

vars == <<mode, image, unit, path, run, beat>>

UnitInit ==
  [engine |-> Engine!EngineInit, batch |-> <<>>, full |-> FALSE,
   bga |-> Accumulator!BGAInit, signaled |-> FALSE, emitted |-> <<>>, handed |-> <<>>]

-----------------------------------------------------------------------------
(* runFp16M7 before and after the execution                                *)

Nnz(descriptors) == MapThenSumSet(LAMBDA k : Len(descriptors[k]), DOMAIN descriptors)

\* Mutant: the last, partly filled burst is not counted.
RequiredBursts_Floor(descriptors) == Nnz(descriptors) \div RecordsPerBurst

\* preflightFp16ResultRegion: in the worst case no two products are merged.
RequiredBursts(descriptors) ==
  Nnz(descriptors) \div RecordsPerBurst + (IF Nnz(descriptors) % RecordsPerBurst = 0 THEN 0 ELSE 1)

\* buffer_capacity_bursts_per_bg: every bank group gets the largest region.
RegionBursts == Max({1} \cup {RequiredBursts(image[b]) : b \in BG})

\* reduceCapturedFp16BGAOutputs: bank group by bank group, in output sequence.
ReduceCaptured ==
  FlattenSeq([i \in 1 .. Cardinality(BG) |->
                [k \in DOMAIN unit[i - 1].handed |-> [bg |-> i - 1, seq |-> k]]])

-----------------------------------------------------------------------------
(* The parts of tick(), in the order they run                              *)

\* tokenComplete
Returned(u, reads, b) ==
  IF \E t \in reads : t.bg = b
  THEN [u EXCEPT !.engine = Engine!Complete(@, CHOOSE t \in reads : t.bg = b)]
  ELSE u

\* BGAIngressAdapter::flush; then the accumulator's step.
Flushed(u) ==
  IF u.full /\ Accumulator!CanAcceptBatch(u.bga, u.batch, Half)
  THEN [u EXCEPT !.bga = Accumulator!AcceptBatch(@, u.batch), !.batch = <<>>, !.full = FALSE]
  ELSE u

AccumulatorCycle(u) ==
  LET flushed == Flushed(u)
  IN  IF mode.bga THEN [flushed EXCEPT !.bga = Accumulator!BGAStep(@)] ELSE flushed

\* ready of the engine's sink.  M7 gives a capture sink room for every product.
SinkReady(u) == mode.bga => IF mode.serial THEN Accumulator!Ready(u.bga) ELSE ~u.full

\* BGAIngressAdapter::accept.  A batch is the products of one half of a chunk.
Stage(u, event, valid) ==
  LET first == (event.lane \div Half) * Half
      expected == Min({Half, valid - first})
      staged == Append(u.batch, event)
  IN  IF ~mode.bga THEN u
      ELSE IF mode.serial THEN [u EXCEPT !.bga = Accumulator!AcceptBatch(@, <<event>>)]
      ELSE [u EXCEPT !.batch = staged, !.full = Len(staged) = expected]

Emits(u) == u.engine.state = "EMIT_PARTIALS" /\ SinkReady(u)

EngineTick(u, b, accepted) ==
  LET event == Engine!EventOf(u.engine, image[b])
      sent == IF Emits(u)
              THEN [Stage(u, event, Engine!ValidCount(u.engine)) EXCEPT !.emitted = Append(@, event)]
              ELSE u
  IN  [sent EXCEPT !.engine = Engine!TickEngine(@, image[b], accepted, SinkReady(u))]

\* Mutant: the producer is reported done with a batch still staged.
Signal_AdapterFull(u) ==
  IF mode.bga /\ u.engine.state = "DONE" /\ ~u.signaled
  THEN [u EXCEPT !.bga = Accumulator!Finish(@), !.signaled = TRUE]
  ELSE u

Signal(u) ==
  IF mode.bga /\ u.engine.state = "DONE" /\ ~u.signaled /\ u.batch = <<>> /\ ~u.full
  THEN [u EXCEPT !.bga = Accumulator!Finish(@), !.signaled = TRUE]
  ELSE u

\* The bank groups that may hand over an output in this cycle: to the path when
\* it accepts it, to the validation sinks in turn and so many in all.
Offering(units) == {b \in BG : units[b].bga.outputs # <<>>}

Scanned(start) == [i \in 1 .. Cardinality(BG) |-> (start + i - 1) % Cardinality(BG)]

NextOutput(served, next) ==
  IF served = <<>> THEN next ELSE (served[Len(served)] + 1) % Cardinality(BG)

Served(units, p, next) ==
  LET offers == Offering(units)
      turn == SelectSeq(Scanned(next), LAMBDA b : b \in offers)
  IN  IF mode.transport
      THEN SelectSeq(Scanned(0), LAMBDA b :
             b \in offers /\ Path!PathAccepts(p, b, Head(units[b].bga.outputs)))
      ELSE SubSeq(turn, 1, Min({AcceptsPerCycle, Len(turn)}))

HandOver(u) ==
  [u EXCEPT !.handed = Append(@, Head(u.bga.outputs)), !.bga = Accumulator!AcceptOutput(@)]

Accepted(units, p) ==
  IF mode.transport
  THEN FoldLeft(LAMBDA q, b : Path!PathAccept(q, b, Head(units[b].bga.outputs)),
                p, SelectSeq(Scanned(0), LAMBDA b : b \in Offering(units)))
  ELSE p

DrainComplete(units) == [b \in BG |-> Accumulator!FinalDrainComplete(units[b].bga)]

AllEnginesDone(units) == \A b \in BG : units[b].engine.state = "DONE"
AllBGAsDone(units) == mode.bga => \A b \in BG : DrainComplete(units)[b]

Done ==
  /\ run.launched /\ ~run.failed
  /\ run.computeDone /\ run.outstanding = {} /\ AllEnginesDone(unit)
  /\ mode.bga => run.bgaDone /\ AllBGAsDone(unit)
  /\ mode.transport => Path!PathDone(path)

Threw == \E b \in BG : unit[b].bga.fault # "none"

-----------------------------------------------------------------------------
(* launch and tick                                                         *)

Init ==
  /\ mode \in Modes /\ image \in Images
  /\ unit = [b \in BG |-> UnitInit]
  /\ path = Path!PathInit(Rejects)
  /\ run = [launched |-> FALSE, failed |-> FALSE, outstanding |-> {}, nextOutput |-> 0,
            computeDone |-> FALSE, bgaDone |-> FALSE]
  /\ beat = FALSE

Launch ==
  /\ ~run.launched
  /\ unit' = [b \in BG |-> [unit[b] EXCEPT !.engine = Engine!LaunchEngine(@, image[b])]]
  /\ run' = [run EXCEPT !.launched = TRUE]
  /\ UNCHANGED <<mode, image, path, beat>>

\* returning: the reads that come back, at most one per channel.
OnePerChannel(reads) ==
  \A s, t \in reads : s # t => s.bg \div BankGroupsPerRank # t.bg \div BankGroupsPerRank

\* The engines tick in turn up to the first that fails, which is not signalled.
Ticked(units, accepted, failed) ==
  LET all == [b \in BG |-> EngineTick(units[b], b, b \in accepted)]
      failing == {b \in BG : all[b].engine.state = "ERROR"}
  IN  [b \in BG |-> IF failed \/ \E f \in failing : f < b THEN units[b]
                    ELSE IF b \in failing THEN all[b]
                    ELSE Signal(all[b])]

\* One call of tick(), given the reads that return and the requests accepted.
Tick(returning, accepted) ==
  /\ run.launched /\ ~run.failed /\ ~Done /\ ~Threw
  /\ \E m \in {[b \in BG |-> Returned(unit[b], returning, b)]} :
     \E mismatch \in {\E b \in BG : m[b].engine.state = "ERROR"} :
     /\ accepted \subseteq {b \in BG : ~mismatch /\ Engine!Attempts(m[b].engine)}
     /\ \E a \in {[b \in BG |-> AccumulatorCycle(m[b])]} :
        \E e \in {Ticked(a, accepted, mismatch)} :
        \E served \in {Served(e, path, run.nextOutput)} :
        \E h \in {[b \in BG |-> IF Contains(served, b) THEN HandOver(e[b]) ELSE e[b]]} :
        \E p \in {IF mode.transport
                  THEN Path!PathStep(Accepted(e, path), DrainComplete(h), mode.reduce, RegionBursts)
                  ELSE path} :
        \E reads \in {(run.outstanding \ returning)
                      \cup {Engine!RequestOf(b, a[b].engine) : b \in accepted}} :
          /\ unit' = h
          /\ path' = p
          /\ run' = [run EXCEPT
                       !.outstanding = reads,
                       !.failed = mismatch \/ p.error \/ \E b \in BG : e[b].engine.state = "ERROR",
                       !.nextOutput = IF mode.transport THEN @ ELSE NextOutput(served, @),
                       !.computeDone = @ \/ (AllEnginesDone(e) /\ reads = {}),
                       !.bgaDone = @ \/ AllBGAsDone(h)]
  /\ UNCHANGED <<mode, image>>

\* The memory system of this cycle accepts some reads and returns some; it is
\* forthcoming if it accepts all it is offered and returns one, if it owes any.
TickAny ==
  \E returning \in SUBSET run.outstanding, accepted \in SUBSET BG :
    /\ OnePerChannel(returning)
    /\ Tick(returning, accepted)
    /\ IF /\ accepted = {b \in BG : Engine!Attempts(unit[b].engine)}
          /\ returning = {} => run.outstanding = {}
       THEN beat' = ~beat ELSE UNCHANGED beat

\* drive() ends with the execution.
Stopped == Done \/ run.failed \/ Threw
Stop == Stopped /\ UNCHANGED vars

Next == Launch \/ TickAny \/ Stop

Spec == Init /\ [][Next]_vars

\* drive() launches, then calls tick() again and again, and again and again the
\* memory system is forthcoming.  (Only TickAny changes beat.)
Start == ~run.launched /\ run' = [run EXCEPT !.launched = TRUE]
Beat == run.launched /\ ~Stopped /\ beat' = ~beat

FairSpec == Spec /\ WF_run(Start) /\ WF_beat(Beat)

-----------------------------------------------------------------------------
(* Properties                                                              *)

\* The products a bank group owes, in order: every non-zero of its descriptors
\* with its own row, and with the vector element of its column.
Products(descriptors) ==
  FlattenSeq([k \in DOMAIN descriptors |->
    [n \in DOMAIN descriptors[k] |->
       [row |-> descriptors[k][n], d |-> k, c |-> (n - 1) \div (2 * Half),
        lane |-> (n - 1) % (2 * Half), factor |-> k]]])

\* Nothing fails and nothing throws: a read that returns is the one its engine
\* waits for, no output is out of sequence, and every conservation check of the
\* accumulators and of the path holds when it is made.
NoFailure == ~run.failed /\ ~Threw

\* Every engine emits the products of its bank group in order, each made of the
\* value, the vector element and the row index that belong together, whatever
\* order the operands arrive in (stage, executeMultiply, tick).
OperandsBelongTogether ==
  \A b \in BG : IsPrefix(unit[b].emitted, Products(image[b]))

\* The records of one row, in the order they are handed over, add up its products
\* in the order they were emitted, none lost, doubled or overtaken, through
\* merges, evictions and the drain (the FP16 sum is reproducible).
RowOrder ==
  mode.bga =>
    \A b \in BG :
      \A r \in {unit[b].emitted[i].row : i \in DOMAIN unit[b].emitted} :
        LET records == SelectSeq(unit[b].handed, LAMBDA o : o.row = r)
        IN  IsPrefix(FlattenSeq([i \in DOMAIN records |-> records[i].value]),
                     SelectSeq(unit[b].emitted, LAMBDA v : v.row = r))

\* Once an accumulator drains a slot nothing of its bank group is left on the way
\* to it: no eviction follows, and no row is drained twice.
DrainedOnce ==
  \A b \in BG : \A i, j \in DOMAIN unit[b].handed :
    LET first == unit[b].handed[i]
        later == unit[b].handed[j]
    IN  i < j /\ first.reason = "FINAL_DRAIN" =>
          later.reason = "FINAL_DRAIN" /\ later.row # first.row

\* What an accumulator hands over is the sum of each row in order, ended by one drain.
RowsHandedOver == RowOrder /\ DrainedOnce

\* The region of the preflight is enough: the bursts of a bank group never
\* exceed the ones it requires for that bank group, so no write waits for the
\* buffer that only the read back, after the last write, would empty.
RegionSuffices ==
  mode.transport =>
    \A b \in BG : path.bg[b].nextBurst - 1 <= RequiredBursts(image[b])

\* A well-formed image runs without a failure, in the region its preflight asked for.
SafeState == NoFailure /\ RegionSuffices

\* The host adds the records in the order in which the validation mode reduces
\* the captured outputs, whatever order the reads return in: both give one y.
ReductionIsCanonical ==
  /\ IsPrefix(path.added, ReduceCaptured)
  /\ Done /\ mode.reduce => path.added = ReduceCaptured

\* When the execution reports completion, every product has been emitted and,
\* with accumulators, is in exactly one record that was handed over.
DoneIsComplete ==
  Done =>
    \A b \in BG :
      /\ unit[b].emitted = Products(image[b])
      /\ mode.bga =>
           MapThenSumSet(LAMBDA i : Len(unit[b].handed[i].value), DOMAIN unit[b].handed)
             = Nnz(image[b])

\* Every execution of every mode completes.
Completes == run.launched ~> Done
=============================================================================
