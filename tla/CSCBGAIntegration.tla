-------------------------- MODULE CSCBGAIntegration --------------------------
(***************************************************************************)
(* Where the descriptor engines, the bank group accumulators of their rank *)
(* (PIMRank's part in it) and the partial result path meet: the batch an   *)
(* engine submits, the end of its producer, and the consumers that take    *)
(* the outputs of all bank groups in turn.  All are operators;             *)
(* CSCNativeExecution keeps the state and drives them.                     *)
(***************************************************************************)
EXTENDS Naturals, Sequences, FiniteSetsExt, SequencesExt

CONSTANTS
  NumBGs,               \* bank groups of the rank (4 in the source)
  InputQueueDepth, AccumulatorEntries, OutputQueueDepth, CompareLatency, AddLatency, NumRows,
  RecordsPerBurst, BufferCapacity, PendingCapacity, MaxInflightWrites, WriteLatency,
  MaxInflightReads, ReadLatency, ReturnQueueCapacity, ReductionQueueCapacity,
  ReduceRecordsPerCycle, ReduceLatency,
  AcceptsPerCycle       \* validation_consumer_ and partial_writeback_accepts_per_cycle

\* The constructors throw on anything else.
ASSUME IntegrationAssumption ==
  /\ NumBGs \in Nat \ {0}
  /\ {InputQueueDepth, AccumulatorEntries, OutputQueueDepth, NumRows} \subseteq Nat \ {0}

LocalBGs == 0 .. NumBGs - 1

Accumulator == INSTANCE BGAState WITH NumStreams <- 1      \* kCSCM7ALogicalStream is 0
Path == INSTANCE CSCPartialResultPath WITH
  Channels <- 1, RanksPerChannel <- 1, BankGroupsPerRank <- NumBGs,
  MaxRecords <- 0, path <- 0, drained <- 0

\* configureCSCBGAs: new accumulators of this generation.
NewAccumulators(generation) ==
  [bg \in LocalBGs |-> [Accumulator!BGAInit EXCEPT !.generation = generation]]

\* stepCSCBGAs: a throw of one is rethrown when all have made their step.
StepAccumulators(accumulators) ==
  [bg \in LocalBGs |-> CHOOSE t \in Accumulator!Stepped(accumulators[bg]) : TRUE]

StepThrew(accumulators) == \E bg \in LocalBGs : accumulators[bg].fault # "none"

\* finalDrainComplete of an accumulator, and no output of it is still to be taken.
Drained(accumulators) ==
  [bg \in LocalBGs |-> Accumulator!FinalDrainComplete(accumulators[bg])
                       /\ accumulators[bg].output = <<>>]

-----------------------------------------------------------------------------
(* The producer's side                                                     *)

\* submitCSCBGAPartialBatch: the envelope's checks throw, the accumulator answers.
SubmitThrows(a, batch) ==
  \/ batch.sequence \notin {a.last[0].sequence, a.last[0].sequence + 1}
  \/ batch.generation # a.generation

SubmitResult(a, batch) ==
  IF SubmitThrows(a, batch) THEN "EXCEPTION" ELSE Accumulator!OfferResult(a, batch)

Submit(a, batch) ==
  IF SubmitThrows(a, batch) THEN a ELSE Accumulator!OfferBatch(a, batch)

\* markCSCBGAProducerDone, requestCSCBGAFinalDrain
EndProducer(a) == Accumulator!RequestFinalDrain(Accumulator!MarkProducerDone(a, 0))

-----------------------------------------------------------------------------
(* The consumer's side                                                     *)

\* What the execution knows of the outputs it took: the round robin cursor, their
\* values (history; the statistics count them), result_valid_generation_, and
\* whether the host reduction was complete before this tick.
OutputInit ==
  [cursor |-> 0, handed |-> [bg \in LocalBGs |-> <<>>], valid |-> 0, reduced |-> FALSE]

\* A service in progress; refused: the path had no room, so this cycle's service ends.
Serving(accumulators, path, output) ==
  [accumulators |-> accumulators, path |-> path, output |-> output,
   served |-> 0, refused |-> FALSE, failed |-> FALSE, threw |-> FALSE]

\* acceptBGAOutput; transferCSCBGAOutput reserves before and commits after it, and
\* lets the throw of a record that is already being retired leave tick().
TakeOutput(s, bg, toPath) ==
  LET record == Head(s.accumulators[bg].output)
      identified == record.seq = Len(s.output.handed[bg]) + 1
  IN  IF ~identified THEN [s EXCEPT !.failed = TRUE]
      ELSE IF s.accumulators[bg].retiring THEN [s EXCEPT !.failed = ~toPath, !.threw = toPath]
      ELSE [s EXCEPT !.accumulators[bg] = Accumulator!AcceptOutput(@),
                     !.path = IF toPath THEN Path!CommitReserved(@, bg) ELSE @,
                     !.output.handed[bg] = Append(@, record.value),
                     !.output.cursor = (bg + 1) % NumBGs,
                     !.served = @ + 1]

Serve(s, bg, toPath) ==
  IF \/ s.refused \/ s.failed \/ s.threw \/ s.path.error
     \/ s.served = AcceptsPerCycle \/ s.accumulators[bg].output = <<>>
  THEN s
  ELSE IF toPath /\ ~Path!CanReserve(s.path, bg) THEN [s EXCEPT !.refused = TRUE]
  ELSE TakeOutput(s, bg, toPath)

\* serviceValidationBGAOutputs and servicePartialWritebackBGAOutputs: one sweep
\* over the bank groups from the cursor on.
Service(accumulators, path, output, toPath) ==
  LET after[n \in 0 .. NumBGs] ==
        IF n = 0 THEN Serving(accumulators, path, output)
        ELSE Serve(after[n - 1], (output.cursor + n - 1) % NumBGs, toPath)
  IN  after[NumBGs]

\* The contributions of the records taken so far.
TakenContributions(output) ==
  MapThenSumSet(LAMBDA bg : Len(FlattenSeq(output.handed[bg])), LocalBGs)

TakenRecords(output) == MapThenSumSet(LAMBDA bg : Len(output.handed[bg]), LocalBGs)

\* endToEndConservationValid: every product of the launch, in as many records at
\* every stage.  accepted: the partials the accumulators accepted.
EndToEndConservationValid(accepted, nnz, path, output) ==
  /\ accepted = nnz /\ TakenContributions(output) = nnz
  /\ TakenRecords(output) = path.counts.generated
  /\ path.counts.generated = path.counts.readRecords
  /\ path.counts.readRecords = path.counts.reduced
=============================================================================
