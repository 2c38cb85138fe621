------------------------ MODULE CSCDescriptorEngine ------------------------
(***************************************************************************)
(* CSCDescriptorEngine: the state machine that walks the descriptors of    *)
(* one bank group.  Per chunk of up to eight nonzeros it reads three       *)
(* operands from memory (x once per descriptor), submits one BG-targeted   *)
(* multiplication to its rank, waits for the completion and emits the      *)
(* partials, to the host's sink or as a batch to the bank group's          *)
(* accumulator.  Every step is an operator on the engine record; what a    *)
(* step asks of the memory system, the rank or the accumulator is a        *)
(* parameter.  CSCNativeExecution drives these operators.                  *)
(*                                                                         *)
(* A descriptor is abstracted to the rows of each of its chunks, whether   *)
(* it is well-formed when it is fetched, and whether its x operand still   *)
(* exists when the read completes.  bga_config_.enabled is bgaGeneration   *)
(* being nonzero, and descriptor_chunk_ordinal_ is epoch + 1.  Addresses,  *)
(* operand values and performance counters are left out.                   *)
(***************************************************************************)
EXTENDS Naturals, Sequences, FiniteSets

CONSTANT NoOp      \* target_operation_valid_ is false

\* It is not an operation.
ASSUME NoOpAssumption == NoOp \notin [id : Nat, mask : {{0}}, generation : Nat]

OperandKinds == <<"X_READ", "VALUE_READ", "INDEX_READ">>     \* the order of issueWaiting
KindSet == {"X_READ", "VALUE_READ", "INDEX_READ"}
EngineStates ==
  {"IDLE", "FETCH_DESCRIPTOR", "LOAD_X", "FETCH_VALUE", "FETCH_ROW_INDEX", "WAIT_OPERANDS",
   "SIMD_MUL", "WAIT_TARGET_GRANT", "WAIT_TARGET_COMPLETION", "EMIT_PARTIALS",
   "ADVANCE_CHUNK", "NEXT_DESCRIPTOR", "COMPLETE_PRODUCER", "DONE", "FLUSHING", "ERROR"}

Tracker == INSTANCE CSCRequestTracker WITH
  RequestIds <- {}, Kinds <- KindSet, MaxGeneration <- 1, MaxInjections <- 0,
  tracker <- 0, allocated <- 0, network <- 0, injections <- 0

NoSlot == [phase |-> "empty", token |-> NoOp]
EmptySlots == [kind \in KindSet |-> NoSlot]

\* The empty optional<CSCBGAPartialBatch>.
NoBatch == [stream |-> 0, generation |-> 0, sequence |-> 0, rows |-> <<>>]

EngineInit ==
  [state |-> "IDLE", busy |-> FALSE,
   flushRequested |-> FALSE, flushCompleted |-> FALSE, incomplete |-> FALSE,
   image |-> <<>>, pointer |-> 1, chunk |-> 0, epoch |-> 0,
   slots |-> EmptySlots, sequence |-> 0, op |-> NoOp, opSequence |-> 0,
   bgaGeneration |-> 0, targetGeneration |-> 0, batch |-> NoBatch, nextBatch |-> 1,
   accepted |-> 0, submitDone |-> FALSE,
   tracker |-> Tracker!TrackerInit(1)]

HasFailed(e) == e.state = "ERROR"
Terminal(e) == e.state \in {"DONE", "ERROR"}
Current(e) == e.image[e.pointer]

\* fail: only the first failure counts, waiting requests are abandoned.
FailEngine(e) ==
  IF HasFailed(e) THEN e
  ELSE [e EXCEPT !.state = "ERROR", !.busy = FALSE, !.flushCompleted = FALSE,
                 !.tracker = Tracker!AbandonWaiting(@)]

-----------------------------------------------------------------------------
(* Host calls.                                                             *)

\* reset throws unless MayResetEngine; sequences and the epoch survive it.
MayResetEngine(e) == Tracker!MayReset(e.tracker)

ResetEngine(e) ==
  [e EXCEPT !.state = "IDLE", !.busy = FALSE,
            !.flushRequested = FALSE, !.flushCompleted = FALSE, !.incomplete = FALSE,
            !.slots = EmptySlots, !.op = NoOp, !.tracker = Tracker!Reset(@, 0),
            !.bgaGeneration = 0, !.targetGeneration = 0, !.batch = NoBatch, !.nextBatch = 1,
            !.accepted = 0, !.submitDone = FALSE]

\* generation: of the accumulator, 0 without.  No work still has a producer to end.
LaunchEngine(e, image, generation) ==
  [EngineInit EXCEPT !.state = IF image # <<>> THEN "FETCH_DESCRIPTOR"
                               ELSE IF generation # 0 THEN "COMPLETE_PRODUCER" ELSE "DONE",
                     !.busy = (image # <<>> \/ generation # 0),
                     !.image = image,
                     !.bgaGeneration = generation,
                     !.tracker = Tracker!Reset(e.tracker, 0)]

\* flush: graceful, the work goes on; an idle or done engine passes FLUSHING.
Flush(e) ==
  IF HasFailed(e) \/ (e.state = "DONE" /\ e.flushCompleted) THEN e
  ELSE IF e.state \in {"IDLE", "DONE"}
       THEN [e EXCEPT !.flushRequested = TRUE, !.flushCompleted = FALSE,
                      !.busy = TRUE, !.state = "FLUSHING"]
       ELSE [e EXCEPT !.flushRequested = TRUE]

FlushIncomplete_LeavesGranted(e) ==
  IF Terminal(e) THEN e
  ELSE [e EXCEPT !.flushRequested = TRUE, !.incomplete = TRUE, !.busy = TRUE,
                 !.state = "FLUSHING", !.tracker = Tracker!AbandonWaiting(@)]

\* flushIncomplete: only a granted multiplication is still waited for.
FlushIncomplete(e) ==
  IF Terminal(e) THEN e
  ELSE [e EXCEPT !.flushRequested = TRUE, !.incomplete = TRUE, !.busy = TRUE,
                 !.state = IF @ = "WAIT_TARGET_COMPLETION" THEN @ ELSE "FLUSHING",
                 !.tracker = Tracker!AbandonWaiting(@)]

-----------------------------------------------------------------------------
(* Operand requests.                                                       *)

Token(bg, kind, sequence, generation) ==
  [id |-> <<generation, bg, sequence>>, kind |-> kind, generation |-> generation]

\* The engine remembers the request the tracker made, or fails.
Remember(e, kind, made, token) ==
  LET next == [e EXCEPT !.sequence = @ + 1, !.tracker = made.tracker,
                        !.slots[kind] = IF made.ok THEN [phase |-> "created", token |-> token]
                                        ELSE NoSlot]
  IN  IF made.ok THEN next ELSE FailEngine(next)

Prepare_KeepsGeneration(e, bg, kind, generation) ==
  LET token == Token(bg, kind, e.sequence + 1, generation)
  IN  Remember(e, kind, Tracker!Create(e.tracker, token), token)

\* prepare: a fresh token; an empty tracker adopts the generation first.
Prepare(e, bg, kind, generation) ==
  LET token == Token(bg, kind, e.sequence + 1, generation)
      ready == IF Tracker!Empty(e.tracker) /\ e.tracker.generation # generation
               THEN Tracker!Reset(e.tracker, generation) ELSE e.tracker
  IN  Remember(e, kind, Tracker!Create(ready, token), token)

\* The slot issueWaiting tries this cycle, if any.
Attempted(e) ==
  {kind \in KindSet :
     /\ e.slots[kind].phase = "created"
     /\ \A i, j \in 1 .. 3 :
          OperandKinds[j] = kind /\ i < j => e.slots[OperandKinds[i]].phase # "created"}

AttemptedTokens(e) == {e.slots[kind].token : kind \in Attempted(e)}

\* issueWaiting, given whether the memory system accepts the attempt.
IssueWaiting(e, accepted) ==
  IF ~accepted \/ Attempted(e) = {} THEN e
  ELSE LET kind == CHOOSE k \in Attempted(e) : TRUE
           made == Tracker!RecordAccepted(e.tracker, e.slots[kind].token)
       IN  [e EXCEPT !.tracker = made.tracker, !.slots[kind].phase = "accepted"]

\* Whether the completion is the one its slot and its tracker entry wait for.
Matches(e, token) ==
  /\ e.slots[token.kind].phase # "empty"
  /\ e.slots[token.kind].token.id = token.id
  /\ Tracker!Complete(e.tracker, token).ok

\* onRequestComplete and stageCompletion.  A failed engine only retires what
\* it still had accepted.
OnRequestComplete(e, token) ==
  LET made == Tracker!Complete(e.tracker, token)
      retired == Tracker!Retire(made.tracker, token).tracker
      lost == token.kind = "X_READ" /\ ~Current(e).xStays
      failed == FailEngine([e EXCEPT !.tracker = made.tracker])
  IN  IF ~Matches(e, token) THEN FailEngine(e)
      ELSE IF HasFailed(e)
      THEN [e EXCEPT !.tracker = retired, !.slots[token.kind].phase = "created"]
      ELSE IF lost
      THEN [failed EXCEPT !.tracker = Tracker!Retire(@, token).tracker,
                          !.slots[token.kind].phase = "created"]
      ELSE [e EXCEPT !.tracker = retired, !.slots[token.kind].phase = "ready"]

-----------------------------------------------------------------------------
(* One tick, by state.                                                     *)

FetchDescriptor(e, bg, generation) ==
  IF ~Current(e).valid THEN FailEngine(e)
  ELSE LET x == Prepare([e EXCEPT !.chunk = 0], bg, "X_READ", generation)
           value == IF HasFailed(x) THEN x ELSE Prepare(x, bg, "VALUE_READ", generation)
           index == IF HasFailed(value) THEN value ELSE Prepare(value, bg, "INDEX_READ", generation)
       IN  IF HasFailed(index) THEN index ELSE [index EXCEPT !.state = "LOAD_X"]

\* LOAD_X, FETCH_VALUE and FETCH_ROW_INDEX each try one request and move on.
FetchOperand(e, accepted) ==
  [IssueWaiting(e, accepted) EXCEPT
     !.state = CASE @ = "LOAD_X" -> "FETCH_VALUE"
                 [] @ = "FETCH_VALUE" -> "FETCH_ROW_INDEX"
                 [] @ = "FETCH_ROW_INDEX" -> "WAIT_OPERANDS"]

WaitOperands(e, accepted) ==
  IF \A kind \in KindSet : e.slots[kind].phase = "ready"
  THEN [e EXCEPT !.state = "SIMD_MUL"]
  ELSE IssueWaiting(e, accepted)

\* The operation is built once and kept while the rank refuses it.
BuildOperation(e) ==
  IF e.op # NoOp THEN e
  ELSE [e EXCEPT !.opSequence = @ + 1,
                 !.op = [id |-> e.opSequence + 1, mask |-> {0}, generation |-> e.tracker.generation]]

TargetSubmitted(e) == [e EXCEPT !.state = "WAIT_TARGET_GRANT"]
TargetGranted(e) == [e EXCEPT !.state = "WAIT_TARGET_COMPLETION"]
TargetCompleted(e) ==
  [e EXCEPT !.op = NoOp, !.targetGeneration = e.op.generation,
            !.state = IF e.incomplete THEN "FLUSHING" ELSE "EMIT_PARTIALS"]

EmitPartials(e) == [e EXCEPT !.state = "ADVANCE_CHUNK"]

\* EMIT_PARTIALS with an accumulator for so many rows: the batch of the chunk is
\* built once, and kept to be offered again while it is refused.
BuildBatch(e, numRows) ==
  LET rows == Current(e).rows[e.chunk + 1]
      current == e.targetGeneration # 0 /\ e.targetGeneration = e.bgaGeneration
      ordered == e.epoch + 1 = e.nextBatch
      inRange == \A i \in DOMAIN rows : rows[i] < numRows
  IN  IF e.batch # NoBatch THEN e
      ELSE IF ~current \/ ~ordered \/ ~inRange THEN FailEngine(e)
      ELSE [e EXCEPT !.batch = [stream |-> 0, generation |-> e.targetGeneration,
                                sequence |-> e.nextBatch, rows |-> rows]]

\* Anything but acceptance and back-pressure is a failure, a duplicate too.
BatchAnswered(e, answer) ==
  CASE answer = "ACCEPTED"     -> [e EXCEPT !.batch = NoBatch, !.nextBatch = @ + 1,
                                            !.accepted = @ + Len(e.batch.rows),
                                            !.state = "ADVANCE_CHUNK"]
    [] answer = "BACKPRESSURE" -> e
    [] OTHER                   -> FailEngine(e)

\* completeProducer, given whether the accumulator starts its final drain.
MayCompleteProducer(e) ==
  e.bgaGeneration # 0 /\ e.batch = NoBatch /\ e.op = NoOp /\ Tracker!Empty(e.tracker)

CompleteProducer(e, drains) ==
  IF ~MayCompleteProducer(e) \/ ~drains THEN FailEngine(e)
  ELSE [e EXCEPT !.submitDone = TRUE, !.state = "DONE", !.busy = FALSE]

\* The x operand stays staged; value and index are read again.
AdvanceChunk(e, bg, generation) ==
  LET moved == [e EXCEPT !.chunk = @ + 1]
      value == Prepare(moved, bg, "VALUE_READ", generation)
      index == IF HasFailed(value) THEN value ELSE Prepare(value, bg, "INDEX_READ", generation)
  IN  IF moved.chunk = Len(Current(e).rows)
      THEN [moved EXCEPT !.state = "NEXT_DESCRIPTOR", !.epoch = @ + 1]
      ELSE IF HasFailed(index) THEN index
      ELSE [index EXCEPT !.state = "WAIT_OPERANDS", !.epoch = @ + 1]

\* A flushed engine does not end its producer.
FinishWork(e) ==
  IF ~Tracker!TerminalAccountingValid(e.tracker) \/ e.tracker.abandoned > 0 THEN FailEngine(e)
  ELSE IF e.flushRequested THEN [e EXCEPT !.state = "FLUSHING", !.busy = TRUE]
  ELSE IF e.bgaGeneration # 0 THEN [e EXCEPT !.state = "COMPLETE_PRODUCER", !.busy = TRUE]
  ELSE [e EXCEPT !.state = "DONE", !.busy = FALSE]

NextDescriptor(e) ==
  LET moved == [e EXCEPT !.pointer = @ + 1]
  IN  IF moved.pointer <= Len(e.image)
      THEN [moved EXCEPT !.slots = EmptySlots, !.state = "FETCH_DESCRIPTOR"]
      ELSE FinishWork(moved)

\* FLUSHING ends when no request is left.
Flushing(e) ==
  IF Tracker!Empty(e.tracker)
  THEN [e EXCEPT !.state = "DONE", !.busy = FALSE, !.flushCompleted = TRUE]
  ELSE e
=============================================================================
