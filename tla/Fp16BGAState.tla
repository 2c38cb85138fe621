---------------------------- MODULE Fp16BGAState ----------------------------
(***************************************************************************)
(* The state of one csc_descriptor::CSCFp16BankGroupAccumulator and its    *)
(* member functions, as operators from a state to a state.  Unlike its     *)
(* FP32 sibling it has one producer, one input FIFO and one batch waiting  *)
(* to enter it, no generations and no reset.                               *)
(*                                                                         *)
(* An event is one FP16 product, [row, d, c, lane, ...]: descriptor, chunk *)
(* and lane say which.  A value is the sequence of the events added into   *)
(* it, in order (FP16 addition is not associative), so the contribution    *)
(* count of an entry is the length of its value.  Statistics are left out. *)
(***************************************************************************)
EXTENDS Integers, Sequences, FiniteSets, FiniteSetsExt

CONSTANTS
  Half,                \* the width of a batch, 8 in the code
  InputQueueDepth,     \* config_.input_queue_depth, in events
  AccumulatorEntries,  \* config_.accumulator_entries
  OutputQueueDepth,    \* config_.output_queue_depth
  CompareLatency,      \* config_.compare_latency
  AddLatency           \* config_.add_latency

Slot == 0 .. AccumulatorEntries - 1

NoEvent == [row |-> 0, d |-> 0, c |-> 0, lane |-> 0, factor |-> 0]
FreeEntry == [valid |-> FALSE, reserved |-> FALSE, row |-> 0, value |-> <<>>, age |-> 0]
NoOperation == [kind |-> "NONE", input |-> NoEvent, slot |-> 0, remaining |-> 0]

\* output is the sequence number of the victim's record, 0 before it is pushed.
NoMiss == [active |-> FALSE, input |-> NoEvent, victim |-> 0, output |-> 0, awaiting |-> FALSE]

BGAInit ==
  [queue    |-> <<>>,
   pending  |-> <<>>,      \* accepted_pending_
   acc      |-> [k \in Slot |-> FreeEntry],
   outputs  |-> <<>>,
   op       |-> NoOperation,
   miss     |-> NoMiss,
   retiring |-> FALSE,     \* output_retirement_pending_
   done     |-> FALSE,     \* producer_done_
   draining |-> FALSE,     \* final_drain_requested_
   age      |-> 0,
   outSeq   |-> 0,
   taken    |-> 0,         \* counters_.ingress_accepted
   retired  |-> 0,         \* counters_.retired_contributions
   fault    |-> "none"]

\* An exception leaves step().
Fault(s, what) == [s EXCEPT !.fault = what]

LiveSlots(s) == {k \in Slot : s.acc[k].valid /\ ~s.acc[k].reserved}
FreeSlots(s) == {k \in Slot : ~s.acc[k].valid}

\* selectOldest: the oldest live entry, the lowest slot on a tie.
Oldest(s) ==
  CHOOSE k \in LiveSlots(s) :
    \A j \in LiveSlots(s) : \/ s.acc[k].age < s.acc[j].age
                            \/ s.acc[k].age = s.acc[j].age /\ k <= j

LiveWork(s) ==
  \/ s.pending # <<>> \/ s.queue # <<>> \/ s.outputs # <<>>
  \/ s.op # NoOperation \/ s.miss.active \/ s.retiring
  \/ FreeSlots(s) # Slot

LiveContributions(s) ==
  Len(s.queue) + Len(s.pending)
  + (IF s.op # NoOperation THEN 1 ELSE 0) + (IF s.miss.active THEN 1 ELSE 0)
  + MapThenSumSet(LAMBDA k : Len(s.acc[k].value), LiveSlots(s))
  + MapThenSumSet(LAMBDA i : Len(s.outputs[i].value), DOMAIN s.outputs)

ConservationInvariant(s) == s.taken = LiveContributions(s) + s.retired

FinalDrainComplete(s) ==
  s.draining /\ s.done /\ ~LiveWork(s) /\ s.taken = s.retired

-----------------------------------------------------------------------------
(* The calls of the owner, between two steps                               *)

Ready(s) == ~s.done /\ s.pending = <<>> /\ Len(s.queue) < InputQueueDepth

\* canAcceptBatch: the events of a batch of one half of a chunk, lane by lane.
OneHalf(batch, width) ==
  /\ Len(batch) \in 1 .. width
  /\ \A i \in DOMAIN batch :
       /\ batch[i].d = batch[1].d /\ batch[i].c = batch[1].c
       /\ width > 1 => batch[i].lane = (batch[1].lane \div Half) * Half + i - 1

CanAcceptBatch(s, batch, width) ==
  /\ ~s.done /\ s.pending = <<>>
  /\ Len(s.queue) + Len(batch) <= InputQueueDepth
  /\ OneHalf(batch, width)

AcceptBatch(s, batch) == [s EXCEPT !.pending = batch, !.taken = @ + Len(batch)]

\* markProducerDone and requestFinalDrain, which the execution calls together.
Finish(s) == [s EXCEPT !.done = TRUE, !.draining = TRUE]

AcceptOutput(s) ==
  IF s.outputs = <<>> \/ s.retiring THEN Fault(s, "invalid output acceptance")
  ELSE [s EXCEPT !.retiring = TRUE]

-----------------------------------------------------------------------------
(* step(), phase by phase                                                  *)

RetireOutput(s) ==
  LET front == Head(s.outputs)
  IN  IF ~s.retiring THEN s
      ELSE IF ~s.acc[front.slot].reserved THEN Fault(s, "lost reserved output")
      ELSE [s EXCEPT !.retired = @ + Len(front.value),
                     !.acc[front.slot] = FreeEntry,
                     !.outputs = Tail(@),
                     !.retiring = FALSE,
                     !.miss.awaiting = @ /\ s.miss.output # front.sequence]

\* The comparison: a hit starts a merge, a miss an insert into the lowest free
\* slot, a miss with every slot taken names a victim.
CommitLookup(s) ==
  LET input == s.op.input
      hits  == {k \in LiveSlots(s) : s.acc[k].row = input.row}
      start(kind, k) == [s EXCEPT !.op = [kind |-> kind, input |-> input, slot |-> k,
                                          remaining |-> AddLatency]]
  IN  IF Cardinality(hits) > 1 THEN Fault(s, "duplicate row tag")
      ELSE IF hits # {} THEN start("MERGE", Min(hits))
      ELSE IF FreeSlots(s) # {} THEN start("INSERT", Min(FreeSlots(s)))
      ELSE IF LiveSlots(s) = {} THEN Fault(s, "no victim")
      ELSE [s EXCEPT !.op = NoOperation,
                     !.miss = [active |-> TRUE, input |-> input, victim |-> Oldest(s),
                               output |-> 0, awaiting |-> FALSE]]

CommitMerge(s) ==
  LET entry == s.acc[s.op.slot]
  IN  IF ~entry.valid \/ entry.reserved \/ entry.row # s.op.input.row
      THEN Fault(s, "merge target changed")
      ELSE [s EXCEPT !.op = NoOperation, !.acc[s.op.slot].value = Append(@, s.op.input)]

CommitInsert(s) ==
  LET entry == [valid |-> TRUE, reserved |-> FALSE, row |-> s.op.input.row,
                value |-> <<s.op.input>>, age |-> s.age + 1]
  IN  IF s.acc[s.op.slot].valid THEN Fault(s, "occupied insert")
      ELSE [s EXCEPT !.op = NoOperation, !.acc[s.op.slot] = entry, !.age = @ + 1]

Commits(s) == s.op # NoOperation /\ s.op.remaining = 1

CommitOperation(s) ==
  CASE s.op = NoOperation    -> s
    [] s.op.remaining > 1    -> [s EXCEPT !.op.remaining = @ - 1]
    [] s.op.kind = "LOOKUP"  -> CommitLookup(s)
    [] s.op.kind = "MERGE"   -> CommitMerge(s)
    [] s.op.kind = "INSERT"  -> CommitInsert(s)

\* The entry becomes a record of the output queue and keeps its slot until then.
PushOutput(s, k, reason) ==
  IF k \notin LiveSlots(s) THEN Fault(s, "invalid output")
  ELSE [s EXCEPT !.outSeq = @ + 1,
                 !.acc[k].reserved = TRUE,
                 !.outputs = Append(@, [slot |-> k, row |-> s.acc[k].row,
                                        value |-> s.acc[k].value, reason |-> reason,
                                        sequence |-> s.outSeq + 1])]

UpdateEviction(s) ==
  IF s.miss.output = 0
  THEN IF Len(s.outputs) >= OutputQueueDepth THEN s
       ELSE [PushOutput(s, s.miss.victim, "CAPACITY_EVICTION") EXCEPT
               !.miss.output = s.outSeq + 1, !.miss.awaiting = TRUE]
  ELSE IF s.miss.awaiting \/ s.op # NoOperation THEN s
  ELSE [s EXCEPT !.op = [kind |-> "INSERT", input |-> s.miss.input, slot |-> s.miss.victim,
                         remaining |-> AddLatency],
                 !.miss = NoMiss]

\* Mutant: no operation under way is all the drain waits for.
FinalDrain_OnlyOperation(s, committed) ==
  IF \/ ~s.draining \/ s.op # NoOperation
     \/ LiveSlots(s) = {} \/ Len(s.outputs) >= OutputQueueDepth
  THEN s
  ELSE PushOutput(s, Oldest(s), "FINAL_DRAIN")

FinalDrain(s, committed) ==
  IF \/ ~s.draining \/ s.op # NoOperation \/ committed
     \/ s.queue # <<>> \/ s.pending # <<>>
     \/ LiveSlots(s) = {} \/ Len(s.outputs) >= OutputQueueDepth
  THEN s
  ELSE PushOutput(s, Oldest(s), "FINAL_DRAIN")

UpdateEvictionOrDrain(s, committed) ==
  IF s.miss.active THEN UpdateEviction(s) ELSE FinalDrain(s, committed)

StartService(s) ==
  IF s.op # NoOperation \/ s.miss.active \/ s.queue = <<>> THEN s
  ELSE [s EXCEPT !.queue = Tail(@),
                 !.op = [kind |-> "LOOKUP", input |-> Head(s.queue), slot |-> 0,
                         remaining |-> CompareLatency]]

CommitIngress(s) ==
  IF Len(s.queue) + Len(s.pending) > InputQueueDepth
  THEN Fault(s, "lost ingress reservation")
  ELSE [s EXCEPT !.queue = @ \o s.pending, !.pending = <<>>]

CheckStep(s) == IF ConservationInvariant(s) THEN s ELSE Fault(s, "conservation")

\* An exception of one phase keeps the later ones from running.
BGAStep(s) ==
  LET then(t, u) == IF t.fault # "none" THEN t ELSE u
      r == RetireOutput(s)
      o == then(r, CommitOperation(r))
      e == then(o, UpdateEvictionOrDrain(o, Commits(r)))
      i == then(e, CommitIngress(StartService(e)))
  IN  then(i, CheckStep(i))
=============================================================================
