------------------------------ MODULE BGAState ------------------------------
(***************************************************************************)
(* The state of one csc_descriptor::CSCBankGroupAccumulator and the member *)
(* functions that change it, as operators from a state to a state.  A bank *)
(* group accumulator (BGA) takes batches of partial products from its      *)
(* producers, adds up those of one matrix row in a small set of slots, and *)
(* hands over a record of a slot when it needs the slot or drains.         *)
(*                                                                         *)
(* An FP32 value is represented by what it is the sum of: a contribution   *)
(* stands for one product, a value is the sequence of the contributions    *)
(* added into it, in order (FP32 addition is not associative), and the     *)
(* contribution count of an entry is the length of its value.  Event       *)
(* statistics, error texts and the 64-bit exhaustion checks are left out.  *)
(***************************************************************************)
EXTENDS Integers, Sequences, FiniteSets, Functions

CONSTANTS
  NumStreams,          \* config_.input_streams
  InputQueueDepth,     \* config_.input_queue_depth, in contributions
  AccumulatorEntries,  \* config_.accumulator_entries
  OutputQueueDepth,    \* config_.output_queue_depth
  CompareLatency,      \* config_.compare_latency
  AddLatency,          \* config_.add_latency
  NumRows              \* config_.rows

\* validateConfig: the constructor throws on anything else.
ASSUME BGAConfigAssumption ==
  /\ NumStreams \in Nat \ {0}
  /\ InputQueueDepth \in Nat \ {0}
  /\ AccumulatorEntries \in Nat \ {0}
  /\ OutputQueueDepth \in Nat \ {0}
  /\ CompareLatency \in Nat \ {0}
  /\ AddLatency \in Nat \ {0}
  /\ NumRows \in Nat \ {0}

Stream == 0 .. NumStreams - 1
Slot   == 0 .. AccumulatorEntries - 1
Row    == 0 .. NumRows - 1

\* One product: InputEntry, with the index in its batch for its FP32 value.
Contribution ==
  [row : Row, stream : Stream, generation : Nat, sequence : Nat, index : Nat]

Batch == [stream : Stream, generation : Nat, sequence : Nat, rows : Seq(Row)]

\* The empty optional<CSCBGABatch>: no batch has sequence 0.
NoBatch == [stream |-> 0, generation |-> 0, sequence |-> 0, rows |-> <<>>]

NoContribution ==
  [row |-> 0, stream |-> 0, generation |-> 0, sequence |-> 0, index |-> 0]

FreeEntry == [valid |-> FALSE, reserved |-> FALSE, row |-> 0, value |-> <<>>, age |-> 0]

NoOperation == [kind |-> "NONE", input |-> NoContribution, slot |-> 0, remaining |-> 0]

\* eviction is the output sequence number of the victim's record, 0 before it is pushed.
NoMiss == [active |-> FALSE, input |-> NoContribution, victim |-> 0,
           eviction |-> 0, awaiting |-> FALSE]

BGAInit ==
  [generation |-> 1,
   queue      |-> [st \in Stream |-> <<>>],
   presented  |-> [st \in Stream |-> NoBatch],
   accepted   |-> [st \in Stream |-> NoBatch],
   last       |-> [st \in Stream |-> NoBatch],
   done       |-> [st \in Stream |-> FALSE],
   acc        |-> [k \in Slot |-> FreeEntry],
   output     |-> <<>>,
   op         |-> NoOperation,
   miss       |-> NoMiss,
   retiring   |-> FALSE,
   draining   |-> FALSE,
   rr         |-> 0,
   age        |-> 0,
   outSeq     |-> 0,
   taken      |-> 0,      \* counters_.accepted_valid_partials
   retired    |-> 0,      \* counters_.retired_output_contributions
   aborted    |-> 0,      \* counters_.aborted_contributions
   fault      |-> "none"]

\* invariantError throws out of step(): the rest of the step does not run.
Fault(s, what) == [s EXCEPT !.fault = what]

-----------------------------------------------------------------------------
(* Queries *)

Contributions(b) ==
  [i \in 1 .. Len(b.rows) |->
     [row |-> b.rows[i], stream |-> b.stream, generation |-> b.generation,
      sequence |-> b.sequence, index |-> i]]

LiveSlots(s) == {k \in Slot : s.acc[k].valid /\ ~s.acc[k].reserved}
FreeSlots(s) == {k \in Slot : ~s.acc[k].valid}

AllProducersDone(s) == \A st \in Stream : s.done[st]

\* Mutant: the drain looks at the FIFOs only.
InputPending_QueueOnly(s) == \E st \in Stream : s.queue[st] # <<>>

InputPending(s) ==
  \E st \in Stream : \/ s.queue[st] # <<>>
                     \/ s.accepted[st] # NoBatch
                     \/ s.presented[st] # NoBatch

HasLiveWork(s) ==
  \/ s.op # NoOperation
  \/ s.miss.active
  \/ s.output # <<>>
  \/ s.retiring
  \/ InputPending(s)
  \/ \E k \in Slot : s.acc[k].valid

Lowest(numbers) == CHOOSE n \in numbers : \A m \in numbers : n <= m

\* selectVictim and selectDrainEntry: the oldest live entry, the lowest slot on a tie.
Oldest(s, slots) ==
  CHOOSE k \in slots : \A j \in slots : \/ s.acc[k].age < s.acc[j].age
                                        \/ s.acc[k].age = s.acc[j].age /\ k <= j

\* The places that hold one contribution each: of a stream's FIFO and of its
\* accepted batch, of the running operation, of the pending miss, of the value of
\* a live entry and of an output record (which owns the value of a reserved entry).
Places(what, lengths) ==
  UNION {{<<what, d, i>> : i \in 1 .. lengths[d]} : d \in DOMAIN lengths}

HeldPlaces(s) ==
  Places("queue", [st \in Stream |-> Len(s.queue[st])])
  \cup Places("accepted", [st \in Stream |-> Len(s.accepted[st].rows)])
  \cup Places("entry", [k \in LiveSlots(s) |-> Len(s.acc[k].value)])
  \cup Places("output", [n \in 1 .. Len(s.output) |-> Len(s.output[n].value)])
  \cup Places("operation", [n \in {0} |-> IF s.op # NoOperation THEN 1 ELSE 0])
  \cup Places("miss", [n \in {0} |-> IF s.miss.active THEN 1 ELSE 0])

LiveContributionCount(s) == Cardinality(HeldPlaces(s))

ConservationInvariant(s) ==
  s.taken = LiveContributionCount(s) + s.retired + s.aborted

ValidateAccumulatorInvariant(s) ==
  /\ \A k \in Slot : s.acc[k].reserved => s.acc[k].valid
  /\ \A k, j \in LiveSlots(s) : k # j => s.acc[k].row # s.acc[j].row
  /\ \A k \in Slot :
       s.acc[k].reserved <=>
         \E i \in 1 .. Len(s.output) :
           /\ s.output[i].slot = k
           /\ \A j \in 1 .. Len(s.output) : s.output[j].slot = k => j = i

FinalDrainComplete(s) ==
  /\ s.draining
  /\ AllProducersDone(s)
  /\ ~HasLiveWork(s)
  /\ s.taken = s.retired + s.aborted

-----------------------------------------------------------------------------
(* offerBatch: the answers, in the order of the code's early returns.      *)

WellFormed(s, b) ==
  /\ b.stream \in Stream
  /\ ~s.done[b.stream]
  /\ b.generation = s.generation
  /\ b.sequence # 0
  /\ Len(b.rows) \in 1 .. InputQueueDepth
  /\ \A i \in 1 .. Len(b.rows) : b.rows[i] \in Row

HasRoom(s, b) == Len(s.queue[b.stream]) + Len(b.rows) <= InputQueueDepth

\* Mutant: a retry is recognised only until the first copy reaches the FIFO.
OfferResult_ForgetsLast(s, b) ==
  IF ~WellFormed(s, b) \/ s.accepted[b.stream] # NoBatch THEN "PROTOCOL_ERROR"
  ELSE IF b.sequence \notin {s.last[b.stream].sequence, s.last[b.stream].sequence + 1} THEN "PROTOCOL_ERROR"
  ELSE IF HasRoom(s, b) THEN "ACCEPTED"
  ELSE "BACKPRESSURE"

OfferResult(s, b) ==
  LET same(held) == IF held = b THEN "DUPLICATE" ELSE "PROTOCOL_ERROR"
      shown == s.presented[b.stream]
      last  == s.last[b.stream]
  IN  IF ~WellFormed(s, b) THEN "PROTOCOL_ERROR"
      ELSE IF s.accepted[b.stream] # NoBatch THEN same(s.accepted[b.stream])
      ELSE IF shown # NoBatch /\ shown # b THEN "PROTOCOL_ERROR"
      ELSE IF shown = NoBatch /\ b.sequence = last.sequence THEN same(last)
      ELSE IF shown = NoBatch /\ b.sequence # last.sequence + 1 THEN "PROTOCOL_ERROR"
      ELSE IF HasRoom(s, b) THEN "ACCEPTED"
      ELSE "BACKPRESSURE"

OfferBatch(s, b) ==
  IF OfferResult(s, b) = "ACCEPTED"
  THEN [s EXCEPT !.presented[b.stream] = NoBatch, !.accepted[b.stream] = b,
                 !.last[b.stream] = b, !.taken = @ + Len(b.rows)]
  ELSE IF OfferResult(s, b) = "BACKPRESSURE" THEN [s EXCEPT !.presented[b.stream] = b]
  ELSE s

-----------------------------------------------------------------------------
(* The other calls of the owner *)

MarkProducerDone(s, st) ==
  IF s.presented[st] # NoBatch THEN s ELSE [s EXCEPT !.done[st] = TRUE]

RequestFinalDrain(s) ==
  IF AllProducersDone(s) THEN [s EXCEPT !.draining = TRUE] ELSE s

\* Only the counters and the two order counters survive a reset.
AbortReset(s, newGeneration) ==
  [BGAInit EXCEPT !.generation = newGeneration,
                  !.age = s.age,
                  !.outSeq = s.outSeq,
                  !.taken = s.taken,
                  !.retired = s.retired,
                  !.aborted = s.aborted + LiveContributionCount(s)]

AcceptOutput(s) == [s EXCEPT !.retiring = TRUE]

-----------------------------------------------------------------------------
(* step(), phase by phase *)

\* Mutant: the miss that waits for this record is not told.
RetireOutput_KeepsWaiting(s) ==
  IF ~s.retiring THEN s
  ELSE [s EXCEPT !.retired = @ + Len(Head(s.output).value),
                 !.acc[Head(s.output).slot] = FreeEntry,
                 !.output = Tail(@),
                 !.retiring = FALSE]

\* The record at the front leaves, its slot becomes free, and an eviction that
\* waited for exactly this record may go on.
RetireOutput(s) ==
  LET front == Head(s.output)
  IN  IF ~s.retiring THEN s
      ELSE IF ~s.acc[front.slot].reserved THEN Fault(s, "retirement lost reserved slot")
      ELSE [s EXCEPT !.retired = @ + Len(front.value),
                     !.acc[front.slot] = FreeEntry,
                     !.output = Tail(@),
                     !.retiring = FALSE,
                     !.miss.awaiting = @ /\ s.miss.eviction # front.seq]

\* The comparison of a lookup: one hit starts a merge, a miss starts an insert
\* into the lowest free slot, a miss with every slot taken names a victim.
CommitLookup(s) ==
  LET input == s.op.input
      hits  == {k \in LiveSlots(s) : s.acc[k].row = input.row}
      start(kind, k) == [s EXCEPT !.op = [kind |-> kind, input |-> input, slot |-> k,
                                          remaining |-> AddLatency]]
  IN  IF \E k, j \in hits : k # j THEN Fault(s, "duplicate row tag detected by lookup")
      ELSE IF hits # {} THEN start("MERGE", CHOOSE k \in hits : TRUE)
      ELSE IF FreeSlots(s) # {} THEN start("INSERT", Lowest(FreeSlots(s)))
      ELSE IF LiveSlots(s) = {} THEN Fault(s, "full miss has no non-reserved victim")
      ELSE [s EXCEPT !.op = NoOperation,
                     !.miss = [active |-> TRUE, input |-> input,
                               victim |-> Oldest(s, LiveSlots(s)),
                               eviction |-> 0, awaiting |-> FALSE]]

CommitMerge(s) ==
  LET k == s.op.slot
  IN  IF k \notin LiveSlots(s) \/ s.acc[k].row # s.op.input.row
      THEN Fault(s, "merge target changed")
      ELSE [s EXCEPT !.op = NoOperation, !.acc[k].value = Append(@, s.op.input)]

CommitInsert(s) ==
  LET k == s.op.slot
  IN  IF s.acc[k].valid \/ s.acc[k].reserved
      THEN Fault(s, "insert target occupied/reserved")
      ELSE [s EXCEPT !.op = NoOperation,
                     !.age = @ + 1,
                     !.acc[k] = [valid |-> TRUE, reserved |-> FALSE,
                                 row |-> s.op.input.row, value |-> <<s.op.input>>,
                                 age |-> s.age + 1]]

Commits(s) == s.op # NoOperation /\ s.op.remaining = 1

\* commitOperation, reached when the running operation's last cycle is over.
CommitOperation(s) ==
  IF s.fault # "none" \/ s.op = NoOperation THEN s
  ELSE IF ~Commits(s) THEN [s EXCEPT !.op.remaining = @ - 1]
  ELSE IF s.op.kind = "LOOKUP" THEN CommitLookup(s)
  ELSE IF s.op.kind = "MERGE" THEN CommitMerge(s)
  ELSE CommitInsert(s)

PushOutput(s, k, reason) ==
  IF k \notin LiveSlots(s) THEN Fault(s, "output invalid/reserved accumulator slot")
  ELSE [s EXCEPT !.output = Append(@, [row |-> s.acc[k].row, value |-> s.acc[k].value,
                                       seq |-> s.outSeq + 1, slot |-> k, reason |-> reason]),
                 !.acc[k].reserved = TRUE,
                 !.outSeq = @ + 1]

\* A pending miss first pushes its victim, then waits for that record to be
\* retired, then inserts into the slot it freed.
UpdateEviction(s) ==
  IF s.miss.eviction = 0
  THEN IF Len(s.output) >= OutputQueueDepth THEN s
       ELSE IF s.miss.victim \notin LiveSlots(s)
       THEN PushOutput(s, s.miss.victim, "CAPACITY_EVICTION")
       ELSE [PushOutput(s, s.miss.victim, "CAPACITY_EVICTION")
               EXCEPT !.miss.eviction = s.outSeq + 1, !.miss.awaiting = TRUE]
  ELSE IF s.miss.awaiting \/ s.op # NoOperation THEN s
  ELSE [s EXCEPT !.op = [kind |-> "INSERT", input |-> s.miss.input,
                         slot |-> s.miss.victim, remaining |-> AddLatency],
                 !.miss = NoMiss]

\* committed: an operation was committed earlier in this step.
FinalDrain(s, committed) ==
  IF /\ s.draining /\ s.op = NoOperation /\ ~committed
     /\ ~InputPending(s)
     /\ LiveSlots(s) # {}
     /\ Len(s.output) < OutputQueueDepth
  THEN PushOutput(s, Oldest(s, LiveSlots(s)), "FINAL_DRAIN")
  ELSE s

UpdateEvictionOrDrain(s, committed) ==
  IF s.fault # "none" THEN s
  ELSE IF s.miss.active THEN UpdateEviction(s)
  ELSE FinalDrain(s, committed)

\* Mutant: a lookup starts while an eviction is under way.
StartService_DuringMiss(s) ==
  LET ready == {st \in Stream : s.queue[st] # <<>>}
      st == Lowest(ready)
  IN  IF s.fault # "none" \/ s.op # NoOperation \/ ready = {} THEN s
      ELSE [s EXCEPT !.queue[st] = Tail(@),
                     !.op = [kind |-> "LOOKUP", input |-> Head(s.queue[st]), slot |-> 0,
                             remaining |-> CompareLatency],
                     !.rr = (st + 1) % NumStreams]

\* Round robin over the streams that have something queued.
StartService(s) ==
  LET at(offset) == (s.rr + offset) % NumStreams
      ready == {offset \in Stream : s.queue[at(offset)] # <<>>}
      st == at(Lowest(ready))
  IN  IF s.fault # "none" \/ s.op # NoOperation \/ s.miss.active \/ ready = {} THEN s
      ELSE [s EXCEPT !.queue[st] = Tail(@),
                     !.op = [kind |-> "LOOKUP", input |-> Head(s.queue[st]), slot |-> 0,
                             remaining |-> CompareLatency],
                     !.rr = (st + 1) % NumStreams]

\* Mutant: a new batch goes to the front of the FIFO.
CommitAcceptedBatches_ToFront(s) ==
  IF s.fault # "none" THEN s
  ELSE [s EXCEPT !.queue = [st \in Stream |-> Contributions(s.accepted[st]) \o s.queue[st]],
                 !.accepted = [st \in Stream |-> NoBatch]]

CommitAcceptedBatches(s) ==
  IF s.fault # "none" THEN s
  ELSE IF \E st \in Stream : s.accepted[st] # NoBatch /\ ~HasRoom(s, s.accepted[st])
  THEN Fault(s, "accepted batch lost reserved FIFO capacity")
  ELSE [s EXCEPT !.queue = [st \in Stream |-> s.queue[st] \o Contributions(s.accepted[st])],
                 !.accepted = [st \in Stream |-> NoBatch]]

\* The two checks step() ends with.
CheckStep(s) ==
  IF s.fault # "none" THEN s
  ELSE IF ~ValidateAccumulatorInvariant(s)
  THEN Fault(s, "duplicate/reservation accumulator invariant")
  ELSE IF ~ConservationInvariant(s) THEN Fault(s, "contribution conservation invariant")
  ELSE s

\* The state step() leaves in s, the one element of this set.  (Each phase is
\* bound to its value, so that TLC computes it once.)
Stepped(s) ==
  LET retired == {RetireOutput(s)}
      updated == {UpdateEvictionOrDrain(CommitOperation(r), r.fault = "none" /\ Commits(r)) :
                    r \in retired}
      served  == {StartService(u) : u \in updated}
      queued  == {CommitAcceptedBatches(v) : v \in served}
  IN  {CheckStep(w) : w \in queued}

Step(s, t) == t \in Stepped(s)
=============================================================================
