------------------------ MODULE CSCPartialResultPath ------------------------
(***************************************************************************)
(* csc_descriptor::CSCPartialResultPath: the records the bank group        *)
(* accumulators hand over are packed into bursts, written to a finite      *)
(* buffer per bank group, and, once every write of every bank group is     *)
(* done, read back and added up by the host.                               *)
(*                                                                         *)
(* A record is [bg, seq]: its row, value and contribution count go with    *)
(* it.  final_y is represented by the order in which records are added.    *)
(* A cycle number of the code is represented by the cycles left.  One      *)
(* write per rank and one read per channel are issued in a cycle: the      *)
(* issue limits have their default.  The host reduction is enabled, so the *)
(* only consumer of returned bursts is step().  Byte counters, peaks,      *)
(* traces, the contribution sums and the error texts are left out, and so  *)
(* are the checks of a record's fields, which a BGA's records pass.        *)
(***************************************************************************)
EXTENDS Integers, Sequences, FiniteSets, FiniteSetsExt

CONSTANTS
  Channels, RanksPerChannel, BankGroupsPerRank,
  RecordsPerBurst,        \* kCSCPartialRecordsPerBurst, 4 in the code
  BufferCapacity,         \* buffer_capacity_bursts_per_bg
  PendingCapacity,        \* pending_capacity_bursts_per_bg
  MaxInflightWrites,      \* max_inflight_writes_per_bg
  WriteLatency,           \* write_latency_cycles
  MaxInflightReads,       \* max_inflight_reads_per_channel
  ReadLatency,            \* read_latency_cycles
  ReturnQueueCapacity,    \* host_return_queue_capacity_bursts
  ReductionQueueCapacity, \* reduction_queue_capacity_records
  ReduceRecordsPerCycle,  \* host_reduce_records_per_cycle
  ReduceLatency,          \* host_reduce_latency_cycles
  MaxRecords              \* bound of the model: records each bank group sends

\* CSCPartialResultPathConfig::validate; a latency may be 0.
ASSUME PathConfigAssumption ==
  /\ {Channels, RanksPerChannel, BankGroupsPerRank, RecordsPerBurst, BufferCapacity,
      PendingCapacity, MaxInflightWrites, MaxInflightReads, ReturnQueueCapacity,
      ReductionQueueCapacity, ReduceRecordsPerCycle} \subseteq Nat \ {0}
  /\ {WriteLatency, ReadLatency, ReduceLatency} \subseteq Nat
  /\ MaxRecords \in [0 .. Channels * RanksPerChannel * BankGroupsPerRank - 1 -> Nat]

BankGroupsPerChannel == RanksPerChannel * BankGroupsPerRank

BG      == 0 .. Channels * BankGroupsPerChannel - 1
Rank    == 0 .. Channels * RanksPerChannel - 1
Channel == 0 .. Channels - 1
BufferSlot == 0 .. BufferCapacity - 1

\* The cycles a transfer of this latency takes.
Cycles(latency) == Max({1, latency})

NoBurst == [number |-> 0, records |-> <<>>]

BGInit ==
  [packer      |-> <<>>,
   pending     |-> <<>>,                               \* bursts to be written
   inflight    |-> <<>>,                               \* writes: [burst, slot, wait]
   resident    |-> [k \in BufferSlot |-> NoBurst],
   reserved    |-> [k \in BufferSlot |-> FALSE],       \* buffer_reserved
   reservedCount |-> 0,                                \* reserved_buffer_slots
   reading     |-> [k \in BufferSlot |-> FALSE],       \* read_inflight
   lastOutput  |-> 0,
   nextBurst   |-> 1,
   nextRead    |-> 1,
   lifecycle   |-> FALSE,
   tailFlushed |-> FALSE]

PathInit ==
  [bg             |-> [b \in BG |-> BGInit],
   rankCursor     |-> [r \in Rank |-> 0],
   channelCursor  |-> [c \in Channel |-> 0],
   reads          |-> [c \in Channel |-> <<>>],        \* [burst, bg, slot, wait]
   returned       |-> <<>>,                            \* host_return_queue_
   reservedReturn |-> 0,                               \* reserved_host_return_slots_
   queue          |-> <<>>,                            \* reduction_queue_
   batch          |-> <<>>,
   batchWait      |-> 0,
   added          |-> <<>>,                            \* final_y_fp32_
   counts         |-> [generated |-> 0, bursts |-> 0, written |-> 0, readsIssued |-> 0,
                       readsDone |-> 0, readRecords |-> 0, delivered |-> 0,
                       enqueued |-> 0, issued |-> 0, reduced |-> 0],
   writebackDone  |-> FALSE,
   readbackStarted |-> FALSE,
   transportDone  |-> FALSE,
   readbackDone   |-> FALSE,
   reductionDone  |-> FALSE,
   error          |-> FALSE]

Fail(p) == [p EXCEPT !.error = TRUE]

Resident(g) == {k \in BufferSlot : g.resident[k] # NoBurst}
Unread(g)   == {k \in Resident(g) : ~g.reading[k]}
FreeSlots(g) == {k \in BufferSlot \ Resident(g) : ~g.reserved[k] /\ ~g.reading[k]}

RecordsIn(bursts) == [i \in DOMAIN bursts |-> Len(bursts[i].records)]

\* The sum of a family of numbers: so many pairs <<i, n>> lie below them.
Total(numbers) == Cardinality(UNION {{<<i, n>> : n \in 1 .. numbers[i]} : i \in DOMAIN numbers})

\* The members of a set of numbers, from the lowest on.
Increasing(S) ==
  [i \in 1 .. Cardinality(S) |-> CHOOSE c \in S : Cardinality({d \in S : d < c}) = i - 1]

-----------------------------------------------------------------------------
(* The producer's side: transferCSCBGAOutput, with the reservation here    *)

\* A packer that is about to be full needs room for its burst.
CanReserve(p, b) ==
  /\ ~p.error
  /\ ~ /\ Len(p.bg[b].packer) = RecordsPerBurst - 1
       /\ Len(p.bg[b].pending) >= PendingCapacity

\* What is in the packer becomes the next burst.
Formed(g) ==
  [g EXCEPT !.pending = Append(@, [number |-> g.nextBurst, records |-> g.packer]),
            !.packer = <<>>,
            !.nextBurst = @ + 1]

FormBurst(p, b) ==
  IF Len(p.bg[b].pending) >= PendingCapacity THEN Fail(p)
  ELSE [p EXCEPT !.bg[b] = Formed(@), !.counts.bursts = @ + 1]

Packed(g, b) ==
  [g EXCEPT !.packer = Append(@, [bg |-> b, seq |-> g.lastOutput + 1]),
            !.lastOutput = @ + 1]

CommitReserved(p, b) ==
  LET packed == [p EXCEPT !.bg[b] = Packed(@, b), !.counts.generated = @ + 1]
  IN  IF Len(packed.bg[b].packer) = RecordsPerBurst THEN FormBurst(packed, b) ELSE packed

-----------------------------------------------------------------------------
(* step(): write back *)

Counted(s) == [i \in DOMAIN s |-> [s[i] EXCEPT !.wait = @ - 1]]

\* A new cycle: every transfer under way has one cycle less to go.
NextCycle(p) ==
  IF p.error THEN p
  ELSE [p EXCEPT !.bg = [b \in BG |-> [p.bg[b] EXCEPT !.inflight = Counted(@)]],
                 !.reads = [c \in Channel |-> Counted(p.reads[c])],
                 !.batchWait = IF @ > 0 THEN @ - 1 ELSE 0]

\* The oldest write of a bank group lands in the slot reserved for it.
Landed(g) ==
  [g EXCEPT !.inflight = Tail(@),
            !.resident[Head(g.inflight).slot] = Head(g.inflight).burst,
            !.reserved[Head(g.inflight).slot] = FALSE,
            !.reservedCount = @ - 1]

\* Writes of one bank group are a cycle apart, so at most its oldest is done.
CompleteWrites(p) ==
  LET done == {b \in BG : ~p.error /\ p.bg[b].inflight # <<>> /\ Head(p.bg[b].inflight).wait = 0}
      lost(g, k) == g.reservedCount = 0 \/ ~g.reserved[k] \/ g.reading[k] \/ k \in Resident(g)
  IN  IF \E b \in done : lost(p.bg[b], Head(p.bg[b].inflight).slot) THEN Fail(p)
      ELSE [p EXCEPT !.bg = [b \in BG |-> IF b \in done THEN Landed(p.bg[b]) ELSE p.bg[b]],
                     !.counts.written = @ + Cardinality(done)]

\* A bank group whose tail is due, and one with a tail and room for it.
TailDue(g, done) == ~g.tailFlushed /\ (g.lifecycle \/ done)
HasTail(g, done) == TailDue(g, done) /\ g.packer # <<>> /\ Len(g.pending) < PendingCapacity

\* Mutant: a tail that finds no room is given up.
FlushTail_GivesUp(g, done) ==
  [(IF HasTail(g, done) THEN Formed(g) ELSE g) EXCEPT
     !.lifecycle = @ \/ done, !.tailFlushed = @ \/ TailDue(g, done)]

\* A bank group that has drained sends what is left in its packer as a tail burst.
FlushTail(g, done) ==
  [(IF HasTail(g, done) THEN Formed(g) ELSE g) EXCEPT
     !.lifecycle = @ \/ done,
     !.tailFlushed = @ \/ HasTail(g, done) \/ (TailDue(g, done) /\ g.packer = <<>>)]

FlushEligibleTails(p, drained) ==
  IF p.error THEN p
  ELSE [p EXCEPT !.bg = [b \in BG |-> FlushTail(p.bg[b], drained[b])],
                 !.counts.bursts = @ + Cardinality({b \in BG : HasTail(p.bg[b], drained[b])})]

\* The oldest burst starts its way to the first free slot.
WriteIssued(g) ==
  LET k == Min(FreeSlots(g))
  IN  [g EXCEPT !.pending = Tail(@),
                !.inflight = Append(@, [burst |-> Head(g.pending), slot |-> k,
                                        wait |-> Cycles(WriteLatency)]),
                !.reserved[k] = TRUE,
                !.reservedCount = @ + 1]

\* Per rank, round robin over its bank groups; bursts names those that had a burst
\* pending before this cycle's tails were formed.
IssueWrites(p, bursts) ==
  LET bgAt(r, offset) ==
        r * BankGroupsPerRank + ((p.rankCursor[r] + offset) % BankGroupsPerRank)
      writable(b) ==
        /\ ~p.error /\ b \in bursts
        /\ Len(p.bg[b].inflight) < MaxInflightWrites
        /\ p.bg[b].reservedCount + Cardinality(Resident(p.bg[b])) < BufferCapacity
      offsets(r) == {o \in 0 .. BankGroupsPerRank - 1 : writable(bgAt(r, o))}
      active == {r \in Rank : offsets(r) # {}}
      chosen == [r \in active |-> bgAt(r, Min(offsets(r)))]
  IN  IF \E r \in active : FreeSlots(p.bg[chosen[r]]) = {} THEN Fail(p)
      ELSE [p EXCEPT
             !.bg = [b \in BG |-> IF \E r \in active : chosen[r] = b
                                  THEN WriteIssued(p.bg[b]) ELSE p.bg[b]],
             !.rankCursor = [r \in Rank |-> IF r \in active
                                            THEN (chosen[r] + 1) % BankGroupsPerRank
                                            ELSE p.rankCursor[r]]]

ConservationInvariant(p) ==
  LET bursts(g) == Len(g.pending) + Len(g.inflight) + Cardinality(Resident(g))
  IN  /\ Total([b \in BG |-> bursts(p.bg[b])]) = p.counts.bursts
      /\ Total([b \in BG |-> Total(RecordsIn(p.bg[b].resident))]) = p.counts.generated

UpdateCompletion(p) ==
  IF \/ p.error \/ p.writebackDone
     \/ \E b \in BG : \/ ~p.bg[b].lifecycle \/ ~p.bg[b].tailFlushed
                      \/ p.bg[b].packer # <<>>
                      \/ p.bg[b].pending # <<>>
                      \/ p.bg[b].inflight # <<>>
  THEN p
  ELSE IF ~ConservationInvariant(p) THEN Fail(p)
  ELSE [p EXCEPT !.writebackDone = TRUE]

-----------------------------------------------------------------------------
(* step(): read back *)

\* The reads that are done return their bursts in channel order and free their slots.
CompleteReads(p) ==
  LET ready == {c \in Channel : ~p.error /\ p.reads[c] # <<>> /\ Head(p.reads[c]).wait = 0}
      done == Increasing(ready)
      read == [i \in DOMAIN done |-> Head(p.reads[done[i]])]
      lost(t) == \/ p.bg[t.bg].resident[t.slot].number # t.burst.number
                 \/ ~p.bg[t.bg].reading[t.slot]
      here(b) == {read[i].slot : i \in {j \in DOMAIN read : read[j].bg = b}}
  IN  IF \/ \E i \in DOMAIN read : lost(read[i])
         \/ p.reservedReturn < Len(read)
         \/ Len(p.returned) + Len(read) > ReturnQueueCapacity
      THEN Fail(p)
      ELSE [p EXCEPT
             !.returned = @ \o [i \in DOMAIN read |-> read[i].burst],
             !.reservedReturn = @ - Len(read),
             !.reads = [c \in Channel |-> IF c \in ready THEN Tail(@[c]) ELSE @[c]],
             !.bg = [b \in BG |-> [p.bg[b] EXCEPT
                       !.resident = [k \in BufferSlot |-> IF k \in here(b) THEN NoBurst ELSE @[k]],
                       !.reading = [k \in BufferSlot |-> @[k] /\ k \notin here(b)]]],
             !.counts.readsDone = @ + Len(read),
             !.counts.readRecords = @ + Total([i \in DOMAIN read |-> Len(read[i].burst.records)])]

\* findReadCandidate: the unread burst with the lowest number, if it is the next one.
ReadSlot(g) == {k \in Unread(g) : /\ g.resident[k].number = g.nextRead
                                  /\ \A j \in Unread(g) : g.nextRead <= g.resident[j].number}

\* Mutant: the queue is looked at without the reservations already made.
ReturnRoom_IgnoresReserved(p) == ReturnQueueCapacity - Len(p.returned)

ReturnRoom(p) == ReturnQueueCapacity - (Len(p.returned) + p.reservedReturn)

\* Per channel, round robin over its bank groups; channels are served in order
\* while the return queue has room for one burst more.
IssueReads(p) ==
  LET bgAt(c, offset) ==
        c * BankGroupsPerChannel + ((p.channelCursor[c] + offset) % BankGroupsPerChannel)
      offsets(c) == {o \in 0 .. BankGroupsPerChannel - 1 : ReadSlot(p.bg[bgAt(c, o)]) # {}}
      able == {c \in Channel : /\ ~p.error /\ p.readbackStarted
                               /\ Len(p.reads[c]) < MaxInflightReads /\ offsets(c) # {}}
      active == {c \in able : Cardinality({d \in able : d < c}) < ReturnRoom(p)}
      chosen == [c \in active |-> bgAt(c, Min(offsets(c)))]
      slot == [c \in active |-> Min(ReadSlot(p.bg[chosen[c]]))]
      issued(c) == [burst |-> p.bg[chosen[c]].resident[slot[c]], bg |-> chosen[c],
                    slot |-> slot[c], wait |-> Cycles(ReadLatency)]
      begun(b) == {c \in active : chosen[c] = b}
  IN  [p EXCEPT
        !.reads = [c \in Channel |-> IF c \in active THEN Append(@[c], issued(c)) ELSE @[c]],
        !.reservedReturn = @ + Cardinality(active),
        !.channelCursor = [c \in Channel |-> IF c \in active
                                             THEN (chosen[c] + 1) % BankGroupsPerChannel
                                             ELSE @[c]],
        !.bg = [b \in BG |-> [p.bg[b] EXCEPT
                  !.reading = [k \in BufferSlot |-> @[k] \/ \E c \in begun(b) : slot[c] = k],
                  !.nextRead = @ + Cardinality(begun(b))]],
        !.counts.readsIssued = @ + Cardinality(active)]

ReadbackConservation(p) ==
  /\ p.counts.readsIssued = p.counts.written
  /\ p.counts.readsDone = p.counts.readsIssued
  /\ p.counts.readRecords = p.counts.generated

UpdateReadTransportCompletion(p) ==
  IF \/ p.error \/ ~p.readbackStarted \/ p.transportDone
     \/ \E c \in Channel : p.reads[c] # <<>>
     \/ p.reservedReturn # 0
     \/ \E b \in BG : Resident(p.bg[b]) # {} \/ \E k \in BufferSlot : p.bg[b].reading[k]
  THEN p
  ELSE IF ~ReadbackConservation(p) THEN Fail(p)
  ELSE [p EXCEPT !.transportDone = TRUE]

\* stepHostReadback: the cycle in which the last write completes only starts the
\* read back, so this comes after the phases above, which wait for it.
StartHostReadback(p) == [p EXCEPT !.readbackStarted = @ \/ (p.writebackDone /\ ~p.error)]

-----------------------------------------------------------------------------
(* step(): host reduction *)

CompleteReductionBatch(p) ==
  IF p.error \/ p.batch = <<>> \/ p.batchWait > 0 THEN p
  ELSE [p EXCEPT !.added = @ \o p.batch,
                 !.counts.reduced = @ + Len(p.batch),
                 !.batch = <<>>]

\* visible: the first returned burst was returned in an earlier cycle.
AcceptReturnedBurst(p, visible) ==
  IF p.error \/ ~visible THEN p
  ELSE LET records == Head(p.returned).records
       IN  IF ReductionQueueCapacity - Len(p.queue) < Len(records) THEN p
           ELSE [p EXCEPT !.returned = Tail(@),
                          !.counts.delivered = @ + 1,
                          !.queue = @ \o records,
                          !.counts.enqueued = @ + Len(records)]

\* eligible: the records that were in the queue before this cycle.
IssueReductionBatch(p, eligible) ==
  LET n == Min({ReduceRecordsPerCycle, eligible})
  IN  IF p.error \/ p.batch # <<>> \/ n = 0 THEN p
      ELSE [p EXCEPT !.batch = SubSeq(p.queue, 1, n),
                     !.queue = SubSeq(@, n + 1, Len(@)),
                     !.batchWait = Cycles(ReduceLatency),
                     !.counts.issued = @ + n]

ReductionConservation(p) ==
  /\ p.counts.enqueued = p.counts.readRecords
  /\ p.counts.issued = p.counts.enqueued
  /\ p.counts.reduced = p.counts.issued

\* Mutant: the batch that is being added is overlooked.
UpdateHostCompletion_IgnoresBatch(p) ==
  LET readback == \/ p.readbackDone
                  \/ /\ p.transportDone /\ p.returned = <<>> /\ p.reservedReturn = 0
                     /\ p.counts.delivered = p.counts.readsDone
  IN  IF p.error THEN p
      ELSE [p EXCEPT !.readbackDone = readback, !.reductionDone = @ \/ (readback /\ p.queue = <<>>)]

UpdateHostCompletion(p) ==
  LET readback == \/ p.readbackDone
                  \/ /\ p.transportDone /\ p.returned = <<>> /\ p.reservedReturn = 0
                     /\ p.counts.delivered = p.counts.readsDone
      reduced == readback /\ p.queue = <<>> /\ p.batch = <<>>
  IN  IF p.error THEN p
      ELSE IF reduced /\ ~p.reductionDone /\ ~ReductionConservation(p)
      THEN [Fail(p) EXCEPT !.readbackDone = readback]
      ELSE [p EXCEPT !.readbackDone = readback, !.reductionDone = @ \/ reduced]

\* t is the state step() leaves in p: after a failure no phase does anything.
\* (Each phase is bound to its value, so that TLC computes it once.)
Step(p, drained, t) ==
  \E n \in {NextCycle(p)} :
    \E w \in {CompleteWrites(n)} :
      \E f \in {FlushEligibleTails(w, drained)} :
        \E i \in {IssueWrites(f, {b \in BG : w.bg[b].pending # <<>>})} :
          \E u \in {UpdateCompletion(i)} :
            \E c \in {CompleteReads(u)} :
              \E r \in {StartHostReadback(UpdateReadTransportCompletion(IssueReads(c)))} :
                \E h \in {CompleteReductionBatch(r)} :
                  \E a \in {AcceptReturnedBurst(h, u.returned # <<>>)} :
                    t = UpdateHostCompletion(IssueReductionBatch(a, Len(h.queue)))

-----------------------------------------------------------------------------
(* The path between its producers and the clock *)

VARIABLES
  path,      \* the path
  drained    \* per bank group: its accumulator has finished and handed over everything

vars == <<path, drained>>

Init ==
  /\ path = PathInit
  /\ drained = [b \in BG |-> FALSE]

\* transferCSCBGAOutput: the source's records are numbered one by one.
Transfer(b) ==
  /\ ~drained[b]
  /\ path.bg[b].lastOutput < MaxRecords[b]
  /\ CanReserve(path, b)
  /\ path' = CommitReserved(path, b)
  /\ UNCHANGED drained

\* finalDrainComplete and no output left, for good.
Drain(b) ==
  /\ ~drained[b]
  /\ drained' = [drained EXCEPT ![b] = TRUE]
  /\ UNCHANGED path

Tick == Step(path, drained, path') /\ UNCHANGED drained

Next == \/ \E b \in BG : Transfer(b) \/ Drain(b)
        \/ Tick

Spec == Init /\ [][Next]_vars

\* CSCNativeExecution::tick steps the path in every cycle.
FairSpec == Spec /\ WF_vars(Tick)

-----------------------------------------------------------------------------
(* Properties *)

RecordType == [bg : BG, seq : Nat]
BurstType  == [number : Nat, records : Seq(RecordType)]

BGType ==
  [packer : Seq(RecordType), pending : Seq(BurstType),
   inflight : Seq([burst : BurstType, slot : BufferSlot, wait : Nat \ {0}]),
   resident : [BufferSlot -> BurstType],
   reserved : [BufferSlot -> BOOLEAN], reservedCount : Nat,
   reading : [BufferSlot -> BOOLEAN],
   lastOutput : Nat, nextBurst : Nat \ {0}, nextRead : Nat \ {0},
   lifecycle : BOOLEAN, tailFlushed : BOOLEAN]

TypeOK ==
  /\ path.bg \in [BG -> BGType]
  /\ path.rankCursor \in [Rank -> 0 .. BankGroupsPerRank - 1]
  /\ path.channelCursor \in [Channel -> 0 .. BankGroupsPerChannel - 1]
  /\ path.reads \in [Channel -> Seq([burst : BurstType, bg : BG, slot : BufferSlot,
                                     wait : Nat \ {0}])]
  /\ path.returned \in Seq(BurstType) /\ path.reservedReturn \in Nat
  /\ path.queue \in Seq(RecordType) /\ path.batch \in Seq(RecordType)
  /\ path.batchWait \in Nat
  /\ path.added \in Seq(RecordType)
  /\ \A c \in DOMAIN path.counts : path.counts[c] \in Nat
  /\ {path.writebackDone, path.readbackStarted, path.transportDone, path.readbackDone,
      path.reductionDone, path.error} \subseteq BOOLEAN
  /\ drained \in [BG -> BOOLEAN]

\* None of the fail() calls of the path is reachable from a well-behaved source: a
\* write finds the slot reserved for it, a returned burst the place reserved for
\* it, and the three conservation checks hold when they are made.
NoPathError == ~path.error

\* Every place is claimed once: a buffer slot by one write, by one resident burst
\* or by the read of that burst, and a place of the return queue by each read.
PlacesClaimedOnce ==
  /\ \A b \in BG :
       LET g == path.bg[b]
           claimed == {g.inflight[i].slot : i \in DOMAIN g.inflight}
           readers == {r \in Channel \X (1 .. MaxInflightReads) :
                         r[2] <= Len(path.reads[r[1]]) /\ path.reads[r[1]][r[2]].bg = b}
       IN  /\ claimed = {k \in BufferSlot : g.reserved[k]}
           /\ claimed \cap Resident(g) = {}
           /\ Cardinality(claimed) = Len(g.inflight) /\ g.reservedCount = Len(g.inflight)
           /\ {k \in BufferSlot : g.reading[k]} = {path.reads[r[1]][r[2]].slot : r \in readers}
           /\ {k \in BufferSlot : g.reading[k]} \subseteq Resident(g)
           /\ Cardinality({k \in BufferSlot : g.reading[k]}) = Cardinality(readers)
  /\ path.reservedReturn = Total([c \in Channel |-> Len(path.reads[c])])
  /\ Len(path.returned) + path.reservedReturn <= ReturnQueueCapacity

\* The path stays in its declared domains, claims no place twice and fails no
\* conservation check.
SafeState == TypeOK /\ NoPathError /\ PlacesClaimedOnce

Delivery == INSTANCE ResultDelivery WITH
  Source   <- BG,
  sent     <- [b \in BG |-> path.bg[b].lastOutput],
  added    <- path.added,
  complete <- path.reductionDone

\* Every record is added once, each bank group's in the order it sent them (the
\* FP32 sum of a row is reproducible), and hostReductionComplete() means all of
\* them are added.
ImplementsDelivery == Delivery!DeliverySpec

\* Once every accumulator has drained, the reduction completes.  (All bursts of a
\* bank group fit its buffer in this instance: the read back starts after the last
\* write, so otherwise it would never start.)
ResultsDelivered == (\A b \in BG : drained[b]) ~> path.reductionDone
=============================================================================
