---------------------- MODULE CSCFp16PartialResultPath ----------------------
(***************************************************************************)
(* csc_descriptor::CSCFp16PartialResultPath, as operators on its state.    *)
(* Records of the bank groups are packed into bursts, written to a region  *)
(* per bank group, read back when every write of every bank group is done, *)
(* and added up by the host in the fixed order bank group, burst, slot,    *)
(* whatever the order in which the reads returned.                         *)
(*                                                                         *)
(* A record is [bg, seq]; its row and value are those of the output event  *)
(* it was made from.  A completion cycle is represented by the cycles      *)
(* left.  The issue limits per cycle have their default, 1; there is one   *)
(* rank per channel, as the configuration check demands.  Byte counters,   *)
(* traces and statistics are left out.                                     *)
(***************************************************************************)
EXTENDS Integers, Sequences, FiniteSets, FiniteSetsExt, SequencesExt

CONSTANTS
  Channels, BankGroupsPerRank,
  RecordsPerBurst,        \* 4 in the code
  PendingCapacity,        \* pending_capacity_bursts_per_bg
  WriteLatency, MaxInflightWrites,   \* write_latency_cycles, max_inflight_writes_per_bg
  ReadLatency, MaxInflightReads,     \* read_latency_cycles, max_inflight_reads_per_channel
  ReduceRecordsPerCycle,  \* host_reduce_records_per_cycle
  ReduceLatency           \* host_reduce_latency_cycles

BG      == 0 .. Channels * BankGroupsPerRank - 1
Channel == 0 .. Channels - 1
InOrder(S) == SetToSortSeq(S, <)

TransportBG ==
  [packer |-> <<>>, pending |-> <<>>, writes |-> <<>>, resident |-> <<>>,
   lastOutput |-> 0, nextBurst |-> 1, lifecycle |-> FALSE, tailFlushed |-> FALSE]

\* rejects: write_reject_budget_ and read_reject_budget_.
PathInit(rejects) ==
  [bg             |-> [b \in BG |-> TransportBG],
   writeCursor    |-> [c \in Channel |-> 0],
   readCursor     |-> [c \in Channel |-> 0],
   reads          |-> [c \in Channel |-> <<>>],
   returned       |-> {},
   reduceBG       |-> 0, reduceBurst |-> 1, reduceSlot |-> 1, reduceWait |-> 0,
   added          |-> <<>>,                     \* final_y_
   writeRejects   |-> rejects, readRejects |-> rejects,
   counts         |-> [accepted |-> 0, bursts |-> 0, writes |-> 0, written |-> 0,
                       reads |-> 0, read |-> 0],
   writebackDone  |-> FALSE, readbackDone |-> FALSE, reductionDone |-> FALSE,
   endToEnd       |-> FALSE, error |-> FALSE]

PathFail(p) == [p EXCEPT !.error = TRUE]

PathDone(p) == p.endToEnd /\ ~p.error

-----------------------------------------------------------------------------
(* accept                                                                  *)

\* ready: an output out of sequence is an error; a packer that would be full
\* needs room for its burst.
OutOfSequence(p, b, output) == output.sequence # p.bg[b].lastOutput + 1

HasRoom(p, b) ==
  ~(Len(p.bg[b].packer) = RecordsPerBurst - 1 /\ Len(p.bg[b].pending) >= PendingCapacity)

FormBurst(p, b) ==
  LET g == p.bg[b]
      burst == [bg |-> b, number |-> g.nextBurst, records |-> g.packer]
  IN  IF g.packer = <<>> \/ Len(g.pending) >= PendingCapacity THEN PathFail(p)
      ELSE [p EXCEPT !.bg[b].pending = Append(@, burst), !.bg[b].packer = <<>>,
                     !.bg[b].nextBurst = @ + 1, !.counts.bursts = @ + 1]

PathAccepts(p, b, output) == ~p.error /\ ~OutOfSequence(p, b, output) /\ HasRoom(p, b)

PathAccept(p, b, output) ==
  LET packed == [p EXCEPT !.bg[b].packer = Append(@, [bg |-> b, seq |-> output.sequence]),
                          !.bg[b].lastOutput = output.sequence,
                          !.counts.accepted = @ + 1]
  IN  IF OutOfSequence(p, b, output) THEN PathFail(p)
      ELSE IF ~PathAccepts(p, b, output) THEN p
      ELSE IF Len(packed.bg[b].packer) = RecordsPerBurst THEN FormBurst(packed, b)
      ELSE packed

-----------------------------------------------------------------------------
(* step(): write back                                                      *)

NextCycle(p) ==
  LET counted(s) == [i \in DOMAIN s |-> [s[i] EXCEPT !.wait = @ - 1]]
  IN  [p EXCEPT !.bg = [b \in BG |-> [p.bg[b] EXCEPT !.writes = counted(@)]],
                !.reads = [c \in Channel |-> counted(p.reads[c])],
                !.reduceWait = Max({0, @ - 1})]

\* The writes of one bank group are a cycle apart: at most the oldest is done.
CompleteWrites(p) ==
  LET done == {b \in BG : p.bg[b].writes # <<>> /\ Head(p.bg[b].writes).wait <= 0}
      written(g) == [g EXCEPT !.writes = Tail(@),
                              !.resident = Append(@, Head(g.writes).burst)]
  IN  [p EXCEPT !.bg = [b \in BG |-> IF b \in done THEN written(p.bg[b]) ELSE p.bg[b]],
                !.counts.written = @ + Cardinality(done)]

\* Mutant: a tail that finds no room is not tried again.
FlushTail_Once(p, b) ==
  LET formed == IF p.bg[b].packer # <<>> /\ Len(p.bg[b].pending) < PendingCapacity
                THEN FormBurst(p, b) ELSE p
  IN  [formed EXCEPT !.bg[b].tailFlushed = TRUE]

\* A bank group that has drained sends what is left in its packer.
FlushTail(p, b) ==
  LET formed == IF p.bg[b].packer # <<>> /\ Len(p.bg[b].pending) < PendingCapacity
                THEN FormBurst(p, b) ELSE p
  IN  [formed EXCEPT !.bg[b].tailFlushed = formed.bg[b].packer = <<>>]

FlushTails(p, drained) ==
  LET seen == [p EXCEPT !.bg = [b \in BG |-> [p.bg[b] EXCEPT !.lifecycle = @ \/ drained[b]]]]
      open == {b \in BG : seen.bg[b].lifecycle /\ ~seen.bg[b].tailFlushed}
  IN  FoldLeft(FlushTail, seen, InOrder(open))

\* Round robin over the bank groups of a channel: those that are willing, in the
\* order they are looked at.
BGAt(c, offset) == c * BankGroupsPerRank + (offset % BankGroupsPerRank)
Scan(cursor, c, willing) ==
  InOrder({o \in cursor .. cursor + BankGroupsPerRank - 1 : BGAt(c, o) \in willing})

\* Each willing one up to the first for which no rejection is left is rejected.
\* The cursor stops behind the one served, or has gone all the way round.
Serve(cursor, c, willing, rejects) ==
  LET order == Scan(cursor, c, willing)
      found == rejects < Len(order)
  IN  [found   |-> found,
       bg      |-> IF found THEN BGAt(c, order[rejects + 1]) ELSE 0,
       cursor  |-> (IF found THEN order[rejects + 1] + 1 ELSE cursor) % BankGroupsPerRank,
       rejects |-> Max({0, rejects - Len(order)})]

Writable(p, fresh, capacity) ==
  {b \in BG \ fresh : /\ p.bg[b].pending # <<>>
                      /\ Len(p.bg[b].writes) < MaxInflightWrites
                      /\ Len(p.bg[b].resident) + Len(p.bg[b].writes) < capacity}

\* fresh: the bank groups whose first burst was formed in this very cycle.
IssueWrites(p, fresh, capacity) ==
  LET one(q, c) ==
        LET s == Serve(q.writeCursor[c], c, Writable(q, fresh, capacity), q.writeRejects)
            moved == [q EXCEPT !.writeCursor[c] = s.cursor, !.writeRejects = s.rejects]
        IN  IF ~s.found THEN moved
            ELSE [moved EXCEPT
                    !.bg[s.bg].pending = Tail(@),
                    !.bg[s.bg].writes = Append(@, [burst |-> Head(q.bg[s.bg].pending),
                                                   wait |-> WriteLatency]),
                    !.counts.writes = @ + 1]
  IN  FoldLeft(one, p, InOrder(Channel))

AllWritesComplete(p) ==
  \A b \in BG : LET g == p.bg[b]
                IN  /\ g.lifecycle /\ g.tailFlushed
                    /\ g.packer = <<>> /\ g.pending = <<>> /\ g.writes = <<>>

-----------------------------------------------------------------------------
(* step(): read back and reduction                                         *)

CompleteReads(p) ==
  LET done == {c \in Channel : p.reads[c] # <<>> /\ Head(p.reads[c]).wait <= 0}
      back == {Head(p.reads[c]).burst : c \in done}
  IN  IF back \cap p.returned # {} THEN PathFail(p)
      ELSE [p EXCEPT !.returned = @ \cup back,
                     !.reads = [c \in Channel |-> IF c \in done THEN Tail(p.reads[c])
                                                                ELSE p.reads[c]],
                     !.counts.read = @ + Cardinality(done)]

IssueReads(p) ==
  LET one(q, c) ==
        LET s == Serve(q.readCursor[c], c, {b \in BG : q.bg[b].resident # <<>>}, q.readRejects)
            moved == [q EXCEPT !.readCursor[c] = s.cursor, !.readRejects = s.rejects]
        IN  IF Len(q.reads[c]) >= MaxInflightReads THEN q
            ELSE IF ~s.found THEN moved
            ELSE [moved EXCEPT
                    !.bg[s.bg].resident = Tail(@),
                    !.reads[c] = Append(@, [burst |-> Head(q.bg[s.bg].resident),
                                            wait |-> ReadLatency]),
                    !.counts.reads = @ + 1]
  IN  FoldLeft(one, p, InOrder(Channel))

AllReadsComplete(p) ==
  /\ \A b \in BG : p.bg[b].resident = <<>>
  /\ \A c \in Channel : p.reads[c] = <<>>
  /\ p.counts.read = p.counts.bursts

\* The burst under the cursor, if it has returned.
UnderCursor(p) == {t \in p.returned : t.bg = p.reduceBG /\ t.number = p.reduceBurst}

\* Mutant: the burst at hand is reduced, in the order the reads return.
ReduceMove_AnyBurst(p) ==
  IF p.returned = {} THEN p
  ELSE LET burst == CHOOSE t \in p.returned : TRUE
       IN  IF p.reduceSlot > Len(burst.records)
           THEN [p EXCEPT !.returned = @ \ {burst}, !.reduceSlot = 1,
                          !.reduceBG = IF p.returned = {burst} /\ AllReadsComplete(p)
                                       THEN Cardinality(BG) ELSE @]
           ELSE [p EXCEPT !.added = Append(@, burst.records[p.reduceSlot]), !.reduceSlot = @ + 1]

\* One turn of the loop of reduceOrdered: past the last burst of a bank group,
\* past the last record of a burst, or one record added; it waits for its burst.
ReduceMove(p) ==
  IF p.reduceBG \notin BG THEN p
  ELSE IF p.reduceBurst >= p.bg[p.reduceBG].nextBurst
  THEN [p EXCEPT !.reduceBG = @ + 1, !.reduceBurst = 1, !.reduceSlot = 1]
  ELSE IF UnderCursor(p) = {} THEN p
  ELSE LET burst == CHOOSE t \in UnderCursor(p) : TRUE
       IN  IF p.reduceSlot > Len(burst.records)
           THEN [p EXCEPT !.returned = @ \ {burst}, !.reduceBurst = @ + 1, !.reduceSlot = 1]
           ELSE [p EXCEPT !.added = Append(@, burst.records[p.reduceSlot]), !.reduceSlot = @ + 1]

RECURSIVE ReduceUpTo(_, _)
ReduceUpTo(p, limit) ==
  LET moved == ReduceMove(p)
  IN  IF Len(p.added) >= limit \/ moved = p THEN p ELSE ReduceUpTo(moved, limit)

ReduceOrdered(p) ==
  LET reduced == ReduceUpTo(p, Len(p.added) + ReduceRecordsPerCycle)
  IN  IF p.reduceWait > 0 THEN p
      ELSE IF Len(reduced.added) = Len(p.added) THEN reduced
      ELSE [reduced EXCEPT !.reduceWait = ReduceLatency]

\* The checks of the counters against each other at the end.
Conserved(p, reduce) ==
  /\ p.counts.writes = p.counts.read /\ p.counts.bursts = p.counts.read
  /\ IF reduce THEN p.counts.accepted = Len(p.added)
     ELSE p.counts.writes = p.counts.written /\ p.counts.writes = p.counts.reads

UpdateCompletion(p, reduce) ==
  LET finished == IF reduce THEN p.reduceBG \notin BG /\ p.returned = {} ELSE TRUE
  IN  IF ~p.readbackDone \/ ~finished \/ p.endToEnd THEN p
      ELSE IF ~Conserved(p, reduce) THEN PathFail(p)
      ELSE [p EXCEPT !.endToEnd = TRUE, !.reductionDone = reduce]

ReadBack(p, reduce) ==
  LET issued == IssueReads(CompleteReads(p))
      read == [issued EXCEPT !.readbackDone = @ \/ AllReadsComplete(issued)]
  IN  UpdateCompletion(IF reduce THEN ReduceOrdered(read) ELSE read, reduce)

\* The whole of step(); capacity is buffer_capacity_bursts_per_bg.  The read back
\* starts in the cycle that sees the last write done.
PathStep(p, drained, reduce, capacity) ==
  LET w == CompleteWrites(NextCycle(p))
      f == FlushTails(w, drained)
      fresh == {b \in BG : w.bg[b].pending = <<>>}
      i == IssueWrites(f, fresh, capacity)
      u == [i EXCEPT !.writebackDone = @ \/ AllWritesComplete(i)]
  IN  IF p.error \/ PathDone(p) THEN p
      ELSE IF u.writebackDone THEN ReadBack(u, reduce)
      ELSE u
=============================================================================
