------------------- MODULE CSCBankGroupAccumulator_proofs -------------------
(***************************************************************************)
(* Proofs about CSCBankGroupAccumulator, for every size, latency and set   *)
(* of offers: type correctness, bounded queues, the absence of every throw *)
(* of the datapath, and the exclusion of the datapath by an eviction; then *)
(* the conservation of the products, and the order of their additions.     *)
(***************************************************************************)
EXTENDS CSCBankGroupAccumulator, SequenceTheorems, FiniteSetTheorems,
        WellFoundedInduction, TLAPS

-----------------------------------------------------------------------------
(* The inductive invariant, on a state s, in named parts.  Every phase of  *)
(* step() preserves it.                                                    *)

\* A slot is reserved iff exactly one output record owns it.
SlotOwnership(s) ==
  /\ \A k \in Slot : s.acc[k].reserved => s.acc[k].valid
  /\ \A k \in Slot : s.acc[k].reserved => \E i \in 1 .. Len(s.output) : s.output[i].slot = k
  /\ \A i \in 1 .. Len(s.output) : s.acc[s.output[i].slot].reserved
  /\ \A i, j \in 1 .. Len(s.output) : s.output[i].slot = s.output[j].slot => i = j

UniqueTags(s) ==
  \A k, j \in LiveSlots(s) : k # j => s.acc[k].row # s.acc[j].row

\* The target chosen when an operation started is still right when it commits.
OperationReady(s) ==
  s.op # NoOperation =>
    /\ s.output = <<>> /\ ~s.miss.active
    /\ s.op.kind # "NONE" /\ s.op.remaining > 0
    /\ s.op.kind = "MERGE" =>
         s.op.slot \in LiveSlots(s) /\ s.acc[s.op.slot].row = s.op.input.row
    /\ s.op.kind = "INSERT" =>
         /\ s.op.slot \in FreeSlots(s)
         /\ \A k \in LiveSlots(s) : s.acc[k].row # s.op.input.row

\* The three stages of a pending miss: victim chosen, record pushed, slot freed.
MissProgress(s) ==
  s.miss.active =>
    /\ \A k \in LiveSlots(s) : s.acc[k].row # s.miss.input.row
    /\ \/ /\ s.miss.eviction = 0 /\ ~s.miss.awaiting
          /\ s.output = <<>> /\ FreeSlots(s) = {} /\ s.miss.victim \in LiveSlots(s)
       \/ /\ s.miss.eviction # 0 /\ s.miss.awaiting
          /\ Len(s.output) = 1 /\ s.output[1].seq = s.miss.eviction
          /\ s.output[1].slot = s.miss.victim
       \/ /\ s.miss.eviction # 0 /\ ~s.miss.awaiting
          /\ s.output = <<>> /\ s.miss.victim \in FreeSlots(s)

\* Records other than an eviction exist only when nothing more can come in.
OutputExclusion(s) ==
  /\ s.output # <<>> /\ ~s.miss.active => s.draining /\ ~InputPending(s)
  /\ s.retiring => s.output # <<>>
  /\ Len(s.output) <= OutputQueueDepth

InputsBounded(s) ==
  /\ \A st \in Stream : Len(s.queue[st]) + Len(s.accepted[st].rows) <= InputQueueDepth
  /\ \A st \in Stream : s.accepted[st] # NoBatch => s.presented[st] = NoBatch
  /\ \A st \in Stream : s.accepted[st] # NoBatch => s.accepted[st].stream = st
  /\ \A st \in Stream : s.done[st] => s.presented[st] = NoBatch
  /\ s.draining => AllProducersDone(s)

DatapathInv(s) ==
  /\ s \in BGAType
  /\ s.fault = "none"
  /\ SlotOwnership(s)
  /\ UniqueTags(s)
  /\ OperationReady(s)
  /\ MissProgress(s)
  /\ OutputExclusion(s)
  /\ InputsBounded(s)

\* What holds between two calls: the invariant, or the count of conservation has
\* failed, which is shown below never to happen.
ConservationFault == "contribution conservation invariant"

IInv ==
  /\ bga \in BGAType
  /\ DatapathInv([bga EXCEPT !.fault = "none"])
  /\ bga.fault \in {"none", ConservationFault}
  /\ handed \in Seq([row : Row, value : Seq(Contribution)])

-----------------------------------------------------------------------------
(* Choices of the code always find what they choose.                       *)

\* A nonempty set of numbers has a least element.
LEMMA LowestExists ==
  ASSUME NEW N \in SUBSET Nat, N # {}
  PROVE  Lowest(N) \in N /\ \A m \in N : Lowest(N) <= m
<1>1. PICK n \in N : \A m \in N : <<m, n>> \notin OpToRel(<, Nat)
  BY NatLessThanWellFounded, WFMin
<1>2. ASSUME NEW m \in N PROVE n <= m
  <2>1. m \in Nat /\ n \in Nat OBVIOUS
  <2>2. ~(m < n) BY <1>1, <2>1 DEF OpToRel
  <2> QED BY <2>1, <2>2
<1>3. \E x \in N : \A m \in N : x <= m BY <1>2
<1> QED BY <1>3 DEF Lowest

\* The oldest entry of a nonempty set of slots is one of them.
LEMMA OldestExists ==
  ASSUME NEW s \in BGAType, NEW slots \in SUBSET Slot, slots # {}
  PROVE  Oldest(s, slots) \in slots
<1> DEFINE ages == {s.acc[k].age : k \in slots}
           eldest == {k \in slots : s.acc[k].age = Lowest(ages)}
<1>0. s.acc \in [Slot -> Entry] /\ Slot \subseteq Nat BY BGAConfigAssumption DEF BGAType, Slot
<1>1. \A k \in slots : s.acc[k].age \in Nat BY <1>0 DEF Entry
<1>2. ages \in SUBSET Nat /\ ages # {} BY <1>1
<1>3. Lowest(ages) \in ages /\ \A a \in ages : Lowest(ages) <= a BY <1>2, LowestExists
<1>4. eldest \in SUBSET Nat /\ eldest # {} BY <1>0, <1>3
<1>5. Lowest(eldest) \in eldest /\ \A k \in eldest : Lowest(eldest) <= k BY <1>4, LowestExists
<1> DEFINE o == Lowest(eldest)
<1>6. o \in slots /\ s.acc[o].age = Lowest(ages) BY <1>5
<1>7. ASSUME NEW j \in slots
      PROVE  \/ s.acc[o].age < s.acc[j].age
             \/ s.acc[o].age = s.acc[j].age /\ o <= j
  <2>1. Lowest(ages) <= s.acc[j].age BY <1>3
  <2>2. CASE s.acc[j].age = Lowest(ages) BY <1>5, <1>6, <2>2
  <2>3. CASE s.acc[j].age # Lowest(ages) BY <1>1, <1>2, <1>3, <1>6, <2>1, <2>3
  <2> QED BY <2>2, <2>3
<1>8. \E k \in slots : \A j \in slots : \/ s.acc[k].age < s.acc[j].age
                                        \/ s.acc[k].age = s.acc[j].age /\ k <= j
  BY <1>6, <1>7
<1> HIDE DEF o
<1> QED BY <1>8 DEF Oldest

-----------------------------------------------------------------------------
(* Types *)

LEMMA SmallValues ==
  /\ 0 \in Slot /\ 0 \in Row /\ 0 \in Stream
  /\ Slot \subseteq Nat /\ Stream \subseteq Nat
  /\ NoContribution \in Contribution
  /\ NoBatch \in Batch
  /\ FreeEntry \in Entry
  /\ NoOperation \in Operation
<1>1. 0 \in Slot /\ 0 \in Row /\ 0 \in Stream /\ Slot \subseteq Nat /\ Stream \subseteq Nat
  BY BGAConfigAssumption DEF Slot, Row, Stream
<1>2. NoContribution \in Contribution BY <1>1 DEF NoContribution, Contribution
<1> QED BY <1>1, <1>2 DEF NoBatch, Batch, FreeEntry, Entry, NoOperation, Operation

\* The pending miss, and the initial state.
LEMMA InitialState == BGAInit \in BGAType
<1>1. NoMiss \in PendingMiss BY SmallValues DEF NoMiss, PendingMiss
<1>2. /\ [st \in Stream |-> <<>>] \in [Stream -> Seq(Contribution)]
      /\ [st \in Stream |-> NoBatch] \in [Stream -> Batch]
      /\ [st \in Stream |-> FALSE] \in [Stream -> BOOLEAN]
      /\ [k \in Slot |-> FreeEntry] \in [Slot -> Entry]
      /\ <<>> \in Seq(Record)
  BY SmallValues
<1>3. 1 \in Nat \ {0} /\ 0 \in Nat /\ "none" \in Faults BY DEF Faults
<1> QED BY <1>1, <1>2, <1>3, SmallValues, Zenon DEF BGAInit, BGAType

\* The places of a finite family of lengths are finitely many.
LEMMA PlacesFinite ==
  ASSUME NEW D, IsFiniteSet(D), NEW what, NEW f \in [D -> Nat]
  PROVE  IsFiniteSet(Places(what, f))
<1> DEFINE T(d) == {<<what, d, i>> : i \in 1 .. f[d]}
           R == {T(d) : d \in D}
           P == [d \in D |-> T(d)]
<1>1. ASSUME NEW d \in D PROVE IsFiniteSet(T(d))
  <2> DEFINE g == [i \in 1 .. f[d] |-> <<what, d, i>>]
  <2>1. g \in Surjection(1 .. f[d], T(d)) BY DEF Surjection
  <2>2. IsFiniteSet(1 .. f[d]) BY FS_Interval
  <2> HIDE DEF T, g
  <2> QED BY <2>1, <2>2, FS_Surjection
<1>2. IsFiniteSet(R)
  <2>1. P \in [D -> R] /\ \A t \in R : \E d \in D : P[d] = t OBVIOUS
  <2>2. P \in Surjection(D, R) BY <2>1, Zenon DEF Surjection
  <2> HIDE DEF P, R
  <2> QED BY <2>2, FS_Surjection
<1>3. Places(what, f) = UNION R BY DEF Places
<1>4. \A t \in R : IsFiniteSet(t) BY <1>1
<1> HIDE DEF T, R
<1> QED BY <1>2, <1>3, <1>4, FS_UNION

\* What a state holds can be counted.
LEMMA CountIsNat ==
  ASSUME NEW s \in BGAType
  PROVE  LiveContributionCount(s) \in Nat
<1> DEFINE q == [st \in Stream |-> Len(s.queue[st])]
           a == [st \in Stream |-> Len(s.accepted[st].rows)]
           e == [k \in LiveSlots(s) |-> Len(s.acc[k].value)]
           o == [n \in 1 .. Len(s.output) |-> Len(s.output[n].value)]
           p == [n \in {0} |-> IF s.op # NoOperation THEN 1 ELSE 0]
           m == [n \in {0} |-> IF s.miss.active THEN 1 ELSE 0]
<1>1. /\ q \in [Stream -> Nat] /\ a \in [Stream -> Nat]
      /\ e \in [LiveSlots(s) -> Nat]
      /\ o \in [1 .. Len(s.output) -> Nat]
      /\ p \in [{0} -> Nat] /\ m \in [{0} -> Nat]
  <2>1. q \in [Stream -> Nat] BY DEF BGAType
  <2>2. a \in [Stream -> Nat] BY DEF BGAType, Batch
  <2>3. e \in [LiveSlots(s) -> Nat] BY DEF BGAType, Entry, LiveSlots
  <2>4. o \in [1 .. Len(s.output) -> Nat] BY SMTT(20) DEF BGAType, Record
  <2> QED BY <2>1, <2>2, <2>3, <2>4
<1>2. /\ IsFiniteSet(Stream)
      /\ IsFiniteSet(LiveSlots(s))
      /\ IsFiniteSet(1 .. Len(s.output))
      /\ IsFiniteSet({0})
  <2>1. IsFiniteSet(Stream) /\ IsFiniteSet(Slot)
    BY BGAConfigAssumption, FS_Interval DEF Stream, Slot
  <2>2. IsFiniteSet(LiveSlots(s)) BY <2>1, FS_Subset DEF LiveSlots
  <2>3. IsFiniteSet(1 .. Len(s.output)) BY FS_Interval DEF BGAType
  <2> QED BY <2>1, <2>2, <2>3, FS_Singleton
<1>3. HeldPlaces(s) = Places("queue", q) \cup Places("accepted", a) \cup Places("entry", e)
                      \cup Places("output", o) \cup Places("operation", p)
                      \cup Places("miss", m)
  BY DEF HeldPlaces
<1> HIDE DEF q, a, e, o, p, m
<1>4. IsFiniteSet(HeldPlaces(s))
  <2>1. /\ IsFiniteSet(Places("queue", q)) /\ IsFiniteSet(Places("accepted", a))
        /\ IsFiniteSet(Places("entry", e)) /\ IsFiniteSet(Places("output", o))
        /\ IsFiniteSet(Places("operation", p)) /\ IsFiniteSet(Places("miss", m))
    BY <1>1, <1>2, PlacesFinite
  <2> QED BY <1>3, <2>1, FS_Union
<1> QED BY <1>4, FS_CardinalityType DEF LiveContributionCount

-----------------------------------------------------------------------------
(* The phases of step() keep the invariant *)

\* The value of a record on its way out, and everything else named at its front.
LEMMA FrontFacts ==
  ASSUME NEW s \in BGAType, s.output # <<>>
  PROVE  /\ Head(s.output) = s.output[1]
         /\ s.output[1] \in Record
         /\ Tail(s.output) \in Seq(Record)
         /\ Len(Tail(s.output)) = Len(s.output) - 1
         /\ \A i \in 1 .. Len(Tail(s.output)) : Tail(s.output)[i] = s.output[i + 1]
         /\ Len(s.output) \in Nat \ {0}
<1>1. s.output \in Seq(Record) BY DEF BGAType
<1> QED BY <1>1, HeadTailProperties, EmptySeq

\* A record in the output queue names the slot it was evicted from.
LEMMA OutputFacts ==
  ASSUME NEW s \in BGAType
  PROVE  /\ Len(s.output) \in Nat
         /\ \A i \in 1 .. Len(s.output) : s.output[i] \in Record /\ s.output[i].slot \in Slot
<1>1. s.output \in Seq(Record) BY DEF BGAType
<1>2. ASSUME NEW i \in 1 .. Len(s.output) PROVE s.output[i] \in Record BY <1>1, ElementOfSeq
<1> QED BY <1>1, <1>2, LenProperties DEF Record

\* Handing out the oldest record keeps the invariant.
LEMMA RetireOutputKeepsInv ==
  ASSUME NEW s, DatapathInv(s)
  PROVE  DatapathInv(RetireOutput(s))
<1>1. CASE ~s.retiring BY <1>1 DEF RetireOutput
<1>2. CASE s.retiring
  <2> DEFINE front == Head(s.output)
             t == RetireOutput(s)
  <2>1. s \in BGAType /\ s.output # <<>> BY <1>2 DEF DatapathInv, OutputExclusion
  <2>2. /\ front = s.output[1] /\ front \in Record /\ front.slot \in Slot
        /\ Len(front.value) \in Nat
    BY <2>1, FrontFacts DEF Record
  <2>3. s.acc[front.slot].reserved /\ 1 \in 1 .. Len(s.output)
    BY <2>1, <2>2, FrontFacts DEF DatapathInv, SlotOwnership
  <2>4. t = [s EXCEPT !.retired = @ + Len(front.value),
                      !.acc[front.slot] = FreeEntry,
                      !.output = Tail(@),
                      !.retiring = FALSE,
                      !.miss.awaiting = @ /\ s.miss.eviction # front.seq]
    BY <1>2, <2>3 DEF RetireOutput
  <2>5. t \in BGAType
    <3>1. [s.acc EXCEPT ![front.slot] = FreeEntry] \in [Slot -> Entry]
      BY <2>1, <2>2, SmallValues DEF BGAType
    <3>2. [s.miss EXCEPT !.awaiting = @ /\ s.miss.eviction # front.seq] \in PendingMiss
      BY <2>1 DEF BGAType, PendingMiss
    <3>3. s.retired + Len(front.value) \in Nat /\ Tail(s.output) \in Seq(Record)
      BY <2>1, <2>2, FrontFacts DEF BGAType
    <3> HIDE DEF front
    <3> QED BY ZenonT(30), <2>1, <2>4, <3>1, <3>2, <3>3 DEF BGAType
  <2>6. /\ t.acc = [s.acc EXCEPT ![front.slot] = FreeEntry]
        /\ t.output = Tail(s.output) /\ t.op = s.op /\ t.fault = s.fault
        /\ t.draining = s.draining /\ t.queue = s.queue /\ t.accepted = s.accepted
        /\ t.presented = s.presented /\ t.done = s.done /\ ~t.retiring
        /\ t.miss = [s.miss EXCEPT !.awaiting = @ /\ s.miss.eviction # front.seq]
    BY <2>1, <2>4 DEF BGAType
  <2>14. /\ t.miss.active = s.miss.active /\ t.miss.eviction = s.miss.eviction
         /\ t.miss.victim = s.miss.victim /\ t.miss.input = s.miss.input
         /\ t.miss.awaiting <=> s.miss.awaiting /\ s.miss.eviction # front.seq
    <3>1. s.miss \in PendingMiss BY <2>1 DEF BGAType
    <3> HIDE DEF t, front
    <3> QED BY <2>6, <3>1 DEF PendingMiss
  <2>7. LiveSlots(t) = LiveSlots(s) /\ \A k \in LiveSlots(s) : t.acc[k] = s.acc[k]
    BY <2>1, <2>2, <2>3, <2>6 DEF LiveSlots, FreeEntry, BGAType
  <2> HIDE DEF t
  <2>8. SlotOwnership(t)
    <3>1. s.acc \in [Slot -> Entry] /\ s.output \in Seq(Record) BY <2>1 DEF BGAType
    <3>2. /\ Len(s.output) \in Nat \ {0} /\ Len(t.output) = Len(s.output) - 1
          /\ \A i \in 1 .. Len(t.output) :
               i + 1 \in 1 .. Len(s.output) /\ t.output[i] = s.output[i + 1]
      BY <2>1, <2>6, FrontFacts
    <3>3. ASSUME NEW i \in 1 .. Len(t.output)
          PROVE  t.output[i].slot \in Slot /\ t.output[i].slot # front.slot
      <4>1. i + 1 \in 1 .. Len(s.output) /\ t.output[i] = s.output[i + 1] /\ i + 1 # 1 BY <3>2
      <4>2. s.output[i + 1].slot \in Slot BY <2>1, <4>1, OutputFacts
      <4>3. s.output[i + 1].slot # s.output[1].slot BY <2>3, <4>1 DEF DatapathInv, SlotOwnership
      <4> QED BY <2>2, <4>1, <4>2, <4>3
    <3>4. \A k \in Slot : k # front.slot => t.acc[k] = s.acc[k] BY <2>6, <3>1
    <3>5. ~t.acc[front.slot].reserved BY <2>2, <2>6, <3>1 DEF FreeEntry
    <3>6. ASSUME NEW k \in Slot, t.acc[k].reserved
          PROVE  \E i \in 1 .. Len(t.output) : t.output[i].slot = k
      <4>1. k # front.slot /\ s.acc[k].reserved BY <3>4, <3>5, <3>6
      <4>2. PICK i \in 1 .. Len(s.output) : s.output[i].slot = k
        BY <4>1 DEF DatapathInv, SlotOwnership
      <4>3. i # 1 BY <2>2, <4>1, <4>2
      <4>4. i - 1 \in 1 .. Len(t.output) /\ t.output[i - 1] = s.output[i] BY <3>2, <4>3
      <4> QED BY <4>2, <4>4
    <3>7. ASSUME NEW i \in 1 .. Len(t.output) PROVE t.acc[t.output[i].slot].reserved
      <4>1. s.acc[s.output[i + 1].slot].reserved BY <3>2 DEF DatapathInv, SlotOwnership
      <4> QED BY <3>2, <3>3, <3>4, <4>1
    <3>8. ASSUME NEW i \in 1 .. Len(t.output), NEW j \in 1 .. Len(t.output),
                 t.output[i].slot = t.output[j].slot
          PROVE  i = j
      <4>1. i + 1 = j + 1 BY <3>2, <3>8 DEF DatapathInv, SlotOwnership
      <4> QED BY <4>1
    <3>9. \A k \in Slot : t.acc[k].reserved => t.acc[k].valid
      BY <3>4, <3>5 DEF DatapathInv, SlotOwnership
    <3> QED BY <3>6, <3>7, <3>8, <3>9 DEF SlotOwnership
  <2>9. UniqueTags(t) BY <2>7 DEF DatapathInv, UniqueTags
  <2>10. s.op = NoOperation BY <2>1 DEF DatapathInv, OperationReady
  <2>11. MissProgress(t)
    <3>1. CASE ~s.miss.active BY <2>14, <3>1 DEF MissProgress
    <3>2. CASE s.miss.active
      <4>1. /\ s.miss.eviction # 0 /\ s.miss.awaiting /\ Len(s.output) = 1
            /\ front.seq = s.miss.eviction /\ front.slot = s.miss.victim
        BY <2>1, <2>2, <3>2 DEF DatapathInv, MissProgress
      <4>2. t.output = <<>> BY <2>1, <2>6, <4>1, FrontFacts, EmptySeq
      <4>3. front.slot \in FreeSlots(t) BY <2>1, <2>2, <2>6 DEF FreeSlots, FreeEntry, BGAType
      <4>4. /\ t.miss.active /\ t.miss.eviction = s.miss.eviction /\ ~t.miss.awaiting
            /\ t.miss.victim = s.miss.victim /\ t.miss.input = s.miss.input
        BY <2>14, <3>2, <4>1
      <4> QED BY <2>7, <3>2, <4>1, <4>2, <4>3, <4>4 DEF DatapathInv, MissProgress
    <3> QED BY <3>1, <3>2
  <2>12. OutputExclusion(t)
    BY <2>6, <2>1, FrontFacts, BGAConfigAssumption, <2>14 DEF InputPending, DatapathInv,
      OutputExclusion
  <2>13. InputsBounded(t) BY <2>6 DEF DatapathInv, InputsBounded, AllProducersDone
  <2> QED
    BY <2>5, <2>6, <2>8, <2>9, <2>10, <2>11, <2>12, <2>13 DEF DatapathInv, OperationReady, t
<1> QED BY <1>1, <1>2 DEF DatapathInv, BGAType

\* An operation with cycles left only counts down.
LEMMA CountdownKeepsInv ==
  ASSUME NEW s, DatapathInv(s), s.op # NoOperation, ~Commits(s)
  PROVE  DatapathInv([s EXCEPT !.op.remaining = @ - 1])
<1> DEFINE t == [s EXCEPT !.op.remaining = @ - 1]
<1>1. s \in BGAType /\ s.op \in Operation /\ s.op.remaining - 1 \in Nat \ {0}
  BY DEF DatapathInv, BGAType, Operation, OperationReady, Commits
<1>2. [s.op EXCEPT !.remaining = @ - 1] \in Operation BY <1>1 DEF Operation
<1>3. t \in BGAType BY <1>1, <1>2 DEF BGAType
<1>4. /\ t.op.kind = s.op.kind /\ t.op.input = s.op.input /\ t.op.slot = s.op.slot
      /\ t.op.remaining > 0
      /\ t.acc = s.acc /\ t.output = s.output /\ t.fault = s.fault /\ t.miss = s.miss
      /\ t.draining = s.draining /\ t.queue = s.queue /\ t.accepted = s.accepted
      /\ t.presented = s.presented /\ t.done = s.done /\ t.retiring = s.retiring
  BY <1>1 DEF BGAType, Operation
<1>5. LiveSlots(t) = LiveSlots(s) /\ FreeSlots(t) = FreeSlots(s)
      /\ (InputPending(t) <=> InputPending(s))
  BY <1>4 DEF LiveSlots, FreeSlots, InputPending
<1> HIDE DEF t
<1>6. SlotOwnership(t) /\ UniqueTags(t) BY <1>4, <1>5 DEF DatapathInv, SlotOwnership, UniqueTags
<1>7. OperationReady(t) BY <1>4, <1>5 DEF DatapathInv, OperationReady
<1>8. MissProgress(t) /\ OutputExclusion(t)
  BY <1>4, <1>5 DEF DatapathInv, MissProgress, OutputExclusion
<1>9. InputsBounded(t) BY <1>4 DEF DatapathInv, InputsBounded, AllProducersDone
<1> QED BY <1>3, <1>4, <1>6, <1>7, <1>8, <1>9 DEF DatapathInv, t

\* While nothing is on its way out, the next operation may be set up.
LEMMA NewOperationKeepsInv ==
  ASSUME NEW s, DatapathInv(s), s.output = <<>>, ~s.miss.active,
         NEW o \in Operation, o.kind # "NONE", o.remaining > 0,
         o.kind = "MERGE" => o.slot \in LiveSlots(s) /\ s.acc[o.slot].row = o.input.row,
         o.kind = "INSERT" => /\ o.slot \in FreeSlots(s)
                              /\ \A k \in LiveSlots(s) : s.acc[k].row # o.input.row
  PROVE  DatapathInv([s EXCEPT !.op = o])
<1> DEFINE t == [s EXCEPT !.op = o]
<1>1. s \in BGAType BY DEF DatapathInv
<1>2. t \in BGAType BY <1>1 DEF BGAType
<1>3. /\ t.op = o /\ t.acc = s.acc /\ t.output = s.output /\ t.fault = s.fault
      /\ t.miss = s.miss /\ t.draining = s.draining /\ t.queue = s.queue
      /\ t.accepted = s.accepted /\ t.presented = s.presented /\ t.done = s.done
      /\ t.retiring = s.retiring
  BY <1>1 DEF BGAType
<1>4. LiveSlots(t) = LiveSlots(s) /\ FreeSlots(t) = FreeSlots(s)
  BY <1>3 DEF LiveSlots, FreeSlots
<1> HIDE DEF t
<1>5. SlotOwnership(t) /\ UniqueTags(t) BY <1>3, <1>4 DEF DatapathInv, SlotOwnership, UniqueTags
<1>6. OperationReady(t) BY <1>3, <1>4 DEF OperationReady
<1>7. MissProgress(t) /\ OutputExclusion(t)
  BY <1>3 DEF DatapathInv, MissProgress, OutputExclusion
<1>8. InputsBounded(t) BY <1>3 DEF DatapathInv, InputsBounded, AllProducersDone
<1> QED BY <1>2, <1>3, <1>5, <1>6, <1>7, <1>8 DEF DatapathInv, t

\* With no record on its way out, every valid slot is live.
LEMMA NothingReserved ==
  ASSUME NEW s, DatapathInv(s), s.output = <<>>
  PROVE  /\ \A k \in Slot : ~s.acc[k].reserved
         /\ Slot = LiveSlots(s) \cup FreeSlots(s)
<1>1. 1 .. Len(s.output) = {} BY EmptySeq
<1>2. \A k \in Slot : ~s.acc[k].reserved BY <1>1 DEF DatapathInv, SlotOwnership
<1> QED BY <1>2 DEF LiveSlots, FreeSlots

\* A comparison that is over: a hit, a free slot, or a victim.
LEMMA LookupKeepsInv ==
  ASSUME NEW s, DatapathInv(s), s.op # NoOperation
  PROVE  DatapathInv(CommitLookup(s))
<1> DEFINE input == s.op.input
           hits == {k \in LiveSlots(s) : s.acc[k].row = input.row}
<1>1. /\ s \in BGAType /\ s.output = <<>> /\ ~s.miss.active /\ input \in Contribution
      /\ LiveSlots(s) \subseteq Slot /\ FreeSlots(s) \subseteq Slot
      /\ AddLatency \in Nat /\ AddLatency > 0
  BY BGAConfigAssumption
  DEF DatapathInv, OperationReady, BGAType, Operation, LiveSlots, FreeSlots
<1>2. ~ \E k, j \in hits : k # j BY DEF DatapathInv, UniqueTags
<1>3. CASE hits # {}
  <2> DEFINE h == CHOOSE k \in hits : TRUE
             o == [kind |-> "MERGE", input |-> input, slot |-> h, remaining |-> AddLatency]
  <2>1. h \in LiveSlots(s) /\ s.acc[h].row = input.row BY <1>3
  <2>2. CommitLookup(s) = [s EXCEPT !.op = o] BY <1>2, <1>3 DEF CommitLookup
  <2> HIDE DEF h, hits
  <2>3. o \in Operation /\ o.kind = "MERGE" /\ o.slot = h /\ o.input = input
        /\ o.remaining = AddLatency
    BY <1>1, <2>1 DEF Operation
  <2> HIDE DEF o, input
  <2> QED BY <1>1, <2>1, <2>2, <2>3, NewOperationKeepsInv
<1>4. CASE hits = {} /\ FreeSlots(s) # {}
  <2> DEFINE f == Lowest(FreeSlots(s))
             o == [kind |-> "INSERT", input |-> input, slot |-> f, remaining |-> AddLatency]
  <2>1. f \in FreeSlots(s) /\ \A k \in LiveSlots(s) : s.acc[k].row # input.row
    BY <1>1, SmallValues, <1>4, LowestExists
  <2>2. CommitLookup(s) = [s EXCEPT !.op = o] BY <1>2, <1>4 DEF CommitLookup
  <2> HIDE DEF f, hits
  <2>3. o \in Operation /\ o.kind = "INSERT" /\ o.slot = f /\ o.input = input
        /\ o.remaining = AddLatency
    BY <1>1, <2>1 DEF Operation
  <2> HIDE DEF o, input
  <2> QED BY <1>1, <2>1, <2>2, <2>3, NewOperationKeepsInv
<1>5. CASE hits = {} /\ FreeSlots(s) = {}
  <2> DEFINE v == Oldest(s, LiveSlots(s))
             m == [active |-> TRUE, input |-> input, victim |-> v, eviction |-> 0,
                   awaiting |-> FALSE]
             t == [s EXCEPT !.op = NoOperation, !.miss = m]
  <2>1. LiveSlots(s) # {} BY <1>1, <1>5, NothingReserved, SmallValues
  <2>2. v \in LiveSlots(s) BY <1>1, <2>1, OldestExists
  <2>3. CommitLookup(s) = t BY <1>2, <1>5, <2>1 DEF CommitLookup
  <2>4. \A k \in LiveSlots(s) : s.acc[k].row # input.row BY <1>5
  <2> HIDE DEF v, hits
  <2>5. m \in PendingMiss /\ m.active /\ m.input = input /\ m.victim = v
        /\ m.eviction = 0 /\ ~m.awaiting
    BY <1>1, <2>2 DEF PendingMiss
  <2> HIDE DEF m, input
  <2>6. t \in BGAType BY <1>1, <2>5, SmallValues DEF BGAType
  <2>7. /\ t.op = NoOperation /\ t.miss = m /\ t.acc = s.acc /\ t.output = s.output
        /\ t.fault = s.fault /\ t.draining = s.draining /\ t.queue = s.queue
        /\ t.accepted = s.accepted /\ t.presented = s.presented /\ t.done = s.done
        /\ t.retiring = s.retiring
    BY <1>1 DEF BGAType
  <2>8. LiveSlots(t) = LiveSlots(s) /\ FreeSlots(t) = FreeSlots(s)
    BY <2>7 DEF LiveSlots, FreeSlots
  <2> HIDE DEF t
  <2>9. SlotOwnership(t) /\ UniqueTags(t)
    BY <2>7, <2>8 DEF DatapathInv, SlotOwnership, UniqueTags
  <2>10. OperationReady(t) /\ MissProgress(t)
    BY <1>1, <1>5, <2>2, <2>4, <2>5, <2>7, <2>8 DEF OperationReady, MissProgress
  <2>11. OutputExclusion(t) /\ InputsBounded(t)
    BY <1>1, <2>7 DEF DatapathInv, OutputExclusion, InputsBounded, AllProducersDone
  <2> QED BY <2>3, <2>6, <2>7, <2>9, <2>10, <2>11 DEF DatapathInv
<1> QED BY <1>3, <1>4, <1>5

\* The addition that ends a merge: the value of a live entry grows by one product.
LEMMA MergeKeepsInv ==
  ASSUME NEW s, DatapathInv(s), s.op.kind = "MERGE", s.op # NoOperation
  PROVE  DatapathInv(CommitMerge(s))
<1> DEFINE k == s.op.slot
           e == [s.acc[k] EXCEPT !.value = Append(@, s.op.input)]
           t == [s EXCEPT !.op = NoOperation, !.acc[k].value = Append(@, s.op.input)]
<1>1. /\ s \in BGAType /\ s.acc \in [Slot -> Entry] /\ s.op.input \in Contribution
      /\ k \in LiveSlots(s) /\ k \in Slot /\ s.acc[k].row = s.op.input.row
      /\ s.output = <<>> /\ ~s.miss.active
  BY DEF DatapathInv, OperationReady, BGAType, Operation, LiveSlots
<1>2. CommitMerge(s) = t BY <1>1 DEF CommitMerge
<1>3. s.acc[k] \in Entry /\ Append(s.acc[k].value, s.op.input) \in Seq(Contribution)
  BY <1>1, AppendProperties DEF Entry
<1>4. /\ e \in Entry /\ e.valid = s.acc[k].valid /\ e.reserved = s.acc[k].reserved
      /\ e.row = s.acc[k].row
  BY <1>3 DEF Entry
<1>5. /\ t.op = NoOperation /\ t.miss = s.miss /\ t.output = s.output
      /\ t.fault = s.fault /\ t.draining = s.draining /\ t.queue = s.queue
      /\ t.accepted = s.accepted /\ t.presented = s.presented /\ t.done = s.done
      /\ t.retiring = s.retiring /\ t.acc = [s.acc EXCEPT ![k] = e]
  BY <1>1 DEF BGAType
<1>6. t \in BGAType
  <2>1. [s.acc EXCEPT ![k] = e] \in [Slot -> Entry] BY <1>1, <1>4
  <2>2. t = [s EXCEPT !.op = NoOperation, !.acc = [s.acc EXCEPT ![k] = e]] BY <1>1 DEF BGAType
  <2> HIDE DEF t, e, k
  <2> QED BY <1>1, <2>1, <2>2, SmallValues DEF BGAType
<1> HIDE DEF t, e
<1>7. \A j \in Slot : /\ t.acc[j].valid <=> s.acc[j].valid
                      /\ t.acc[j].reserved <=> s.acc[j].reserved
                      /\ t.acc[j].row = s.acc[j].row
  BY <1>1, <1>4, <1>5
<1>8. LiveSlots(t) = LiveSlots(s) /\ LiveSlots(s) \subseteq Slot BY <1>7 DEF LiveSlots
<1>9. SlotOwnership(t)
  BY <1>1, EmptySeq, <1>5, <1>7 DEF DatapathInv, SlotOwnership
<1>10. UniqueTags(t) BY <1>7, <1>8 DEF DatapathInv, UniqueTags
<1>11. OperationReady(t) /\ MissProgress(t) BY <1>1, <1>5 DEF OperationReady, MissProgress
<1>12. OutputExclusion(t) /\ InputsBounded(t)
  BY <1>1, <1>5 DEF DatapathInv, OutputExclusion, InputsBounded, AllProducersDone
<1> QED BY <1>2, <1>5, <1>6, <1>9, <1>10, <1>11, <1>12 DEF DatapathInv

\* The addition that ends an insert: a free slot becomes the only one of its row.
LEMMA InsertKeepsInv ==
  ASSUME NEW s, DatapathInv(s), s.op.kind = "INSERT", s.op # NoOperation
  PROVE  DatapathInv(CommitInsert(s))
<1> DEFINE k == s.op.slot
           e == [valid |-> TRUE, reserved |-> FALSE, row |-> s.op.input.row,
                 value |-> <<s.op.input>>, age |-> s.age + 1]
           t == [s EXCEPT !.op = NoOperation, !.age = @ + 1, !.acc[k] = e]
<1>1. /\ s \in BGAType /\ s.acc \in [Slot -> Entry] /\ s.op.input \in Contribution
      /\ k \in FreeSlots(s) /\ k \in Slot
      /\ \A j \in LiveSlots(s) : s.acc[j].row # s.op.input.row
      /\ s.output = <<>> /\ ~s.miss.active /\ s.age \in Nat
  BY DEF DatapathInv, OperationReady, BGAType, Operation, FreeSlots
<1>2. CommitInsert(s) = t BY <1>1, NothingReserved DEF CommitInsert, FreeSlots
<1>3. /\ e \in Entry /\ e.valid /\ ~e.reserved /\ e.row = s.op.input.row
  BY <1>1 DEF Contribution, Entry
<1> HIDE DEF e
<1>4. /\ t.op = NoOperation /\ t.miss = s.miss /\ t.output = s.output
      /\ t.fault = s.fault /\ t.draining = s.draining /\ t.queue = s.queue
      /\ t.accepted = s.accepted /\ t.presented = s.presented /\ t.done = s.done
      /\ t.retiring = s.retiring /\ t.acc = [s.acc EXCEPT ![k] = e]
  BY <1>1 DEF BGAType
<1>5. t \in BGAType
  <2>1. [s.acc EXCEPT ![k] = e] \in [Slot -> Entry] /\ s.age + 1 \in Nat BY <1>1, <1>3
  <2>2. t = [s EXCEPT !.op = NoOperation, !.age = s.age + 1,
                      !.acc = [s.acc EXCEPT ![k] = e]]
    BY <1>1 DEF BGAType
  <2> HIDE DEF t, k
  <2> QED BY <1>1, <2>1, <2>2, SmallValues DEF BGAType
<1> HIDE DEF t
<1>6. t.acc[k] = e /\ \A j \in Slot : j # k => t.acc[j] = s.acc[j] BY <1>1, <1>4
<1>7. LiveSlots(t) = LiveSlots(s) \cup {k} /\ k \notin LiveSlots(s)
  BY <1>1, <1>3, <1>6 DEF LiveSlots, FreeSlots
<1>8. \A j \in LiveSlots(s) : t.acc[j] = s.acc[j] BY <1>6, <1>7 DEF LiveSlots
<1>9. SlotOwnership(t)
  BY <1>1, <1>4, EmptySeq, <1>3, <1>6, NothingReserved DEF SlotOwnership
<1>10. UniqueTags(t) BY <1>1, <1>3, <1>6, <1>7, <1>8 DEF DatapathInv, UniqueTags
<1>11. OperationReady(t) /\ MissProgress(t) BY <1>1, <1>4 DEF OperationReady, MissProgress
<1>12. OutputExclusion(t) /\ InputsBounded(t)
  BY <1>1, <1>4 DEF DatapathInv, OutputExclusion, InputsBounded, AllProducersDone
<1> QED BY <1>2, <1>4, <1>5, <1>9, <1>10, <1>11, <1>12 DEF DatapathInv

\* One cycle of the running operation, whatever it is.
LEMMA CommitOperationKeepsInv ==
  ASSUME NEW s, DatapathInv(s)
  PROVE  DatapathInv(CommitOperation(s))
<1>1. s.fault = "none" /\ s.op.kind \in {"NONE", "LOOKUP", "MERGE", "INSERT"}
  BY DEF DatapathInv, BGAType, Operation
<1>2. CASE s.op = NoOperation BY <1>2 DEF CommitOperation
<1>3. CASE s.op # NoOperation
  <2>1. s.op.kind # "NONE" BY <1>3 DEF DatapathInv, OperationReady
  <2>2. CASE ~Commits(s) BY <1>1, <1>3, <2>2, CountdownKeepsInv DEF CommitOperation
  <2>3. CASE Commits(s) /\ s.op.kind = "LOOKUP"
    BY <1>1, <1>3, <2>3, LookupKeepsInv DEF CommitOperation
  <2>4. CASE Commits(s) /\ s.op.kind = "MERGE"
    BY <1>1, <1>3, <2>4, MergeKeepsInv DEF CommitOperation
  <2>5. CASE Commits(s) /\ s.op.kind = "INSERT"
    BY <1>1, <1>3, <2>5, InsertKeepsInv DEF CommitOperation
  <2> QED BY <1>1, <2>1, <2>2, <2>3, <2>4, <2>5
<1> QED BY <1>2, <1>3

-----------------------------------------------------------------------------
(* Records on their way out *)

\* A live entry becomes the last record of the output queue, which owns it.
LEMMA PushOutputFacts ==
  ASSUME NEW s, DatapathInv(s), NEW k \in LiveSlots(s),
         NEW reason \in {"CAPACITY_EVICTION", "FINAL_DRAIN"}
  PROVE  LET t == PushOutput(s, k, reason)
         IN  /\ t \in BGAType
             /\ SlotOwnership(t) /\ UniqueTags(t)
             /\ LiveSlots(t) = LiveSlots(s) \ {k}
             /\ \A j \in LiveSlots(t) : t.acc[j].row = s.acc[j].row
             /\ Len(t.output) = Len(s.output) + 1
             /\ t.output[Len(t.output)].slot = k
             /\ t.output[Len(t.output)].seq = s.outSeq + 1
             /\ t.op = s.op /\ t.miss = s.miss /\ t.fault = s.fault
             /\ t.draining = s.draining /\ t.queue = s.queue
             /\ t.accepted = s.accepted /\ t.presented = s.presented
             /\ t.done = s.done /\ t.retiring = s.retiring
<1> DEFINE record == [row |-> s.acc[k].row, value |-> s.acc[k].value,
                      seq |-> s.outSeq + 1, slot |-> k, reason |-> reason]
           e == [s.acc[k] EXCEPT !.reserved = TRUE]
           t == PushOutput(s, k, reason)
           n == Len(s.output)
<1>1. /\ s \in BGAType /\ s.acc \in [Slot -> Entry] /\ s.output \in Seq(Record)
      /\ k \in Slot /\ s.outSeq \in Nat /\ n \in Nat
      /\ s.acc[k].valid /\ ~s.acc[k].reserved
  BY LenProperties DEF DatapathInv, BGAType, LiveSlots
<1>2. s.acc[k] \in Entry BY <1>1
<1>3. record \in Record /\ record.slot = k /\ record.seq = s.outSeq + 1
  BY <1>1, <1>2 DEF Record, Entry
<1>4. e \in Entry /\ e.valid /\ e.reserved /\ e.row = s.acc[k].row BY <1>1, <1>2 DEF Entry
<1>5. t = [s EXCEPT !.output = Append(s.output, record), !.acc = [s.acc EXCEPT ![k] = e],
                    !.outSeq = s.outSeq + 1]
  BY <1>1 DEF PushOutput, BGAType
<1> HIDE DEF t, e, record
<1>6. /\ Append(s.output, record) \in Seq(Record)
      /\ Len(Append(s.output, record)) = n + 1
      /\ \A i \in 1 .. n : Append(s.output, record)[i] = s.output[i]
      /\ Append(s.output, record)[n + 1] = record
  BY <1>1, <1>3, AppendProperties
<1>7. t \in BGAType
  <2>1. [s.acc EXCEPT ![k] = e] \in [Slot -> Entry] /\ s.outSeq + 1 \in Nat BY <1>1, <1>4
  <2> QED BY <1>1, <1>5, <1>6, <2>1 DEF BGAType
<1>8. /\ t.output = Append(s.output, record) /\ t.acc = [s.acc EXCEPT ![k] = e]
      /\ t.op = s.op /\ t.miss = s.miss /\ t.fault = s.fault
      /\ t.draining = s.draining /\ t.queue = s.queue
      /\ t.accepted = s.accepted /\ t.presented = s.presented
      /\ t.done = s.done /\ t.retiring = s.retiring
  BY <1>1, <1>5 DEF BGAType
<1>9. t.acc[k] = e /\ \A j \in Slot : j # k => t.acc[j] = s.acc[j] BY <1>1, <1>8
<1>10. LiveSlots(t) = LiveSlots(s) \ {k} BY <1>1, <1>4, <1>9 DEF LiveSlots
<1>11. \A j \in LiveSlots(t) : t.acc[j].row = s.acc[j].row BY <1>9, <1>10 DEF LiveSlots
<1>12. UniqueTags(t) BY <1>10, <1>11 DEF DatapathInv, UniqueTags
<1>13. SlotOwnership(t)
  <2>1. /\ Len(t.output) = n + 1 /\ t.output[n + 1] = record
        /\ \A i \in 1 .. n : t.output[i] = s.output[i]
    BY <1>6, <1>8
  <2>2. ASSUME NEW i \in 1 .. n
        PROVE  t.output[i].slot \in Slot /\ t.output[i].slot # k /\ t.acc[t.output[i].slot].reserved
    <3>1. t.output[i] = s.output[i] /\ s.output[i].slot \in Slot BY <1>1, <2>1, OutputFacts
    <3>2. s.acc[s.output[i].slot].reserved BY DEF DatapathInv, SlotOwnership
    <3> QED BY <1>1, <1>9, <3>1, <3>2
  <2>3. \A i \in 1 .. Len(t.output) : i \in 1 .. n \/ i = n + 1 BY <1>1, <2>1
  <2>4. \A i \in 1 .. Len(t.output) : t.acc[t.output[i].slot].reserved
    BY <1>3, <1>4, <1>9, <2>1, <2>2, <2>3
  <2>5. ASSUME NEW i \in 1 .. Len(t.output), NEW j \in 1 .. Len(t.output),
               t.output[i].slot = t.output[j].slot
        PROVE  i = j
    <3>1. CASE i \in 1 .. n /\ j \in 1 .. n BY <2>1, <2>5, <3>1 DEF DatapathInv, SlotOwnership
    <3>2. CASE i = n + 1 \/ j = n + 1 BY <1>3, <2>1, <2>2, <2>3, <2>5, <3>2
    <3> QED BY <2>3, <3>1, <3>2
  <2>6. ASSUME NEW j \in Slot, t.acc[j].reserved
        PROVE  t.acc[j].valid /\ \E i \in 1 .. Len(t.output) : t.output[i].slot = j
    <3>1. CASE j = k
      BY <1>1, <2>1, <1>3, <1>4, <1>9, <3>1
    <3>2. CASE j # k
      <4>1. s.acc[j].reserved /\ s.acc[j].valid /\ t.acc[j] = s.acc[j]
        BY <1>9, <2>6, <3>2 DEF DatapathInv, SlotOwnership
      <4>2. PICK i \in 1 .. n : s.output[i].slot = j BY <4>1 DEF DatapathInv, SlotOwnership
      <4>3. i \in 1 .. Len(t.output) /\ t.output[i].slot = j BY <1>1, <2>1, <4>2
      <4> QED BY <4>1, <4>3
    <3> QED BY <3>1, <3>2
  <2> QED BY <2>4, <2>5, <2>6 DEF SlotOwnership
<1> QED BY <1>3, <1>6, <1>7, <1>8, <1>10, <1>11, <1>12, <1>13 DEF t

\* A pending miss goes from stage to stage.
LEMMA UpdateEvictionKeepsInv ==
  ASSUME NEW s, DatapathInv(s), s.miss.active
  PROVE  DatapathInv(UpdateEviction(s))
<1>1. /\ s \in BGAType /\ s.miss \in PendingMiss /\ s.output \in Seq(Record)
      /\ OutputQueueDepth \in Nat \ {0} /\ AddLatency \in Nat \ {0}
      /\ s.miss.victim \in Slot /\ s.miss.input \in Contribution /\ s.outSeq \in Nat
  BY BGAConfigAssumption DEF DatapathInv, BGAType, PendingMiss
<1>2. s.op = NoOperation BY DEF DatapathInv, OperationReady
<1>3. CASE s.miss.eviction = 0
  <2> DEFINE v == s.miss.victim
             p == PushOutput(s, v, "CAPACITY_EVICTION")
             t == [p EXCEPT !.miss.eviction = s.outSeq + 1, !.miss.awaiting = TRUE]
  <2>1. v \in LiveSlots(s) /\ s.output = <<>> /\ Len(s.output) = 0
    BY <1>3, EmptySeq DEF DatapathInv, MissProgress
  <2>2. UpdateEviction(s) = t BY <1>1, <1>3, <2>1 DEF UpdateEviction
  <2>3. /\ p \in BGAType /\ SlotOwnership(p) /\ UniqueTags(p)
        /\ LiveSlots(p) = LiveSlots(s) \ {v}
        /\ \A j \in LiveSlots(p) : p.acc[j].row = s.acc[j].row
        /\ Len(p.output) = 1 /\ p.output[1].slot = v /\ p.output[1].seq = s.outSeq + 1
        /\ p.op = s.op /\ p.miss = s.miss /\ p.fault = s.fault
        /\ p.draining = s.draining /\ p.queue = s.queue
        /\ p.accepted = s.accepted /\ p.presented = s.presented
        /\ p.done = s.done /\ p.retiring = s.retiring
    <3>1. Len(p.output) = Len(s.output) + 1 BY <2>1, PushOutputFacts
    <3>2. Len(p.output) = 1 BY <2>1, <3>1
    <3> QED BY <2>1, <3>2, PushOutputFacts
  <2> HIDE DEF p, v
  <2> DEFINE m == [s.miss EXCEPT !.eviction = s.outSeq + 1, !.awaiting = TRUE]
  <2>4. /\ m \in PendingMiss /\ m.active /\ m.awaiting /\ m.eviction = s.outSeq + 1
        /\ m.victim = s.miss.victim /\ m.input = s.miss.input
    <3>1. s.outSeq + 1 \in Nat BY <1>1
    <3>2. m \in PendingMiss /\ m.eviction = s.outSeq + 1
          /\ m.victim = s.miss.victim /\ m.input = s.miss.input
      BY <1>1, <3>1 DEF PendingMiss
    <3>3. m.active = s.miss.active /\ m.awaiting = TRUE BY <1>1 DEF PendingMiss
    <3> QED BY <3>2, <3>3
  <2>5. t = [p EXCEPT !.miss = m] BY <2>3 DEF BGAType
  <2> HIDE DEF t, m
  <2>6. t \in BGAType BY <2>3, <2>4, <2>5 DEF BGAType
  <2>7. /\ t.acc = p.acc /\ t.output = p.output /\ t.op = p.op /\ t.miss = m
        /\ t.fault = p.fault /\ t.draining = p.draining /\ t.queue = p.queue
        /\ t.accepted = p.accepted /\ t.presented = p.presented
        /\ t.done = p.done /\ t.retiring = p.retiring
    BY <2>3, <2>5 DEF BGAType
  <2>14. /\ t.draining = s.draining /\ t.queue = s.queue /\ t.op = NoOperation
         /\ t.accepted = s.accepted /\ t.presented = s.presented
         /\ t.done = s.done /\ t.retiring = s.retiring /\ t.fault = s.fault
    BY <1>2, <2>3, <2>7
  <2>8. LiveSlots(t) = LiveSlots(p) BY <2>7 DEF LiveSlots
  <2>9. SlotOwnership(t) /\ UniqueTags(t) BY <2>3, <2>7, <2>8 DEF SlotOwnership, UniqueTags
  <2>10. MissProgress(t)
    <3>1. \A j \in LiveSlots(t) : t.acc[j].row # t.miss.input.row
      BY <2>3, <2>4, <2>7, <2>8 DEF DatapathInv, MissProgress
    <3>2. t.miss.eviction # 0 /\ t.miss.awaiting /\ Len(t.output) = 1
          /\ t.output[1].seq = t.miss.eviction /\ t.output[1].slot = t.miss.victim
      BY <1>1, <2>3, <2>4, <2>7 DEF v
    <3> QED BY <3>1, <3>2 DEF MissProgress
  <2>11. OperationReady(t) BY <2>14 DEF OperationReady
  <2>12. OutputExclusion(t)
    <3>1. t.output # <<>> BY <2>3, <2>7, EmptySeq
    <3>2. Len(t.output) <= OutputQueueDepth
      <4>1. Len(t.output) = 1 BY <2>3, <2>7
      <4> QED BY <4>1, BGAConfigAssumption
    <3>3. t.miss.active BY <2>4, <2>7
    <3> QED BY <3>1, <3>2, <3>3 DEF OutputExclusion
  <2>13. InputsBounded(t) BY ZenonT(30), <2>14 DEF DatapathInv, InputsBounded, AllProducersDone
  <2> QED BY <2>2, <2>3, <2>6, <2>7, <2>9, <2>10, <2>11, <2>12, <2>13 DEF DatapathInv
<1>4. CASE s.miss.eviction # 0 /\ s.miss.awaiting BY <1>4 DEF UpdateEviction
<1>5. CASE s.miss.eviction # 0 /\ ~s.miss.awaiting
  <2> DEFINE o == [kind |-> "INSERT", input |-> s.miss.input, slot |-> s.miss.victim,
                   remaining |-> AddLatency]
             t == [s EXCEPT !.op = o, !.miss = NoMiss]
  <2>1. /\ s.output = <<>> /\ s.miss.victim \in FreeSlots(s)
        /\ \A k \in LiveSlots(s) : s.acc[k].row # s.miss.input.row
    BY <1>5 DEF DatapathInv, MissProgress
  <2>2. UpdateEviction(s) = t BY <1>2, <1>5 DEF UpdateEviction
  <2>3. /\ o \in Operation /\ o.kind = "INSERT" /\ o.remaining > 0
        /\ o.slot = s.miss.victim /\ o.input = s.miss.input
    BY <1>1 DEF Operation
  <2>4. NoMiss \in PendingMiss /\ ~NoMiss.active BY SmallValues DEF NoMiss, PendingMiss
  <2> HIDE DEF o
  <2>5. t \in BGAType BY <1>1, <2>3, <2>4 DEF BGAType
  <2>6. /\ t.acc = s.acc /\ t.output = s.output /\ t.op = o /\ t.miss = NoMiss
        /\ t.fault = s.fault /\ t.draining = s.draining /\ t.queue = s.queue
        /\ t.accepted = s.accepted /\ t.presented = s.presented
        /\ t.done = s.done /\ t.retiring = s.retiring
    BY <1>1 DEF BGAType
  <2> HIDE DEF t
  <2>7. LiveSlots(t) = LiveSlots(s) /\ FreeSlots(t) = FreeSlots(s)
    BY <2>6 DEF LiveSlots, FreeSlots
  <2>8. SlotOwnership(t) /\ UniqueTags(t)
    BY <2>6, <2>7 DEF DatapathInv, SlotOwnership, UniqueTags
  <2>9. OperationReady(t) /\ MissProgress(t)
    BY <2>1, <2>3, <2>4, <2>6, <2>7 DEF OperationReady, MissProgress
  <2>10. OutputExclusion(t) /\ InputsBounded(t)
    BY ZenonT(30), <2>1, <2>6 DEF DatapathInv, OutputExclusion, InputsBounded, AllProducersDone
  <2> QED BY <2>2, <2>5, <2>6, <2>8, <2>9, <2>10 DEF DatapathInv
<1> QED BY <1>1, <1>3, <1>4, <1>5 DEF PendingMiss

\* The final drain pushes one record, when nothing can come in any more.
LEMMA FinalDrainKeepsInv ==
  ASSUME NEW s, DatapathInv(s), ~s.miss.active, NEW committed \in BOOLEAN
  PROVE  DatapathInv(FinalDrain(s, committed))
<1> DEFINE v == Oldest(s, LiveSlots(s))
           t == PushOutput(s, v, "FINAL_DRAIN")
           drains == /\ s.draining /\ s.op = NoOperation /\ ~committed
                     /\ ~InputPending(s) /\ LiveSlots(s) # {}
                     /\ Len(s.output) < OutputQueueDepth
<1>1. CASE ~drains BY <1>1 DEF FinalDrain
<1>2. CASE drains
  <2>1. s \in BGAType /\ LiveSlots(s) \subseteq Slot
        /\ Len(s.output) \in Nat /\ OutputQueueDepth \in Nat
    BY OutputFacts, BGAConfigAssumption DEF DatapathInv, LiveSlots
  <2>2. v \in LiveSlots(s) BY <1>2, <2>1, OldestExists
  <2>3. FinalDrain(s, committed) = t BY <1>2 DEF FinalDrain
  <2> HIDE DEF v
  <2>4. /\ t \in BGAType /\ SlotOwnership(t) /\ UniqueTags(t)
        /\ Len(t.output) = Len(s.output) + 1
        /\ t.op = s.op /\ t.miss = s.miss /\ t.fault = s.fault
        /\ t.draining = s.draining /\ t.queue = s.queue
        /\ t.accepted = s.accepted /\ t.presented = s.presented
        /\ t.done = s.done /\ t.retiring = s.retiring
    BY <2>2, PushOutputFacts
  <2> HIDE DEF t
  <2>5. OperationReady(t) /\ MissProgress(t) BY <1>2, <2>4 DEF OperationReady, MissProgress
  <2>6. OutputExclusion(t)
    BY <1>2, <2>1, <2>4, EmptySeq DEF InputPending, OutputExclusion
  <2>7. InputsBounded(t) BY <2>4 DEF DatapathInv, InputsBounded, AllProducersDone
  <2> QED BY <2>3, <2>4, <2>5, <2>6, <2>7 DEF DatapathInv
<1> QED BY <1>1, <1>2

\* Starting or finishing an eviction, or the drain, keeps the invariant.
LEMMA UpdateEvictionOrDrainKeepsInv ==
  ASSUME NEW s, DatapathInv(s), NEW committed \in BOOLEAN
  PROVE  DatapathInv(UpdateEvictionOrDrain(s, committed))
<1>1. s.fault = "none" BY DEF DatapathInv
<1>2. CASE s.miss.active BY <1>1, <1>2, UpdateEvictionKeepsInv DEF UpdateEvictionOrDrain
<1>3. CASE ~s.miss.active BY <1>1, <1>3, FinalDrainKeepsInv DEF UpdateEvictionOrDrain
<1> QED BY <1>2, <1>3

-----------------------------------------------------------------------------
(* The input side *)

\* A lookup starts for the next stream in turn, with nothing on its way out.
LEMMA StartServiceKeepsInv ==
  ASSUME NEW s, DatapathInv(s)
  PROVE  DatapathInv(StartService(s))
<1> DEFINE at(offset) == (s.rr + offset) % NumStreams
           ready == {offset \in Stream : s.queue[at(offset)] # <<>>}
           st == at(Lowest(ready))
           idle == s.fault # "none" \/ s.op # NoOperation \/ s.miss.active \/ ready = {}
<1>1. CASE idle BY <1>1 DEF StartService
<1>2. CASE ~idle
  <2> DEFINE o == [kind |-> "LOOKUP", input |-> Head(s.queue[st]), slot |-> 0,
                   remaining |-> CompareLatency]
             q == [s.queue EXCEPT ![st] = Tail(s.queue[st])]
             t == [s EXCEPT !.queue = q, !.op = o, !.rr = (st + 1) % NumStreams]
  <2>1. /\ s \in BGAType /\ s.queue \in [Stream -> Seq(Contribution)]
        /\ s.rr \in Nat /\ NumStreams \in Nat \ {0} /\ CompareLatency \in Nat \ {0}
        /\ InputQueueDepth \in Nat
    BY BGAConfigAssumption DEF DatapathInv, BGAType, Stream
  <2>2. \A n \in Nat : (s.rr + n) % NumStreams \in Stream BY <2>1 DEF Stream
  <2>3. Lowest(ready) \in ready
    <3>1. ready \in SUBSET Nat /\ ready # {} BY <1>2, SmallValues
    <3> HIDE DEF ready
    <3> QED BY <3>1, LowestExists
  <2>4. st \in Stream /\ s.queue[st] # <<>>
    BY <2>3, SmallValues, <2>2
  <2>5. StartService(s) = t BY <1>2, <2>1 DEF StartService, BGAType
  <2>6. (st + 1) % NumStreams \in Stream
    <3>1. st \in Nat BY <2>4, SmallValues
    <3> HIDE DEF st
    <3> QED BY <2>1, <3>1 DEF Stream
  <2> HIDE DEF st, ready
  <2>7. InputPending(s) BY <2>4 DEF InputPending
  <2>8. s.output = <<>> /\ ~s.miss.active BY <1>2, <2>7 DEF DatapathInv, OutputExclusion
  <2>9. s.queue[st] \in Seq(Contribution) BY <2>1, <2>4
  <2>10. /\ Head(s.queue[st]) \in Contribution /\ Tail(s.queue[st]) \in Seq(Contribution)
         /\ Len(Tail(s.queue[st])) = Len(s.queue[st]) - 1
    BY <2>4, <2>9, HeadTailProperties
  <2>11. o \in Operation /\ o.kind = "LOOKUP" /\ o.remaining > 0
    BY <2>1, <2>10, SmallValues DEF Operation
  <2>12. q \in [Stream -> Seq(Contribution)] BY <2>1, <2>10
  <2>13. \A x \in Stream : Len(q[x]) <= Len(s.queue[x])
    <3>1. \A x \in Stream : Len(s.queue[x]) \in Nat BY <2>1, LenProperties
    <3>2. q[st] = Tail(s.queue[st]) /\ \A x \in Stream : x # st => q[x] = s.queue[x]
      BY <2>1, <2>4
    <3>3. ASSUME NEW x \in Stream PROVE Len(q[x]) <= Len(s.queue[x])
      <4>1. CASE x = st BY <2>4, <2>10, <3>1, <3>2, <4>1
      <4>2. CASE x # st BY <3>1, <3>2, <4>2
      <4> QED BY <4>1, <4>2
    <3> QED BY <3>3
  <2> HIDE DEF o, q
  <2>14. t \in BGAType BY <2>1, <2>6, <2>11, <2>12 DEF BGAType
  <2>15. /\ t.acc = s.acc /\ t.output = s.output /\ t.op = o /\ t.miss = s.miss
         /\ t.fault = s.fault /\ t.draining = s.draining /\ t.queue = q
         /\ t.accepted = s.accepted /\ t.presented = s.presented
         /\ t.done = s.done /\ t.retiring = s.retiring
    BY <2>1 DEF BGAType
  <2> HIDE DEF t
  <2>16. SlotOwnership(t) /\ UniqueTags(t)
    BY <2>15 DEF DatapathInv, SlotOwnership, UniqueTags, LiveSlots
  <2>17. OperationReady(t) /\ MissProgress(t)
    BY <2>8, <2>11, <2>15 DEF OperationReady, MissProgress
  <2>18. OutputExclusion(t) BY <2>8, <2>15 DEF DatapathInv, OutputExclusion
  <2>19. InputsBounded(t)
    <3>1. ASSUME NEW x \in Stream
          PROVE  Len(t.queue[x]) + Len(t.accepted[x].rows) <= InputQueueDepth
      <4>1. Len(s.queue[x]) \in Nat /\ Len(q[x]) \in Nat BY <2>1, <2>12, LenProperties
      <4>2. s.accepted[x].rows \in Seq(Row) BY <2>1 DEF BGAType, Batch
      <4>3. Len(s.accepted[x].rows) \in Nat BY <4>2, LenProperties
      <4>4. Len(s.queue[x]) + Len(s.accepted[x].rows) <= InputQueueDepth
        BY DEF DatapathInv, InputsBounded
      <4>5. Len(q[x]) <= Len(s.queue[x]) BY <2>13
      <4>6. t.queue[x] = q[x] /\ t.accepted[x].rows = s.accepted[x].rows BY <2>15
      <4>7. InputQueueDepth \in Nat BY <2>1
      <4>8. \A a, b, c, d \in Nat : a <= b /\ b + c <= d => a + c <= d OBVIOUS
      <4> QED BY <4>1, <4>3, <4>4, <4>5, <4>6, <4>7, <4>8
    <3> QED BY <2>15, <3>1 DEF DatapathInv, InputsBounded, AllProducersDone
  <2> QED BY <2>5, <2>14, <2>15, <2>16, <2>17, <2>18, <2>19 DEF DatapathInv
<1> QED BY <1>1, <1>2

\* The products of a batch.
LEMMA ContributionsOfBatch ==
  ASSUME NEW b \in Batch
  PROVE  /\ Contributions(b) \in Seq(Contribution)
         /\ Len(Contributions(b)) = Len(b.rows)
         /\ Len(b.rows) \in Nat
<1>1. b.stream \in Stream /\ b.generation \in Nat /\ b.sequence \in Nat /\ b.rows \in Seq(Row)
  BY DEF Batch
<1>2. Len(b.rows) \in Nat /\ \A i \in 1 .. Len(b.rows) : b.rows[i] \in Row
  BY <1>1, ElementOfSeq, LenProperties
<1> DEFINE n == Len(b.rows)
           c == [i \in 1 .. n |->
                   [row |-> b.rows[i], stream |-> b.stream, generation |-> b.generation,
                    sequence |-> b.sequence, index |-> i]]
<1>3. \A i \in 1 .. n : c[i] \in Contribution BY <1>1, <1>2 DEF Contribution
<1>4. c \in [1 .. n -> Contribution] BY <1>3
<1>5. c = Contributions(b) BY DEF Contributions
<1> HIDE DEF c
<1>6. c \in Seq(Contribution) /\ Len(c) = n BY <1>2, <1>4, SeqDef, LenProperties
<1> QED BY <1>2, <1>5, <1>6

\* Accepted batches become visible: they find the room that was checked for them.
LEMMA CommitAcceptedBatchesKeepsInv ==
  ASSUME NEW s, DatapathInv(s)
  PROVE  DatapathInv(CommitAcceptedBatches(s))
<1> DEFINE q == [st \in Stream |-> s.queue[st] \o Contributions(s.accepted[st])]
           a == [st \in Stream |-> NoBatch]
           t == [s EXCEPT !.queue = q, !.accepted = a]
<1>1. /\ s \in BGAType /\ s.queue \in [Stream -> Seq(Contribution)]
      /\ s.accepted \in [Stream -> Batch] /\ InputQueueDepth \in Nat
  BY BGAConfigAssumption DEF DatapathInv, BGAType
<1>2. ASSUME NEW st \in Stream
      PROVE  /\ q[st] \in Seq(Contribution)
             /\ Len(q[st]) = Len(s.queue[st]) + Len(s.accepted[st].rows)
             /\ Len(s.queue[st]) \in Nat /\ Len(s.accepted[st].rows) \in Nat
  <2>1. s.queue[st] \in Seq(Contribution) /\ s.accepted[st] \in Batch BY <1>1
  <2>2. /\ Contributions(s.accepted[st]) \in Seq(Contribution)
        /\ Len(Contributions(s.accepted[st])) = Len(s.accepted[st].rows)
        /\ Len(s.accepted[st].rows) \in Nat
    BY <2>1, ContributionsOfBatch
  <2>3. Len(s.queue[st]) \in Nat BY <2>1, LenProperties
  <2>4. q[st] = s.queue[st] \o Contributions(s.accepted[st]) OBVIOUS
  <2> HIDE DEF q
  <2>5. /\ q[st] \in Seq(Contribution)
        /\ Len(q[st]) = Len(s.queue[st]) + Len(Contributions(s.accepted[st]))
    BY <2>1, <2>2, <2>4, ConcatProperties
  <2> QED BY <2>2, <2>3, <2>5
<1>3. ~ \E st \in Stream : s.accepted[st] # NoBatch /\ ~HasRoom(s, s.accepted[st])
  BY DEF DatapathInv, InputsBounded, HasRoom
<1>4. CommitAcceptedBatches(s) = t BY <1>3 DEF CommitAcceptedBatches, DatapathInv
<1>5. q \in [Stream -> Seq(Contribution)] /\ a \in [Stream -> Batch] BY <1>2, SmallValues
<1>6. Len(NoBatch.rows) = 0 BY EmptySeq DEF NoBatch
<1>7. ASSUME NEW st \in Stream, q[st] # <<>>
      PROVE  s.queue[st] # <<>> \/ s.accepted[st] # NoBatch
  <2> HIDE DEF q
  <2>1. Len(q[st]) # 0 BY <1>2, <1>7, EmptySeq
  <2>2. Len(s.queue[st]) # 0 \/ Len(s.accepted[st].rows) # 0
    <3>1. /\ Len(q[st]) = Len(s.queue[st]) + Len(s.accepted[st].rows)
          /\ Len(s.queue[st]) \in Nat /\ Len(s.accepted[st].rows) \in Nat
      BY <1>2
    <3>2. \A x, y \in Nat : x + y # 0 => x # 0 \/ y # 0 OBVIOUS
    <3> QED BY <2>1, <3>1, <3>2
  <2> QED BY <1>6, <2>2, EmptySeq
<1>8. \A st \in Stream : a[st] = NoBatch OBVIOUS
<1>9. ASSUME NEW st \in Stream
      PROVE  Len(q[st]) + Len(a[st].rows) <= InputQueueDepth
  <2>1. Len(s.queue[st]) + Len(s.accepted[st].rows) <= InputQueueDepth
    BY DEF DatapathInv, InputsBounded
  <2>2. Len(a[st].rows) = 0 BY <1>6, <1>8
  <2>3. Len(q[st]) = Len(s.queue[st]) + Len(s.accepted[st].rows) BY <1>2
  <2>4. Len(q[st]) <= InputQueueDepth BY <2>1, <2>3
  <2> HIDE DEF q, a
  <2>5. Len(q[st]) \in Nat BY <1>2, LenProperties
  <2> QED BY <2>2, <2>4, <2>5
<1> HIDE DEF q, a
<1>10. t \in BGAType BY <1>1, <1>5 DEF BGAType
<1>11. /\ t.acc = s.acc /\ t.output = s.output /\ t.op = s.op /\ t.miss = s.miss
       /\ t.fault = s.fault /\ t.draining = s.draining /\ t.queue = q
       /\ t.accepted = a /\ t.presented = s.presented
       /\ t.done = s.done /\ t.retiring = s.retiring
  BY <1>1 DEF BGAType
<1> HIDE DEF t
<1>12. SlotOwnership(t) /\ UniqueTags(t)
  BY <1>11 DEF DatapathInv, SlotOwnership, UniqueTags, LiveSlots
<1>13. OperationReady(t) /\ MissProgress(t)
  BY <1>11 DEF DatapathInv, OperationReady, MissProgress, LiveSlots, FreeSlots
<1>14. InputPending(t) => InputPending(s) BY <1>7, <1>8, <1>11 DEF InputPending
<1>15. OutputExclusion(t) BY <1>11, <1>14 DEF DatapathInv, OutputExclusion
<1>16. InputsBounded(t) BY <1>8, <1>9, <1>11 DEF DatapathInv, InputsBounded, AllProducersDone
<1> QED BY <1>4, <1>10, <1>11, <1>12, <1>13, <1>15, <1>16 DEF DatapathInv

-----------------------------------------------------------------------------
(* step() as a whole *)

\* The checks that end step() can only fail for the conservation of the counters.
LEMMA CheckStepResult ==
  ASSUME NEW s, DatapathInv(s)
  PROVE  CheckStep(s) \in {s, Fault(s, ConservationFault)}
<1>1. \A i \in 1 .. Len(s.output) : s.output[i].slot \in Slot BY OutputFacts DEF DatapathInv
<1>2. ValidateAccumulatorInvariant(s)
  BY SMTT(20), <1>1 DEF DatapathInv, SlotOwnership, UniqueTags, ValidateAccumulatorInvariant
<1> QED BY <1>2 DEF CheckStep, DatapathInv, ConservationFault

\* What a fault does to a state.
LEMMA FaultFacts ==
  ASSUME NEW s, DatapathInv(s)
  PROVE  LET t == Fault(s, ConservationFault)
         IN  /\ t \in BGAType /\ t.fault = ConservationFault
             /\ [t EXCEPT !.fault = "none"] = s
BY DEF Fault, DatapathInv, BGAType, Faults, ConservationFault

\* step() keeps the invariant; the fault it may leave is the conservation check's.
LEMMA StepKeepsInv ==
  ASSUME NEW s, DatapathInv(s), NEW t, Step(s, t)
  PROVE  /\ t \in BGAType
         /\ DatapathInv([t EXCEPT !.fault = "none"])
         /\ t.fault \in {"none", ConservationFault}
<1> DEFINE r == RetireOutput(s)
           committed == r.fault = "none" /\ Commits(r)
           c == CommitOperation(r)
           u == UpdateEvictionOrDrain(c, committed)
           v == StartService(u)
           w == CommitAcceptedBatches(v)
<1>1. DatapathInv(r) BY RetireOutputKeepsInv
<1>2. DatapathInv(c) BY <1>1, CommitOperationKeepsInv
<1>3. DatapathInv(u) BY <1>2, UpdateEvictionOrDrainKeepsInv
<1>4. DatapathInv(v) BY <1>3, StartServiceKeepsInv
<1>5. DatapathInv(w) BY <1>4, CommitAcceptedBatchesKeepsInv
<1>6. t = CheckStep(w) BY DEF Step, Stepped
<1> HIDE DEF w
<1>7. t = w \/ t = Fault(w, ConservationFault) BY <1>5, <1>6, CheckStepResult
<1>8. CASE t = w
  <2>1. w \in BGAType /\ w.fault = "none" BY <1>5 DEF DatapathInv
  <2>2. [w EXCEPT !.fault = "none"] = w BY <2>1 DEF BGAType
  <2> QED BY <1>5, <1>8, <2>1, <2>2
<1>9. CASE t = Fault(w, ConservationFault) BY <1>5, <1>9, FaultFacts
<1> QED BY <1>7, <1>8, <1>9

-----------------------------------------------------------------------------
(* The other calls of the owner *)

\* Accepting or refusing a batch.
LEMMA OfferKeepsInv ==
  ASSUME NEW s, DatapathInv(s),
         NEW b \in [stream : Nat, generation : Nat, sequence : Nat, rows : Seq(Nat)]
  PROVE  DatapathInv(OfferBatch(s, b))
<1> DEFINE answer == OfferResult(s, b)
           st == b.stream
<1>1. CASE answer \notin {"ACCEPTED", "BACKPRESSURE"} BY <1>1 DEF OfferBatch
<1>2. CASE answer \in {"ACCEPTED", "BACKPRESSURE"}
  <2>1. /\ WellFormed(s, b) /\ s.accepted[st] = NoBatch
        /\ s.presented[st] # NoBatch => s.presented[st] = b
        /\ answer = "ACCEPTED" => HasRoom(s, b)
    BY <1>2 DEF OfferResult
  <2>2. st \in Stream /\ ~s.done[st] /\ b.sequence # 0 BY <2>1 DEF WellFormed
  <2>3. b \in Batch /\ b # NoBatch /\ Len(b.rows) \in Nat
    <3>1. b.rows \in Seq(Nat) /\ Len(b.rows) \in Nat BY LenProperties
    <3>2. \A i \in 1 .. Len(b.rows) : b.rows[i] \in Row BY <2>1 DEF WellFormed
    <3>3. b.rows \in Seq(Row)
      <4> DEFINE rows == b.rows
                 N == Len(rows)
      <4>1. rows \in Seq(Nat) /\ N \in Nat /\ \A i \in 1 .. N : rows[i] \in Row BY <3>1, <3>2
      <4> HIDE DEF rows
      <4>2. rows \in [1 .. N -> Nat] BY <4>1, LenProperties
      <4> HIDE DEF N
      <4>3. rows \in [1 .. N -> Row] BY <4>1, <4>2
      <4>4. rows \in UNION {[1 .. n -> Row] : n \in Nat} BY <4>1, <4>3
      <4>5. rows \in Seq(Row) BY <4>4, SeqDef
      <4> QED BY <4>5 DEF rows
    <3>4. b.sequence # NoBatch.sequence BY <2>2 DEF NoBatch
    <3> QED BY <2>2, <3>1, <3>3, <3>4 DEF Batch
  <2>4. /\ s \in BGAType /\ s.queue \in [Stream -> Seq(Contribution)]
        /\ s.accepted \in [Stream -> Batch] /\ s.presented \in [Stream -> Batch]
        /\ s.last \in [Stream -> Batch] /\ s.taken \in Nat
    BY DEF DatapathInv, BGAType
  <2>5. ~AllProducersDone(s) /\ ~s.draining
    BY <2>2 DEF AllProducersDone, DatapathInv, InputsBounded
  <2>6. s.output # <<>> => s.miss.active BY <2>5 DEF DatapathInv, OutputExclusion
  <2>7. CASE answer = "ACCEPTED"
    <3> DEFINE t == [s EXCEPT !.presented[st] = NoBatch, !.accepted[st] = b,
                              !.last[st] = b, !.taken = @ + Len(b.rows)]
    <3>1. OfferBatch(s, b) = t BY <2>7 DEF OfferBatch
    <3>2. /\ [s.presented EXCEPT ![st] = NoBatch] \in [Stream -> Batch]
          /\ [s.accepted EXCEPT ![st] = b] \in [Stream -> Batch]
          /\ [s.last EXCEPT ![st] = b] \in [Stream -> Batch]
          /\ s.taken + Len(b.rows) \in Nat
      <4>1. s.taken \in Nat /\ Len(b.rows) \in Nat BY <2>3, <2>4
      <4>2. b \in Batch /\ NoBatch \in Batch BY <2>3, SmallValues
      <4>3. \A f \in [Stream -> Batch], c \in Batch : [f EXCEPT ![st] = c] \in [Stream -> Batch]
        OBVIOUS
      <4>4. s.taken + Len(b.rows) \in Nat BY <4>1
      <4> QED BY <2>4, <4>2, <4>3, <4>4
    <3>3. t \in BGAType BY <2>4, <3>2 DEF BGAType
    <3>4. /\ t.acc = s.acc /\ t.output = s.output /\ t.op = s.op /\ t.miss = s.miss
          /\ t.fault = s.fault /\ t.draining = s.draining /\ t.queue = s.queue
          /\ t.done = s.done /\ t.retiring = s.retiring
          /\ t.accepted = [s.accepted EXCEPT ![st] = b]
          /\ t.presented = [s.presented EXCEPT ![st] = NoBatch]
      BY <2>4 DEF BGAType
    <3> HIDE DEF t, answer
    <3>5. SlotOwnership(t) /\ UniqueTags(t) /\ OperationReady(t) /\ MissProgress(t)
      BY <3>4 DEF DatapathInv, SlotOwnership, UniqueTags, OperationReady, MissProgress,
                  LiveSlots, FreeSlots
    <3>6. OutputExclusion(t) BY <2>6, <3>4 DEF DatapathInv, OutputExclusion
    <3>7. InputsBounded(t)
      <4>1. ASSUME NEW x \in Stream
            PROVE  /\ Len(t.queue[x]) + Len(t.accepted[x].rows) <= InputQueueDepth
                   /\ t.accepted[x] # NoBatch => t.presented[x] = NoBatch
                   /\ t.accepted[x] # NoBatch => t.accepted[x].stream = x
                   /\ t.done[x] => t.presented[x] = NoBatch
        <5>1. CASE x = st BY <2>1, <2>2, <2>4, <2>7, <3>4, <5>1 DEF HasRoom, answer
        <5>2. CASE x # st BY <2>4, <3>4, <5>2 DEF DatapathInv, InputsBounded
        <5> QED BY <5>1, <5>2
      <4> QED BY <2>5, <3>4, <4>1 DEF InputsBounded
    <3> QED BY <3>1, <3>3, <3>4, <3>5, <3>6, <3>7 DEF DatapathInv
  <2>8. CASE answer = "BACKPRESSURE"
    <3> DEFINE t == [s EXCEPT !.presented[st] = b]
    <3>1. OfferBatch(s, b) = t BY <2>8 DEF OfferBatch
    <3>2. [s.presented EXCEPT ![st] = b] \in [Stream -> Batch] BY <2>3, <2>4
    <3>3. t \in BGAType BY <2>4, <3>2 DEF BGAType
    <3>4. /\ t.acc = s.acc /\ t.output = s.output /\ t.op = s.op /\ t.miss = s.miss
          /\ t.fault = s.fault /\ t.draining = s.draining /\ t.queue = s.queue
          /\ t.done = s.done /\ t.retiring = s.retiring /\ t.accepted = s.accepted
          /\ t.presented = [s.presented EXCEPT ![st] = b]
      BY <2>4 DEF BGAType
    <3> HIDE DEF t, answer
    <3>5. SlotOwnership(t) /\ UniqueTags(t) /\ OperationReady(t) /\ MissProgress(t)
      BY <3>4 DEF DatapathInv, SlotOwnership, UniqueTags, OperationReady, MissProgress,
                  LiveSlots, FreeSlots
    <3>6. OutputExclusion(t) BY <2>6, <3>4 DEF DatapathInv, OutputExclusion
    <3>7. InputsBounded(t)
      <4>1. \A x \in Stream : x # st => t.presented[x] = s.presented[x] BY <2>4, <3>4
      <4>2. ~t.done[st] /\ t.accepted[st] = NoBatch BY <2>1, <2>2, <3>4
      <4> QED BY <2>5, <3>4, <4>1, <4>2 DEF DatapathInv, InputsBounded
    <3> QED BY <3>1, <3>3, <3>4, <3>5, <3>6, <3>7 DEF DatapathInv
  <2> QED BY <1>2, <2>7, <2>8
<1> QED BY <1>1, <1>2

\* A producer that still has a batch waiting cannot be marked done.
LEMMA ProducerDoneKeepsInv ==
  ASSUME NEW s, DatapathInv(s), NEW st \in Stream
  PROVE  DatapathInv(MarkProducerDone(s, st))
<1>1. CASE s.presented[st] # NoBatch BY <1>1 DEF MarkProducerDone
<1>2. CASE s.presented[st] = NoBatch
  <2> DEFINE t == [s EXCEPT !.done[st] = TRUE]
  <2>1. MarkProducerDone(s, st) = t BY <1>2 DEF MarkProducerDone
  <2>2. s \in BGAType /\ s.done \in [Stream -> BOOLEAN] BY DEF DatapathInv, BGAType
  <2>3. [s.done EXCEPT ![st] = TRUE] \in [Stream -> BOOLEAN] BY <2>2
  <2>4. t \in BGAType BY <2>2, <2>3 DEF BGAType
  <2>5. /\ t.acc = s.acc /\ t.output = s.output /\ t.op = s.op /\ t.miss = s.miss
        /\ t.fault = s.fault /\ t.draining = s.draining /\ t.queue = s.queue
        /\ t.presented = s.presented /\ t.retiring = s.retiring /\ t.accepted = s.accepted
        /\ t.done = [s.done EXCEPT ![st] = TRUE]
    BY <2>2 DEF BGAType
  <2> HIDE DEF t
  <2>6. SlotOwnership(t) /\ UniqueTags(t) /\ OperationReady(t) /\ MissProgress(t)
    BY <2>5 DEF DatapathInv, SlotOwnership, UniqueTags, OperationReady, MissProgress,
                LiveSlots, FreeSlots
  <2>7. OutputExclusion(t) BY <2>5 DEF DatapathInv, OutputExclusion, InputPending
  <2>8. t.done[st] /\ \A x \in Stream : x # st => (t.done[x] <=> s.done[x]) BY <2>2, <2>5
  <2>9. InputsBounded(t)
    <3>1. \A x \in Stream : t.done[x] => t.presented[x] = NoBatch
      BY <1>2, <2>5, <2>8 DEF DatapathInv, InputsBounded
    <3>2. t.draining => AllProducersDone(t)
      BY <2>5, <2>8 DEF DatapathInv, InputsBounded, AllProducersDone
    <3> QED BY ZenonT(30), <2>5, <3>1, <3>2 DEF DatapathInv, InputsBounded
  <2> QED BY <2>1, <2>4, <2>5, <2>6, <2>7, <2>9 DEF DatapathInv
<1> QED BY <1>1, <1>2

\* The final drain can be requested when every producer is done.
LEMMA RequestDrainKeepsInv ==
  ASSUME NEW s, DatapathInv(s)
  PROVE  DatapathInv(RequestFinalDrain(s))
<1>1. CASE ~AllProducersDone(s) BY <1>1 DEF RequestFinalDrain
<1>2. CASE AllProducersDone(s)
  <2> DEFINE t == [s EXCEPT !.draining = TRUE]
  <2>1. RequestFinalDrain(s) = t BY <1>2 DEF RequestFinalDrain
  <2>2. s \in BGAType BY DEF DatapathInv
  <2>3. t \in BGAType BY <2>2 DEF BGAType
  <2>4. /\ t.acc = s.acc /\ t.output = s.output /\ t.op = s.op /\ t.miss = s.miss
        /\ t.fault = s.fault /\ t.draining /\ t.queue = s.queue
        /\ t.presented = s.presented /\ t.retiring = s.retiring /\ t.accepted = s.accepted
        /\ t.done = s.done
    BY <2>2 DEF BGAType
  <2> HIDE DEF t
  <2>5. SlotOwnership(t) /\ UniqueTags(t) /\ OperationReady(t) /\ MissProgress(t)
    BY <2>4 DEF DatapathInv, SlotOwnership, UniqueTags, OperationReady, MissProgress,
                LiveSlots, FreeSlots
  <2>6. OutputExclusion(t) BY <2>4 DEF DatapathInv, OutputExclusion, InputPending
  <2>7. InputsBounded(t) BY <1>2, <2>4 DEF DatapathInv, InputsBounded, AllProducersDone
  <2> QED BY <2>1, <2>3, <2>4, <2>5, <2>6, <2>7 DEF DatapathInv
<1> QED BY <1>1, <1>2

\* Accepting a record only marks it: the next step retires it.
LEMMA AcceptKeepsInv ==
  ASSUME NEW s, DatapathInv(s), s.output # <<>>
  PROVE  DatapathInv(AcceptOutput(s))
<1> DEFINE t == [s EXCEPT !.retiring = TRUE]
<1>1. s \in BGAType BY DEF DatapathInv
<1>2. t \in BGAType BY <1>1 DEF BGAType
<1>3. /\ t.acc = s.acc /\ t.output = s.output /\ t.op = s.op /\ t.miss = s.miss
      /\ t.fault = s.fault /\ t.draining = s.draining /\ t.queue = s.queue
      /\ t.presented = s.presented /\ t.accepted = s.accepted /\ t.done = s.done
  BY <1>1 DEF BGAType
<1> HIDE DEF t
<1>4. SlotOwnership(t) /\ UniqueTags(t) /\ OperationReady(t) /\ MissProgress(t)
  BY <1>3 DEF DatapathInv, SlotOwnership, UniqueTags, OperationReady, MissProgress,
              LiveSlots, FreeSlots
<1>5. OutputExclusion(t) BY <1>3 DEF DatapathInv, OutputExclusion, InputPending
<1>6. InputsBounded(t) BY <1>3 DEF DatapathInv, InputsBounded, AllProducersDone
<1> QED BY <1>2, <1>3, <1>4, <1>5, <1>6 DEF DatapathInv, AcceptOutput, t

\* The state a reset leaves, whatever its counters are.
LEMMA EmptyStateInv ==
  ASSUME NEW s, s \in BGAType, s.fault = "none", s.op = NoOperation, s.miss = NoMiss,
         s.output = <<>>, s.retiring = FALSE, s.draining = FALSE,
         s.acc = [k \in Slot |-> FreeEntry], s.queue = [st \in Stream |-> <<>>],
         s.presented = [st \in Stream |-> NoBatch],
         s.accepted = [st \in Stream |-> NoBatch], s.done = [st \in Stream |-> FALSE]
  PROVE  DatapathInv(s)
<1>1. \A k \in Slot : ~s.acc[k].valid /\ ~s.acc[k].reserved BY DEF FreeEntry
<1>2. Len(s.output) = 0 /\ 1 .. Len(s.output) = {} /\ Len(NoBatch.rows) = 0
  BY EmptySeq DEF NoBatch
<1>3. LiveSlots(s) = {} /\ ~s.miss.active BY <1>1 DEF LiveSlots, NoMiss
<1>4. SlotOwnership(s) /\ UniqueTags(s) /\ OperationReady(s) /\ MissProgress(s)
  BY <1>1, <1>2, <1>3 DEF SlotOwnership, UniqueTags, OperationReady, MissProgress
<1>5. OutputExclusion(s) BY <1>2, BGAConfigAssumption DEF OutputExclusion
<1>6. InputsBounded(s)
  BY <1>2, EmptySeq, BGAConfigAssumption DEF InputsBounded
<1> QED BY <1>4, <1>5, <1>6 DEF DatapathInv

\* A reset keeps the counters and forgets the rest.
LEMMA AbortKeepsInv ==
  ASSUME NEW s, DatapathInv(s), NEW g \in Nat \ {0}
  PROVE  DatapathInv(AbortReset(s, g))
<1> DEFINE n == LiveContributionCount(s)
           t == AbortReset(s, g)
<1>1. /\ s \in BGAType /\ s.age \in Nat /\ s.outSeq \in Nat /\ s.taken \in Nat
      /\ s.retired \in Nat /\ s.aborted \in Nat
  BY DEF DatapathInv, BGAType
<1>2. s.aborted + n \in Nat
  BY <1>1, CountIsNat
<1> HIDE DEF n
<1>3. t = [BGAInit EXCEPT !.generation = g, !.age = s.age, !.outSeq = s.outSeq,
                          !.taken = s.taken, !.retired = s.retired,
                          !.aborted = s.aborted + n]
  BY DEF AbortReset, n
<1> HIDE DEF t
<1>4. t \in BGAType BY <1>1, <1>2, <1>3, InitialState DEF BGAType
<1>5. /\ t.fault = "none" /\ t.op = NoOperation /\ t.miss = NoMiss
      /\ t.output = <<>> /\ t.retiring = FALSE /\ t.draining = FALSE
      /\ t.acc = [k \in Slot |-> FreeEntry] /\ t.queue = [st \in Stream |-> <<>>]
      /\ t.presented = [st \in Stream |-> NoBatch]
      /\ t.accepted = [st \in Stream |-> NoBatch] /\ t.done = [st \in Stream |-> FALSE]
  BY <1>3 DEF BGAInit
<1> QED BY <1>4, <1>5, EmptyStateInv DEF t

-----------------------------------------------------------------------------
(* The theorems *)

\* While no fault has been found, IInv is the datapath invariant itself.
LEMMA NoFaultInv ==
  ASSUME IInv, bga.fault = "none"
  PROVE  DatapathInv(bga)
<1>1. bga \in BGAType BY DEF IInv
<1>2. [bga EXCEPT !.fault = "none"] = bga BY <1>1 DEF BGAType
<1> QED BY <1>2 DEF IInv

\* The fault field has no part in the rest of the state.
LEMMA FaultHidesNothing ==
  ASSUME bga \in BGAType
  PROVE  LET t == [bga EXCEPT !.fault = "none"]
         IN  /\ t.output = bga.output /\ t.op = bga.op /\ t.miss = bga.miss
             /\ t.draining = bga.draining /\ t.queue = bga.queue
             /\ t.accepted = bga.accepted /\ t.presented = bga.presented
BY DEF BGAType

\* The invariant holds at the start.
LEMMA InitInv == Init => IInv
<1> SUFFICES ASSUME Init PROVE IInv OBVIOUS
<1>1. bga = BGAInit /\ handed = <<>> BY DEF Init
<1>2. DatapathInv(BGAInit) BY InitialState, EmptyStateInv DEF BGAInit
<1>3. BGAInit.fault = "none" BY DEF BGAInit
<1>4. [BGAInit EXCEPT !.fault = "none"] = BGAInit BY <1>3, InitialState DEF BGAType
<1> QED BY <1>1, <1>2, <1>3, <1>4, InitialState DEF IInv

\* Every action keeps it.
LEMMA NextInv == IInv /\ [Next]_vars => IInv'
<1> SUFFICES ASSUME IInv, [Next]_vars PROVE IInv' OBVIOUS
<1>1. CASE UNCHANGED vars BY <1>1 DEF vars, IInv
<1>2. CASE Next
  <2>1. DatapathInv(bga) /\ bga.fault = "none" BY <1>2, NoFaultInv DEF Next
  <2>2. handed \in Seq([row : Row, value : Seq(Contribution)]) BY DEF IInv
  <2>3. ASSUME DatapathInv(bga'), UNCHANGED handed PROVE IInv'
    <3>1. bga' \in BGAType /\ bga'.fault = "none" BY <2>3 DEF DatapathInv
    <3>2. [bga' EXCEPT !.fault = "none"] = bga' BY <3>1 DEF BGAType
    <3> QED BY <2>2, <2>3, <3>1, <3>2 DEF IInv
  <2>4. ASSUME NEW b \in Offers, Offer(b) PROVE IInv'
    BY OffersAssumption, <2>1, <2>3, <2>4, OfferKeepsInv DEF Offer
  <2>5. ASSUME NEW st \in Stream, ProducerDone(st) PROVE IInv'
    BY <2>1, <2>3, <2>5, ProducerDoneKeepsInv DEF ProducerDone
  <2>6. CASE RequestDrain BY <2>1, <2>3, <2>6, RequestDrainKeepsInv DEF RequestDrain
  <2>7. CASE Accept
    <3>1. bga.output # <<>> /\ bga' = AcceptOutput(bga) BY <2>7 DEF Accept
    <3>2. DatapathInv(bga') BY <2>1, <3>1, AcceptKeepsInv
    <3>3. bga' \in BGAType /\ bga'.fault = "none" BY <3>2 DEF DatapathInv
    <3>4. [bga' EXCEPT !.fault = "none"] = bga' BY <3>3 DEF BGAType
    <3>5. Head(bga.output) \in Record BY <2>1, <3>1, FrontFacts DEF DatapathInv
    <3> DEFINE h == [row |-> Head(bga.output).row, value |-> Head(bga.output).value]
    <3>6. h \in [row : Row, value : Seq(Contribution)] BY <3>5 DEF Record
    <3>7. handed' = Append(handed, h) BY <2>7 DEF Accept
    <3> HIDE DEF h
    <3>8. handed' \in Seq([row : Row, value : Seq(Contribution)])
      BY <2>2, <3>6, <3>7, AppendProperties
    <3> QED BY <3>2, <3>3, <3>4, <3>8 DEF IInv
  <2>8. ASSUME NEW g \in 1 .. MaxGeneration, Abort(g) PROVE IInv'
    BY OffersAssumption, <2>1, <2>3, <2>8, AbortKeepsInv DEF Abort
  <2>9. CASE Tick BY <2>1, <2>2, <2>9, StepKeepsInv DEF Tick, IInv
  <2> QED BY <1>2, <2>4, <2>5, <2>6, <2>7, <2>8, <2>9 DEF Next
<1> QED BY <1>1, <1>2

\* The inductive invariant of CSCBankGroupAccumulator: what its calls and its
\* step() keep true of slots, operations, misses, records and queues.
THEOREM Invariance == Spec => []IInv
BY InitInv, NextInv, PTL DEF Spec

\* Type correctness: every field of the accumulator keeps its type.
THEOREM TypeCorrect == Spec => []TypeOK
<1>1. IInv => TypeOK BY DEF IInv, TypeOK
<1> QED BY <1>1, Invariance, PTL

\* None of the throws of the datapath (a retired slot that is not reserved, two
\* entries of one row, a full miss with no victim, a merge or insert target that
\* changed, an accepted batch without room, a broken slot reservation) is reachable.
THEOREM NoDatapathThrow == Spec => [](bga.fault \in {"none", ConservationFault})
<1>1. IInv => bga.fault \in {"none", ConservationFault} BY DEF IInv
<1> QED BY <1>1, Invariance, PTL

\* No FIFO and no output queue outgrows its configured depth.
THEOREM QueuesStayBounded == Spec => []QueuesBounded
<1>1. IInv => QueuesBounded
  BY FaultHidesNothing DEF IInv, DatapathInv, InputsBounded, OutputExclusion, QueuesBounded
<1> QED BY <1>1, Invariance, PTL

\* An eviction excludes the datapath.
THEOREM EvictionExclusion == Spec => []EvictionExcludesDatapath
<1>1. ASSUME IInv PROVE EvictionExcludesDatapath
  <2> DEFINE t == [bga EXCEPT !.fault = "none"]
  <2>1. /\ t.output = bga.output /\ t.op = bga.op /\ t.miss = bga.miss
        /\ t.draining = bga.draining /\ (InputPending(t) <=> InputPending(bga))
    BY <1>1, FaultHidesNothing DEF IInv, InputPending
  <2>2. DatapathInv(t) BY <1>1 DEF IInv
  <2> HIDE DEF t
  <2>3. CASE bga.output # <<>> /\ ~bga.miss.active
    BY <2>1, <2>2, <2>3 DEF DatapathInv, OutputExclusion, OperationReady,
                            EvictionExcludesDatapath
  <2>4. CASE bga.output # <<>> /\ bga.miss.active
    BY <2>1, <2>2, <2>4 DEF DatapathInv, MissProgress, OperationReady,
                            EvictionExcludesDatapath
  <2> QED BY <2>3, <2>4 DEF EvictionExcludesDatapath
<1> QED BY <1>1, Invariance, PTL

-----------------------------------------------------------------------------
(* The conservation of products, for every size, latency and set of        *)
(* offers: every product accepted is held in exactly one place, or has     *)
(* been handed out, or was dropped by a reset.  With it the last check of  *)
(* step() cannot fail, so no call ever throws.                             *)

-----------------------------------------------------------------------------
(* Counting the places of a family of lengths                              *)

\* The number of places of a family, and the part of it that leaves d out.
Count(what, f) == Cardinality(Places(what, f))

Without(f, d) == [x \in DOMAIN f \ {d} |-> f[x]]

\* n places of one member, from place m + 1 on.
PlacesFrom(what, d, m, n) == {<<what, d, m + i>> : i \in 1 .. n}

\* A place is a triple: what holds it, which one of those, where in it.
LEMMA PlaceFacts ==
  ASSUME NEW what, NEW D, NEW f \in [D -> Nat]
  PROVE  /\ \A d \in D : \A i \in 1 .. f[d] : <<what, d, i>> \in Places(what, f)
         /\ \A p \in Places(what, f) :
              \E d \in D : \E i \in 1 .. f[d] : p = <<what, d, i>>
BY DEF Places

\* Families of different kinds have no place in common.
LEMMA TagsDiffer ==
  \A v, w, f, g : v # w => Places(v, f) \cap Places(w, g) = {}
<1> SUFFICES ASSUME NEW v, NEW w, NEW f, NEW g, v # w,
                    NEW p \in Places(v, f), p \in Places(w, g)
             PROVE  FALSE
  OBVIOUS
<1>1. PICK c, i : p = <<v, c, i>> BY DEF Places
<1>2. PICK d, j : p = <<w, d, j>> BY DEF Places
<1> QED BY <1>1, <1>2

\* A family over a finite domain has finitely many places.
LEMMA CountType ==
  ASSUME NEW what, NEW D, IsFiniteSet(D), NEW f \in [D -> Nat]
  PROVE  IsFiniteSet(Places(what, f)) /\ Count(what, f) \in Nat
<1>1. IsFiniteSet(Places(what, f)) BY PlacesFinite
<1> QED BY <1>1, FS_CardinalityType DEF Count

\* The places of one member of the family are as many as its length.
LEMMA OneRow ==
  ASSUME NEW what, NEW d, NEW n \in Nat, NEW m \in Nat
  PROVE  /\ IsFiniteSet(PlacesFrom(what, d, m, n))
         /\ Cardinality(PlacesFrom(what, d, m, n)) = n
<1> DEFINE T == PlacesFrom(what, d, m, n)
           g == [i \in 1 .. n |-> <<what, d, m + i>>]
<1>1. g \in [1 .. n -> T] BY DEF PlacesFrom
<1>2. \A t \in T : \E i \in 1 .. n : g[i] = t BY DEF PlacesFrom
<1>3. \A i, j \in 1 .. n : g[i] = g[j] => i = j OBVIOUS
<1> HIDE DEF T, g
<1>4. g \in Bijection(1 .. n, T)
  BY <1>1, <1>2, <1>3 DEF Bijection, Injection, Surjection, IsInjective
<1>5. IsFiniteSet(1 .. n) /\ Cardinality(1 .. n) = n BY FS_Interval
<1>6. ExistsBijection(1 .. n, T) BY <1>4 DEF ExistsBijection
<1>7. IsFiniteSet(T) /\ Cardinality(T) = n BY <1>5, <1>6, FS_Bijection
<1> QED BY <1>7 DEF T

\* Two disjoint finite sets add up.
LEMMA DisjointSum ==
  ASSUME NEW S, NEW T, IsFiniteSet(S), IsFiniteSet(T), S \cap T = {}
  PROVE  /\ IsFiniteSet(S \cup T)
         /\ Cardinality(S \cup T) = Cardinality(S) + Cardinality(T)
<1>1. Cardinality({}) = 0 /\ Cardinality(S) \in Nat /\ Cardinality(T) \in Nat
  BY FS_EmptySet, FS_CardinalityType
<1>2. /\ IsFiniteSet(S \cup T)
      /\ Cardinality(S \cup T) = Cardinality(S) + Cardinality(T) - Cardinality(S \cap T)
  BY FS_Union
<1>3. Cardinality(S \cap T) = 0 BY <1>1
<1> QED BY <1>1, <1>2, <1>3

\* One member of the family apart from the others.
LEMMA CountSplit ==
  ASSUME NEW what, NEW D, IsFiniteSet(D), NEW f \in [D -> Nat], NEW d \in D
  PROVE  Count(what, f) = Count(what, Without(f, d)) + f[d]
<1> DEFINE g == Without(f, d)
           T == PlacesFrom(what, d, 0, f[d])
           G == Places(what, g)
<1>1. g \in [D \ {d} -> Nat] /\ IsFiniteSet(D \ {d}) /\ \A x \in D \ {d} : g[x] = f[x]
  BY FS_RemoveElement DEF Without
<1> HIDE DEF g
<1>2. IsFiniteSet(G) BY <1>1, PlacesFinite
<1>3. IsFiniteSet(T) /\ Cardinality(T) = f[d]
  BY OneRow
<1>4. T = {<<what, d, i>> : i \in 1 .. f[d]} BY DEF PlacesFrom
<1>5. Places(what, f) = G \cup T
  <2>1. ASSUME NEW p \in Places(what, f) PROVE p \in G \cup T
    <3>1. PICK x, i : x \in D /\ i \in 1 .. f[x] /\ p = <<what, x, i>> BY PlaceFacts
    <3>2. CASE x = d BY <1>4, <3>1, <3>2
    <3>3. CASE x # d
      BY <1>1, <3>1, <3>3, PlaceFacts
    <3> QED BY <3>2, <3>3
  <2>2. ASSUME NEW p \in G PROVE p \in Places(what, f)
    <3>1. PICK x, i : x \in D \ {d} /\ i \in 1 .. g[x] /\ p = <<what, x, i>> BY <1>1, PlaceFacts
    <3>2. x \in D /\ i \in 1 .. f[x] BY <1>1, <3>1
    <3> QED BY <3>1, <3>2, PlaceFacts
  <2>3. ASSUME NEW p \in T PROVE p \in Places(what, f) BY <1>4, <2>3, PlaceFacts
  <2> QED BY <2>1, <2>2, <2>3
<1>6. G \cap T = {}
  <2> SUFFICES ASSUME NEW p \in G, p \in T PROVE FALSE OBVIOUS
  <2>1. PICK x, i : x \in D \ {d} /\ i \in 1 .. g[x] /\ p = <<what, x, i>> BY <1>1, PlaceFacts
  <2>2. PICK j \in 1 .. f[d] : p = <<what, d, j>> BY <1>4
  <2> QED BY <2>1, <2>2
<1> HIDE DEF T, G
<1>7. Cardinality(G \cup T) = Cardinality(G) + f[d] BY <1>2, <1>3, <1>6, DisjointSum
<1> QED BY <1>5, <1>7 DEF Count, G, g

\* A family of one member.
LEMMA CountOne ==
  ASSUME NEW what, NEW d, NEW f \in [{d} -> Nat]
  PROVE  Count(what, f) = f[d]
<1>1. Places(what, Without(f, d)) = {}
  BY PlaceFacts DEF Without
<1>2. IsFiniteSet({d}) /\ Count(what, Without(f, d)) = 0
  BY <1>1, FS_Singleton, FS_EmptySet DEF Count
<1>3. Count(what, f) = Count(what, Without(f, d)) + f[d] BY <1>2, CountSplit
<1>4. f[d] \in Nat OBVIOUS
<1> QED BY <1>2, <1>3, <1>4

\* Only the length of d changed.
LEMMA CountChange ==
  ASSUME NEW what, NEW D, IsFiniteSet(D), NEW f \in [D -> Nat], NEW g \in [D -> Nat],
         NEW d \in D, \A x \in D : x # d => g[x] = f[x]
  PROVE  Count(what, g) + f[d] = Count(what, f) + g[d]
<1>1. Without(f, d) = Without(g, d) BY DEF Without
<1>2. /\ Count(what, f) = Count(what, Without(f, d)) + f[d]
      /\ Count(what, g) = Count(what, Without(f, d)) + g[d]
  BY <1>1, CountSplit
<1>3. Count(what, Without(f, d)) \in Nat
  BY FS_RemoveElement, CountType DEF Without
<1>4. f[d] \in Nat /\ g[d] \in Nat OBVIOUS
<1> QED BY <1>2, <1>3, <1>4

\* One member more.
LEMMA CountExtend ==
  ASSUME NEW what, NEW D, IsFiniteSet(D), NEW f \in [D -> Nat],
         NEW d, d \notin D, NEW g \in [D \cup {d} -> Nat], \A x \in D : g[x] = f[x]
  PROVE  Count(what, g) = Count(what, f) + g[d]
<1>1. Without(g, d) = f BY DEF Without
<1>2. IsFiniteSet(D \cup {d}) BY FS_AddElement
<1> QED BY <1>1, <1>2, CountSplit

\* The same lengths under other names count the same.
LEMMA CountRename ==
  ASSUME NEW v, NEW w, NEW D, NEW E, IsFiniteSet(D),
         NEW f \in [D -> Nat], NEW g \in [E -> Nat],
         NEW h \in Bijection(D, E), \A d \in D : g[h[d]] = f[d]
  PROVE  Count(v, f) = Count(w, g)
<1> DEFINE S == Places(v, f)
           T == Places(w, g)
           b == [p \in S |-> <<w, h[p[2]], p[3]>>]
<1>1. \A d \in D : h[d] \in E BY DEF Bijection, Injection, Surjection
<1>2. \A c, d \in D : h[c] = h[d] => c = d BY DEF Bijection, Injection, IsInjective
<1>3. \A e \in E : \E d \in D : h[d] = e BY DEF Bijection, Surjection
<1>4. \A p \in S : \E d \in D : \E i \in 1 .. f[d] : p = <<v, d, i>> BY PlaceFacts
<1>5. \A p \in T : \E e \in E : \E i \in 1 .. g[e] : p = <<w, e, i>> BY PlaceFacts
<1>6. ASSUME NEW d \in D, NEW i \in 1 .. f[d]
      PROVE  <<v, d, i>> \in S /\ <<w, h[d], i>> \in T
  BY <1>1, PlaceFacts
<1>11. IsFiniteSet(S) BY PlacesFinite
<1> HIDE DEF S, T
<1>7. b \in [S -> T] BY <1>4, <1>6
<1>8. ASSUME NEW p \in S, NEW q \in S, b[p] = b[q] PROVE p = q
  <2>1. PICK c, i : c \in D /\ i \in 1 .. f[c] /\ p = <<v, c, i>> BY <1>4
  <2>2. PICK d, j : d \in D /\ j \in 1 .. f[d] /\ q = <<v, d, j>> BY <1>4
  <2>3. <<w, h[c], i>> = <<w, h[d], j>> BY <1>8, <2>1, <2>2
  <2> QED BY <1>2, <2>1, <2>2, <2>3
<1>9. ASSUME NEW p \in T PROVE \E q \in S : b[q] = p
  <2>1. PICK e, i : e \in E /\ i \in 1 .. g[e] /\ p = <<w, e, i>> BY <1>5
  <2>2. PICK d \in D : h[d] = e BY <1>3, <2>1
  <2>3. <<v, d, i>> \in S BY <1>6, <2>1, <2>2
  <2> QED BY <2>1, <2>2, <2>3
<1> HIDE DEF b
<1>10. ExistsBijection(S, T)
  <2>1. b \in Bijection(S, T)
    BY <1>7, <1>8, <1>9, Zenon DEF Bijection, Injection, Surjection, IsInjective
  <2> QED BY <2>1 DEF ExistsBijection
<1>12. Cardinality(T) = Cardinality(S) BY <1>10, <1>11, FS_Bijection
<1> QED BY <1>12 DEF Count, S, T

\* Lengths that add up, member by member.
LEMMA CountSum ==
  ASSUME NEW v, NEW w, NEW D, IsFiniteSet(D),
         NEW f \in [D -> Nat], NEW g \in [D -> Nat], NEW h \in [D -> Nat],
         \A d \in D : h[d] = f[d] + g[d]
  PROVE  Count(w, h) = Count(w, f) + Count(v, g)
<1> DEFINE F == Places(w, f)
           G == Places(v, g)
           S == Places(w, h)
           b == [p \in G |-> <<w, p[2], f[p[2]] + p[3]>>]
           T == {b[p] : p \in G}
<1>1. \A p \in F : \E d \in D : \E i \in 1 .. f[d] : p = <<w, d, i>> BY PlaceFacts
<1>2. \A p \in G : \E d \in D : \E i \in 1 .. g[d] : p = <<v, d, i>> BY PlaceFacts
<1>3. \A p \in S : \E d \in D : \E i \in 1 .. h[d] : p = <<w, d, i>> BY PlaceFacts
<1>4. \A d \in D : /\ \A i \in 1 .. f[d] : <<w, d, i>> \in F
                   /\ \A i \in 1 .. g[d] : <<v, d, i>> \in G
                   /\ \A i \in 1 .. h[d] : <<w, d, i>> \in S
  BY PlaceFacts
<1>5. IsFiniteSet(F) /\ IsFiniteSet(G) BY PlacesFinite
<1> HIDE DEF F, G, S
<1>6. \A d \in D : \A i \in 1 .. g[d] : b[<<v, d, i>>] = <<w, d, f[d] + i>> BY <1>4
<1>7. S = F \cup T
  <2>1. ASSUME NEW p \in S PROVE p \in F \cup T
    <3>1. PICK d, i : d \in D /\ i \in 1 .. h[d] /\ p = <<w, d, i>> BY <1>3
    <3>2. CASE i <= f[d] BY <1>4, <3>1, <3>2
    <3>3. CASE i > f[d]
      <4>1. f[d] \in Nat /\ g[d] \in Nat /\ h[d] = f[d] + g[d] BY <3>1
      <4>2. i - f[d] \in 1 .. g[d] /\ f[d] + (i - f[d]) = i BY <3>1, <3>3, <4>1
      <4>3. <<v, d, i - f[d]>> \in G /\ b[<<v, d, i - f[d]>>] = p BY <1>4, <1>6, <3>1, <4>2
      <4> QED BY <4>3
    <3>4. f[d] \in Nat /\ i \in Nat BY <3>1
    <3> QED BY <3>2, <3>3, <3>4
  <2>2. ASSUME NEW p \in F PROVE p \in S
    <3>1. PICK d, i : d \in D /\ i \in 1 .. f[d] /\ p = <<w, d, i>> BY <1>1
    <3>2. i \in 1 .. h[d] BY <3>1
    <3> QED BY <1>4, <3>1, <3>2
  <2>3. ASSUME NEW p \in T PROVE p \in S
    <3>1. PICK q \in G : p = b[q] OBVIOUS
    <3>2. PICK d, i : d \in D /\ i \in 1 .. g[d] /\ q = <<v, d, i>> BY <1>2
    <3>3. f[d] + i \in 1 .. h[d] BY <3>2
    <3>4. p = <<w, d, f[d] + i>> BY <1>6, <3>1, <3>2
    <3> QED BY <1>4, <3>2, <3>3, <3>4
  <2> HIDE DEF T
  <2> QED BY <2>1, <2>2, <2>3
<1>8. F \cap T = {}
  <2> SUFFICES ASSUME NEW p \in F, p \in T PROVE FALSE OBVIOUS
  <2>1. PICK c, j : c \in D /\ j \in 1 .. f[c] /\ p = <<w, c, j>> BY <1>1
  <2>2. PICK q \in G : p = b[q] OBVIOUS
  <2>3. PICK d, i : d \in D /\ i \in 1 .. g[d] /\ q = <<v, d, i>> BY <1>2
  <2>4. p = <<w, d, f[d] + i>> BY <1>6, <2>2, <2>3
  <2>5. c = d /\ j = f[d] + i BY <2>1, <2>4
  <2> QED BY <2>1, <2>3, <2>5
<1>9. ASSUME NEW p \in G, NEW q \in G, b[p] = b[q] PROVE p = q
  <2>1. PICK c, i : c \in D /\ i \in 1 .. g[c] /\ p = <<v, c, i>> BY <1>2
  <2>2. PICK d, j : d \in D /\ j \in 1 .. g[d] /\ q = <<v, d, j>> BY <1>2
  <2>3. <<w, c, f[c] + i>> = <<w, d, f[d] + j>> BY <1>6, <1>9, <2>1, <2>2
  <2>4. c = d /\ f[c] + i = f[c] + j /\ f[c] \in Nat BY <2>1, <2>3
  <2> HIDE DEF b
  <2>5. i = j BY <2>1, <2>2, <2>4
  <2> QED BY <2>1, <2>2, <2>4, <2>5
<1>10. Cardinality(T) = Cardinality(G) /\ IsFiniteSet(T)
  <2>1. b \in [G -> T] /\ \A t \in T : \E p \in G : b[p] = t OBVIOUS
  <2> HIDE DEF b, T
  <2>2. b \in Bijection(G, T)
    BY <1>9, <2>1, Zenon DEF Bijection, Injection, Surjection, IsInjective
  <2>3. ExistsBijection(G, T) BY <2>2 DEF ExistsBijection
  <2> QED BY <1>5, <2>3, FS_Bijection
<1> HIDE DEF T
<1>11. Cardinality(F \cup T) = Cardinality(F) + Cardinality(T) BY <1>5, <1>8, <1>10, DisjointSum
<1> QED BY <1>7, <1>10, <1>11 DEF Count, F, G, S

-----------------------------------------------------------------------------
(* What a state holds, part by part                                        *)

QueueLengths(s)    == [st \in Stream |-> Len(s.queue[st])]
AcceptedLengths(s) == [st \in Stream |-> Len(s.accepted[st].rows)]
EntryLengths(s)    == [k \in LiveSlots(s) |-> Len(s.acc[k].value)]
OutputLengths(s)   == [n \in 1 .. Len(s.output) |-> Len(s.output[n].value)]
OpLength(s)        == [n \in {0} |-> IF s.op # NoOperation THEN 1 ELSE 0]
MissLength(s)      == [n \in {0} |-> IF s.miss.active THEN 1 ELSE 0]

Queued(s)   == Count("queue", QueueLengths(s))
Accepted(s) == Count("accepted", AcceptedLengths(s))
InEntries(s) == Count("entry", EntryLengths(s))
InOutput(s) == Count("output", OutputLengths(s))
InOp(s)     == IF s.op # NoOperation THEN 1 ELSE 0
InMiss(s)   == IF s.miss.active THEN 1 ELSE 0

\* The lengths are numbers over finite domains.
LEMMA LengthTypes ==
  ASSUME NEW s \in BGAType
  PROVE  /\ IsFiniteSet(Stream) /\ IsFiniteSet(LiveSlots(s))
         /\ IsFiniteSet(1 .. Len(s.output)) /\ IsFiniteSet({0})
         /\ QueueLengths(s) \in [Stream -> Nat]
         /\ AcceptedLengths(s) \in [Stream -> Nat]
         /\ EntryLengths(s) \in [LiveSlots(s) -> Nat]
         /\ OutputLengths(s) \in [1 .. Len(s.output) -> Nat]
         /\ OpLength(s) \in [{0} -> Nat] /\ MissLength(s) \in [{0} -> Nat]
<1>1. QueueLengths(s) \in [Stream -> Nat] BY DEF BGAType, QueueLengths
<1>2. AcceptedLengths(s) \in [Stream -> Nat] BY DEF BGAType, Batch, AcceptedLengths
<1>3. EntryLengths(s) \in [LiveSlots(s) -> Nat] BY DEF BGAType, Entry, LiveSlots, EntryLengths
<1>4. OutputLengths(s) \in [1 .. Len(s.output) -> Nat]
  BY SMTT(20) DEF BGAType, Record, OutputLengths
<1>5. OpLength(s) \in [{0} -> Nat] /\ MissLength(s) \in [{0} -> Nat] BY DEF OpLength, MissLength
<1>6. IsFiniteSet(Stream) /\ IsFiniteSet(Slot)
  BY BGAConfigAssumption, FS_Interval DEF Stream, Slot
<1>7. IsFiniteSet(LiveSlots(s)) BY <1>6, FS_Subset DEF LiveSlots
<1>8. IsFiniteSet(1 .. Len(s.output)) /\ IsFiniteSet({0})
  <2>1. 1 \in Int /\ Len(s.output) \in Int BY OutputFacts
  <2> QED BY <2>1, FS_Interval, FS_Singleton
<1> QED BY <1>1, <1>2, <1>3, <1>4, <1>5, <1>6, <1>7, <1>8

\* Each part is a number.
LEMMA PartTypes ==
  ASSUME NEW s \in BGAType
  PROVE  /\ Queued(s) \in Nat /\ Accepted(s) \in Nat /\ InEntries(s) \in Nat
         /\ InOutput(s) \in Nat /\ InOp(s) \in Nat /\ InMiss(s) \in Nat
<1>1. InOp(s) \in Nat /\ InMiss(s) \in Nat BY DEF InOp, InMiss
<1> QED BY <1>1, LengthTypes, CountType DEF Queued, Accepted, InEntries, InOutput

\* The parts overlap nowhere: together they are all that a state holds.
LEMMA LiveContributionParts ==
  ASSUME NEW s \in BGAType
  PROVE  LiveContributionCount(s)
           = Queued(s) + Accepted(s) + InEntries(s) + InOutput(s) + InOp(s) + InMiss(s)
<1> DEFINE Q == Places("queue", QueueLengths(s))
           A == Places("accepted", AcceptedLengths(s))
           E == Places("entry", EntryLengths(s))
           O == Places("output", OutputLengths(s))
           P == Places("operation", OpLength(s))
           M == Places("miss", MissLength(s))
<1>1. /\ IsFiniteSet(Q) /\ IsFiniteSet(A) /\ IsFiniteSet(E)
      /\ IsFiniteSet(O) /\ IsFiniteSet(P) /\ IsFiniteSet(M)
  BY LengthTypes, PlacesFinite
<1>2. /\ Q \cap A = {}
      /\ Q \cap E = {} /\ A \cap E = {}
      /\ Q \cap O = {} /\ A \cap O = {} /\ E \cap O = {}
      /\ Q \cap P = {} /\ A \cap P = {} /\ E \cap P = {} /\ O \cap P = {}
      /\ Q \cap M = {} /\ A \cap M = {} /\ E \cap M = {} /\ O \cap M = {} /\ P \cap M = {}
  BY TagsDiffer
<1>3. HeldPlaces(s) = Q \cup A \cup E \cup O \cup P \cup M
  BY DEF HeldPlaces, QueueLengths, AcceptedLengths, EntryLengths, OutputLengths,
         OpLength, MissLength
<1>4. Cardinality(P) = InOp(s) /\ Cardinality(M) = InMiss(s)
  <2>1. OpLength(s)[0] = InOp(s) /\ MissLength(s)[0] = InMiss(s)
    BY DEF OpLength, MissLength, InOp, InMiss
  <2> QED BY <2>1, LengthTypes, CountOne DEF Count
<1>5. /\ Cardinality(Q) = Queued(s) /\ Cardinality(A) = Accepted(s)
      /\ Cardinality(E) = InEntries(s) /\ Cardinality(O) = InOutput(s)
  BY DEF Queued, Accepted, InEntries, InOutput, Count
<1> HIDE DEF Q, A, E, O, P, M
<1>6. IsFiniteSet(Q \cup A) /\ Cardinality(Q \cup A) = Cardinality(Q) + Cardinality(A)
  BY <1>2, <1>1, DisjointSum
<1>7. /\ IsFiniteSet(Q \cup A \cup E)
      /\ Cardinality(Q \cup A \cup E) = Cardinality(Q \cup A) + Cardinality(E)
  BY <1>2, <1>1, <1>6, DisjointSum
<1>8. /\ IsFiniteSet(Q \cup A \cup E \cup O)
      /\ Cardinality(Q \cup A \cup E \cup O) = Cardinality(Q \cup A \cup E) + Cardinality(O)
  BY <1>2, <1>1, <1>7, DisjointSum
<1>9. /\ IsFiniteSet(Q \cup A \cup E \cup O \cup P)
      /\ Cardinality(Q \cup A \cup E \cup O \cup P)
            = Cardinality(Q \cup A \cup E \cup O) + Cardinality(P)
  BY <1>2, <1>1, <1>8, DisjointSum
<1>10. Cardinality(Q \cup A \cup E \cup O \cup P \cup M)
         = Cardinality(Q \cup A \cup E \cup O \cup P) + Cardinality(M)
  BY <1>2, <1>1, <1>9, DisjointSum
<1> QED BY <1>3, <1>4, <1>5, <1>6, <1>7, <1>8, <1>9, <1>10 DEF LiveContributionCount

\* A part that its fields leave alone keeps its size.
LEMMA SameParts ==
  ASSUME NEW s, NEW t
  PROVE  /\ t.queue = s.queue => Queued(t) = Queued(s)
         /\ t.accepted = s.accepted => Accepted(t) = Accepted(s)
         /\ t.acc = s.acc => InEntries(t) = InEntries(s)
         /\ t.output = s.output => InOutput(t) = InOutput(s)
         /\ t.op = s.op => InOp(t) = InOp(s)
         /\ t.miss = s.miss => InMiss(t) = InMiss(s)
<1>1. t.queue = s.queue => Queued(t) = Queued(s) BY DEF Queued, QueueLengths
<1>2. t.accepted = s.accepted => Accepted(t) = Accepted(s) BY DEF Accepted, AcceptedLengths
<1>3. t.acc = s.acc => InEntries(t) = InEntries(s) BY DEF InEntries, EntryLengths, LiveSlots
<1>4. t.output = s.output => InOutput(t) = InOutput(s) BY DEF InOutput, OutputLengths
<1>5. t.op = s.op => InOp(t) = InOp(s) BY DEF InOp
<1>6. t.miss = s.miss => InMiss(t) = InMiss(s) BY DEF InMiss
<1> QED BY <1>1, <1>2, <1>3, <1>4, <1>5, <1>6

\* What a state holds, has handed out and has dropped.
Total(s) == Queued(s) + Accepted(s) + InEntries(s) + InOutput(s) + InOp(s) + InMiss(s)
              + s.retired + s.aborted

\* The invariant of the counters, in terms of the parts.
LEMMA ConservationIsTotal ==
  ASSUME NEW s \in BGAType
  PROVE  ConservationInvariant(s) <=> s.taken = Total(s)
<1>1. LiveContributionCount(s)
        = Queued(s) + Accepted(s) + InEntries(s) + InOutput(s) + InOp(s) + InMiss(s)
  BY LiveContributionParts
<1> QED BY <1>1 DEF ConservationInvariant, Total

\* A phase that moves products around keeps the total and the number taken.
Moves(s, t) == t.taken = s.taken /\ Total(t) = Total(s)

\* So such a phase keeps every product accounted for.
LEMMA MovesKeepConservation ==
  ASSUME NEW s, NEW t, DatapathInv(s), DatapathInv(t), Moves(s, t), ConservationInvariant(s)
  PROVE  ConservationInvariant(t)
BY ConservationIsTotal DEF DatapathInv, Moves

-----------------------------------------------------------------------------
(* The phases of step() move products around                               *)

\* A running operation is never the absent one.
LEMMA OpKinds ==
  ASSUME NEW o, o.kind # "NONE"
  PROVE  o # NoOperation
BY DEF NoOperation

\* The places of the front record go; those of the others move up by one record.
LEMMA OutputWithoutFront ==
  ASSUME NEW s \in BGAType, s.output # <<>>, NEW t \in BGAType, t.output = Tail(s.output)
  PROVE  InOutput(s) = InOutput(t) + Len(s.output[1].value)
<1> DEFINE n == Len(s.output)
           f == OutputLengths(s)
           g == OutputLengths(t)
           h == [i \in 1 .. n - 1 |-> i + 1]
<1>1. /\ n \in Nat \ {0} /\ Len(t.output) = n - 1
      /\ \A i \in 1 .. n - 1 : t.output[i] = s.output[i + 1]
  BY FrontFacts
<1>2. /\ f \in [1 .. n -> Nat] /\ g \in [1 .. n - 1 -> Nat]
      /\ IsFiniteSet(1 .. n) /\ IsFiniteSet(1 .. n - 1)
  BY <1>1, LengthTypes
<1>3. 1 \in 1 .. n /\ f[1] = Len(s.output[1].value) BY <1>1 DEF OutputLengths
<1>4. ASSUME NEW i \in 1 .. n - 1 PROVE g[i] = f[i + 1] BY <1>1 DEF OutputLengths
<1>5. h \in Bijection(1 .. n - 1, (1 .. n) \ {1})
  <2>1. h \in [1 .. n - 1 -> (1 .. n) \ {1}] BY <1>1
  <2>2. \A i, j \in 1 .. n - 1 : h[i] = h[j] => i = j BY <1>1
  <2>3. \A j \in (1 .. n) \ {1} : j - 1 \in 1 .. n - 1 /\ h[j - 1] = j BY <1>1
  <2>4. \A j \in (1 .. n) \ {1} : \E i \in 1 .. n - 1 : h[i] = j BY <2>3
  <2> HIDE DEF h, n
  <2> QED BY <2>1, <2>2, <2>4, Zenon DEF Bijection, Injection, Surjection, IsInjective
<1>6. /\ Without(f, 1) \in [(1 .. n) \ {1} -> Nat]
      /\ \A i \in (1 .. n) \ {1} : Without(f, 1)[i] = f[i]
  BY <1>2 DEF Without
<1>7. \A i \in 1 .. n - 1 : Without(f, 1)[h[i]] = g[i] BY <1>1, <1>4, <1>6
<1> HIDE DEF f, g, h, n
<1>8. Count("output", g) = Count("output", Without(f, 1))
  <2> DEFINE D == 1 .. n - 1
             E == (1 .. n) \ {1}
             w == Without(f, 1)
  <2>1. /\ IsFiniteSet(D) /\ g \in [D -> Nat] /\ w \in [E -> Nat]
        /\ h \in Bijection(D, E) /\ \A i \in D : w[h[i]] = g[i]
    BY <1>2, <1>5, <1>6, <1>7
  <2> HIDE DEF D, E, w
  <2>2. Count("output", g) = Count("output", w) BY <2>1, CountRename
  <2> QED BY <2>2 DEF w
<1>9. Count("output", f) = Count("output", Without(f, 1)) + f[1] BY <1>2, <1>3, CountSplit
<1> QED BY <1>3, <1>8, <1>9 DEF InOutput, f, g

\* Retirement: the products of the front record are handed out.
LEMMA RetireOutputMoves ==
  ASSUME NEW s, DatapathInv(s)
  PROVE  Moves(s, RetireOutput(s))
<1>1. CASE ~s.retiring BY <1>1 DEF RetireOutput, Moves
<1>2. CASE s.retiring
  <2> DEFINE front == Head(s.output)
             t == RetireOutput(s)
  <2>1. s \in BGAType /\ s.output # <<>> BY <1>2 DEF DatapathInv, OutputExclusion
  <2>2. front = s.output[1] /\ front.slot \in Slot /\ Len(front.value) \in Nat
    BY <2>1, FrontFacts DEF Record
  <2>3. s.acc[front.slot].reserved BY <2>1, <2>2, FrontFacts DEF DatapathInv, SlotOwnership
  <2>4. t = [s EXCEPT !.retired = @ + Len(front.value),
                      !.acc[front.slot] = FreeEntry,
                      !.output = Tail(@),
                      !.retiring = FALSE,
                      !.miss.awaiting = @ /\ s.miss.eviction # front.seq]
    BY <1>2, <2>3 DEF RetireOutput
  <2>5. /\ t.queue = s.queue /\ t.accepted = s.accepted /\ t.op = s.op
        /\ t.output = Tail(s.output) /\ t.taken = s.taken /\ t.aborted = s.aborted
        /\ t.retired = s.retired + Len(front.value)
        /\ t.acc = [s.acc EXCEPT ![front.slot] = FreeEntry]
    BY <2>1, <2>4 DEF BGAType
  <2>6. InMiss(t) = InMiss(s)
    <3>1. s.miss \in PendingMiss BY <2>1 DEF BGAType
    <3>2. t.miss = [s.miss EXCEPT !.awaiting = @ /\ s.miss.eviction # front.seq]
      BY <2>1, <2>4 DEF BGAType
    <3> HIDE DEF t, front
    <3>3. t.miss.active = s.miss.active BY <3>1, <3>2 DEF PendingMiss
    <3> QED BY <3>3 DEF InMiss
  <2>7. LiveSlots(t) = LiveSlots(s) /\ \A k \in LiveSlots(s) : t.acc[k] = s.acc[k]
    BY <2>1, <2>2, <2>3, <2>5 DEF LiveSlots, FreeEntry, BGAType
  <2>8. t \in BGAType BY RetireOutputKeepsInv DEF DatapathInv
  <2> HIDE DEF t
  <2>9. InEntries(t) = InEntries(s)
    BY <2>7 DEF EntryLengths, InEntries
  <2>10. InOutput(s) = InOutput(t) + Len(front.value)
    BY <2>1, <2>2, <2>5, <2>8, OutputWithoutFront
  <2>11. Queued(t) = Queued(s) /\ Accepted(t) = Accepted(s) /\ InOp(t) = InOp(s)
    BY <2>5, SameParts
  <2> HIDE DEF front
  <2>12. Total(t) = Total(s)
    <3>1. /\ Queued(s) \in Nat /\ Accepted(s) \in Nat /\ InEntries(s) \in Nat
          /\ InOutput(t) \in Nat /\ InOp(s) \in Nat /\ InMiss(s) \in Nat
          /\ s.retired \in Nat /\ s.aborted \in Nat
      BY <2>1, <2>8, PartTypes DEF BGAType
    <3>2. /\ t.retired = s.retired + Len(front.value) /\ t.aborted = s.aborted
          /\ Len(front.value) \in Nat
      BY <2>2, <2>5
    <3> QED BY SMTT(20), <2>6, <2>9, <2>10, <2>11, <3>1, <3>2 DEF Total
  <2> QED BY <2>5, <2>12 DEF Moves, t
<1> QED BY <1>1, <1>2

\* A step that only changes the operation and the pending miss moves one product
\* between them at most.
LEMMA OpMoves ==
  ASSUME NEW s \in BGAType, NEW t \in BGAType,
         t.queue = s.queue, t.accepted = s.accepted, t.acc = s.acc, t.output = s.output,
         t.taken = s.taken, t.retired = s.retired, t.aborted = s.aborted,
         InOp(t) + InMiss(t) = InOp(s) + InMiss(s)
  PROVE  Moves(s, t)
<1>1. /\ Queued(t) = Queued(s) /\ Accepted(t) = Accepted(s)
      /\ InEntries(t) = InEntries(s) /\ InOutput(t) = InOutput(s)
  BY SameParts
<1>2. /\ Queued(s) \in Nat /\ Accepted(s) \in Nat /\ InEntries(s) \in Nat
      /\ InOutput(s) \in Nat /\ InOp(s) \in Nat /\ InMiss(s) \in Nat
      /\ InOp(t) \in Nat /\ InMiss(t) \in Nat
      /\ s.retired \in Nat /\ s.aborted \in Nat
  BY PartTypes DEF BGAType
<1> QED BY <1>1, <1>2 DEF Moves, Total

\* A lookup keeps its product, or hands it to the pending miss.
LEMMA LookupMoves ==
  ASSUME NEW s, DatapathInv(s), s.op # NoOperation
  PROVE  Moves(s, CommitLookup(s))
<1> DEFINE t == CommitLookup(s)
           input == s.op.input
           hits == {k \in LiveSlots(s) : s.acc[k].row = input.row}
<1>1. s \in BGAType /\ ~s.miss.active /\ InOp(s) = 1 /\ InMiss(s) = 0
  BY DEF DatapathInv, OperationReady, InOp, InMiss
<1>2. t \in BGAType BY LookupKeepsInv DEF DatapathInv
<1>3. ~ \E k, j \in hits : k # j BY DEF DatapathInv, UniqueTags
<1>4. ASSUME NEW o, o.kind # "NONE", t = [s EXCEPT !.op = o] PROVE Moves(s, t)
  <2>1. /\ t.op = o /\ t.miss = s.miss /\ t.queue = s.queue /\ t.accepted = s.accepted
        /\ t.acc = s.acc /\ t.output = s.output /\ t.taken = s.taken
        /\ t.retired = s.retired /\ t.aborted = s.aborted
    BY <1>1, <1>4 DEF BGAType
  <2> HIDE DEF t
  <2>2. InOp(t) = 1 /\ InMiss(t) = 0 BY <1>1, <1>4, <2>1, OpKinds DEF InOp, InMiss
  <2> QED BY <1>1, <1>2, <2>1, <2>2, OpMoves
<1>5. CASE hits # {}
  <2> DEFINE o == [kind |-> "MERGE", input |-> input, slot |-> CHOOSE k \in hits : TRUE,
                   remaining |-> AddLatency]
  <2>1. t = [s EXCEPT !.op = o] BY <1>3, <1>5 DEF CommitLookup
  <2>2. o.kind # "NONE" OBVIOUS
  <2> HIDE DEF o, t
  <2> QED BY <1>4, <2>1, <2>2 DEF t
<1>6. CASE hits = {} /\ FreeSlots(s) # {}
  <2> DEFINE o == [kind |-> "INSERT", input |-> input, slot |-> Lowest(FreeSlots(s)),
                   remaining |-> AddLatency]
  <2>1. t = [s EXCEPT !.op = o] BY <1>3, <1>6 DEF CommitLookup
  <2>2. o.kind # "NONE" OBVIOUS
  <2> HIDE DEF o, t
  <2> QED BY <1>4, <2>1, <2>2 DEF t
<1>7. CASE hits = {} /\ FreeSlots(s) = {}
  <2> DEFINE m == [active |-> TRUE, input |-> input, victim |-> Oldest(s, LiveSlots(s)),
                   eviction |-> 0, awaiting |-> FALSE]
  <2>1. LiveSlots(s) # {}
    BY <1>7, NothingReserved, SmallValues DEF DatapathInv, OperationReady
  <2>2. t = [s EXCEPT !.op = NoOperation, !.miss = m] BY <1>3, <1>7, <2>1 DEF CommitLookup
  <2>3. m.active OBVIOUS
  <2> HIDE DEF m
  <2>4. /\ t.op = NoOperation /\ t.miss = m /\ t.queue = s.queue /\ t.accepted = s.accepted
        /\ t.acc = s.acc /\ t.output = s.output /\ t.taken = s.taken
        /\ t.retired = s.retired /\ t.aborted = s.aborted
    BY <1>1, <2>2 DEF BGAType
  <2> HIDE DEF t
  <2>5. InOp(t) = 0 /\ InMiss(t) = 1 BY <2>3, <2>4 DEF InOp, InMiss
  <2>6. InOp(t) + InMiss(t) = InOp(s) + InMiss(s) BY <1>1, <2>5
  <2>7. Moves(s, t) BY <1>1, <1>2, <2>4, <2>6, OpMoves
  <2> QED BY <2>7 DEF t
<1> QED BY <1>5, <1>6, <1>7

\* A step that ends an operation and puts its product into an entry.
LEMMA EntryMoves ==
  ASSUME NEW s \in BGAType, NEW t \in BGAType,
         t.queue = s.queue, t.accepted = s.accepted, t.output = s.output, t.miss = s.miss,
         t.taken = s.taken, t.retired = s.retired, t.aborted = s.aborted,
         InOp(s) = 1, InOp(t) = 0, InEntries(t) = InEntries(s) + 1
  PROVE  Moves(s, t)
<1>1. /\ Queued(t) = Queued(s) /\ Accepted(t) = Accepted(s)
      /\ InMiss(t) = InMiss(s) /\ InOutput(t) = InOutput(s)
  BY SameParts
<1>2. /\ Queued(s) \in Nat /\ Accepted(s) \in Nat /\ InEntries(s) \in Nat
      /\ InOutput(s) \in Nat /\ InMiss(s) \in Nat
      /\ s.retired \in Nat /\ s.aborted \in Nat
  BY PartTypes DEF BGAType
<1> QED BY <1>1, <1>2 DEF Moves, Total

\* A merge: the value of one live entry is one longer.
LEMMA MergeMoves ==
  ASSUME NEW s, DatapathInv(s), s.op.kind = "MERGE", s.op # NoOperation
  PROVE  Moves(s, CommitMerge(s))
<1> DEFINE k == s.op.slot
           t == CommitMerge(s)
<1>1. /\ s \in BGAType /\ s.acc \in [Slot -> Entry] /\ s.op.input \in Contribution
      /\ k \in LiveSlots(s) /\ k \in Slot /\ s.acc[k].row = s.op.input.row
  BY DEF DatapathInv, OperationReady, BGAType, Operation, LiveSlots
<1>2. t = [s EXCEPT !.op = NoOperation, !.acc[k].value = Append(@, s.op.input)]
  BY <1>1 DEF CommitMerge
<1>3. /\ s.acc[k] \in Entry /\ s.acc[k].value \in Seq(Contribution)
      /\ Len(Append(s.acc[k].value, s.op.input)) = Len(s.acc[k].value) + 1
      /\ Len(s.acc[k].value) \in Nat
  BY <1>1, AppendProperties, LenProperties DEF Entry
<1> DEFINE e == [s.acc[k] EXCEPT !.value = Append(@, s.op.input)]
<1>4. /\ t.op = NoOperation /\ t.miss = s.miss /\ t.queue = s.queue
      /\ t.accepted = s.accepted /\ t.output = s.output /\ t.taken = s.taken
      /\ t.retired = s.retired /\ t.aborted = s.aborted
      /\ t.acc = [s.acc EXCEPT ![k] = e]
  BY <1>1, <1>2 DEF BGAType
<1>5. /\ e.valid = s.acc[k].valid /\ e.reserved = s.acc[k].reserved
      /\ Len(e.value) = Len(s.acc[k].value) + 1
  BY <1>3 DEF Entry
<1>6. t \in BGAType BY MergeKeepsInv DEF DatapathInv
<1> HIDE DEF t, e
<1>7. t.acc[k] = e /\ \A j \in Slot : j # k => t.acc[j] = s.acc[j] BY <1>1, <1>4
<1>8. LiveSlots(t) = LiveSlots(s) /\ LiveSlots(s) \subseteq Slot BY <1>5, <1>7 DEF LiveSlots
<1>9. InEntries(t) = InEntries(s) + 1
  <2>1. /\ EntryLengths(s)[k] = Len(s.acc[k].value)
        /\ EntryLengths(t)[k] = Len(s.acc[k].value) + 1
        /\ \A j \in LiveSlots(s) : j # k => EntryLengths(t)[j] = EntryLengths(s)[j]
    BY <1>1, <1>5, <1>7, <1>8 DEF EntryLengths
  <2>2. /\ EntryLengths(s) \in [LiveSlots(s) -> Nat]
        /\ EntryLengths(t) \in [LiveSlots(s) -> Nat]
        /\ IsFiniteSet(LiveSlots(s))
    BY <1>1, <1>6, <1>8, LengthTypes
  <2>3. Count("entry", EntryLengths(t)) + EntryLengths(s)[k]
          = Count("entry", EntryLengths(s)) + EntryLengths(t)[k]
    BY <1>1, <2>1, <2>2, CountChange
  <2>4. InEntries(s) \in Nat /\ InEntries(t) \in Nat BY <1>1, <1>6, PartTypes
  <2>5. \A a, b, n \in Nat : b + n = a + (n + 1) => b = a + 1 OBVIOUS
  <2>6. InEntries(t) + Len(s.acc[k].value) = InEntries(s) + (Len(s.acc[k].value) + 1)
    BY <2>1, <2>3 DEF InEntries
  <2>7. Len(s.acc[k].value) \in Nat BY <1>3, LenProperties
  <2> QED BY <2>4, <2>5, <2>6, <2>7, Zenon
<1>10. InOp(s) = 1 /\ InOp(t) = 0 BY <1>4 DEF InOp
<1> QED BY <1>1, <1>4, <1>6, <1>9, <1>10, EntryMoves DEF t

\* An insert: a free slot becomes a live entry of one product.
LEMMA InsertMoves ==
  ASSUME NEW s, DatapathInv(s), s.op.kind = "INSERT", s.op # NoOperation
  PROVE  Moves(s, CommitInsert(s))
<1> DEFINE k == s.op.slot
           e == [valid |-> TRUE, reserved |-> FALSE, row |-> s.op.input.row,
                 value |-> <<s.op.input>>, age |-> s.age + 1]
           t == CommitInsert(s)
<1>1. /\ s \in BGAType /\ s.acc \in [Slot -> Entry]
      /\ k \in FreeSlots(s) /\ k \in Slot /\ s.output = <<>>
  BY DEF DatapathInv, OperationReady, BGAType, FreeSlots
<1>2. t = [s EXCEPT !.op = NoOperation, !.age = @ + 1, !.acc[k] = e]
  BY <1>1, NothingReserved DEF CommitInsert, FreeSlots
<1>3. e.valid /\ ~e.reserved /\ Len(e.value) = 1 OBVIOUS
<1> HIDE DEF e
<1>4. /\ t.op = NoOperation /\ t.miss = s.miss /\ t.queue = s.queue
      /\ t.accepted = s.accepted /\ t.output = s.output /\ t.taken = s.taken
      /\ t.retired = s.retired /\ t.aborted = s.aborted
      /\ t.acc = [s.acc EXCEPT ![k] = e]
  BY <1>1, <1>2 DEF BGAType
<1>5. t \in BGAType BY InsertKeepsInv DEF DatapathInv
<1> HIDE DEF t
<1>6. t.acc[k] = e /\ \A j \in Slot : j # k => t.acc[j] = s.acc[j] BY <1>1, <1>4
<1>7. LiveSlots(t) = LiveSlots(s) \cup {k} /\ k \notin LiveSlots(s)
  BY <1>1, <1>3, <1>6 DEF LiveSlots, FreeSlots
<1>8. \A j \in LiveSlots(s) : t.acc[j] = s.acc[j] BY <1>6, <1>7 DEF LiveSlots
<1>9. InEntries(t) = InEntries(s) + 1
  <2>1. /\ EntryLengths(t)[k] = 1
        /\ \A j \in LiveSlots(s) : EntryLengths(t)[j] = EntryLengths(s)[j]
    BY <1>3, <1>6, <1>7, <1>8 DEF EntryLengths
  <2>2. /\ EntryLengths(s) \in [LiveSlots(s) -> Nat]
        /\ EntryLengths(t) \in [LiveSlots(s) \cup {k} -> Nat]
        /\ IsFiniteSet(LiveSlots(s))
    BY <1>1, <1>5, <1>7, LengthTypes
  <2>3. Count("entry", EntryLengths(t)) = Count("entry", EntryLengths(s)) + EntryLengths(t)[k]
    <3> DEFINE D == LiveSlots(s)
               f == EntryLengths(s)
               g == EntryLengths(t)
    <3>1. /\ IsFiniteSet(D) /\ f \in [D -> Nat] /\ k \notin D
          /\ g \in [D \cup {k} -> Nat] /\ \A j \in D : g[j] = f[j]
      BY <1>7, <2>1, <2>2
    <3> HIDE DEF D, f, g, k
    <3>2. Count("entry", g) = Count("entry", f) + g[k] BY <3>1, CountExtend
    <3> QED BY <3>2 DEF f, g
  <2> QED BY <2>1, <2>3 DEF InEntries
<1>10. InOp(s) = 1 /\ InOp(t) = 0 BY <1>4 DEF InOp
<1> QED BY <1>1, <1>4, <1>5, <1>9, <1>10, EntryMoves DEF t

\* One cycle of the running operation, whatever it is.
LEMMA CommitOperationMoves ==
  ASSUME NEW s, DatapathInv(s)
  PROVE  Moves(s, CommitOperation(s))
<1>1. s.fault = "none" /\ s.op.kind \in {"NONE", "LOOKUP", "MERGE", "INSERT"} /\ s \in BGAType
  BY DEF DatapathInv, BGAType, Operation
<1>2. CASE s.op = NoOperation BY <1>2 DEF CommitOperation, Moves
<1>3. CASE s.op # NoOperation
  <2>1. s.op.kind # "NONE" BY <1>3 DEF DatapathInv, OperationReady
  <2>2. CASE ~Commits(s)
    <3> DEFINE t == CommitOperation(s)
    <3>1. t = [s EXCEPT !.op.remaining = @ - 1] BY <1>1, <1>3, <2>2 DEF CommitOperation
    <3>2. t \in BGAType BY CommitOperationKeepsInv DEF DatapathInv
    <3>3. /\ t.miss = s.miss /\ t.queue = s.queue /\ t.accepted = s.accepted
          /\ t.acc = s.acc /\ t.output = s.output /\ t.taken = s.taken
          /\ t.retired = s.retired /\ t.aborted = s.aborted
      BY <1>1, <3>1 DEF BGAType
    <3>4. t.op.kind = s.op.kind BY <1>1, <3>1 DEF BGAType, Operation
    <3> HIDE DEF t
    <3>5. InOp(t) = InOp(s) /\ InMiss(t) = InMiss(s)
      BY <1>3, <2>1, <3>3, <3>4, OpKinds DEF InOp, InMiss
    <3>6. InOp(t) + InMiss(t) = InOp(s) + InMiss(s) BY <3>5
    <3>7. Moves(s, t) BY <1>1, <3>2, <3>3, <3>6, OpMoves
    <3> QED BY <3>7 DEF t
  <2>3. CASE Commits(s) /\ s.op.kind = "LOOKUP"
    BY <1>1, <1>3, <2>3, LookupMoves DEF CommitOperation
  <2>4. CASE Commits(s) /\ s.op.kind = "MERGE"
    BY <1>1, <1>3, <2>4, MergeMoves DEF CommitOperation
  <2>5. CASE Commits(s) /\ s.op.kind = "INSERT"
    BY <1>1, <1>3, <2>5, InsertMoves DEF CommitOperation
  <2> QED BY <1>1, <2>1, <2>2, <2>3, <2>4, <2>5
<1> QED BY <1>2, <1>3

\* One record more at the end of the queue.
LEMMA OutputWithLast ==
  ASSUME NEW s \in BGAType, NEW t \in BGAType, NEW record \in Record,
         t.output = Append(s.output, record)
  PROVE  InOutput(t) = InOutput(s) + Len(record.value)
<1> DEFINE n == Len(s.output)
           last == n + 1
           f == OutputLengths(s)
           g == OutputLengths(t)
<1>1. n \in Nat /\ s.output \in Seq(Record) BY OutputFacts DEF BGAType
<1>2. /\ Len(t.output) = n + 1 /\ t.output[n + 1] = record
      /\ \A i \in 1 .. n : t.output[i] = s.output[i]
  BY <1>1, AppendProperties
<1>3. last \in 1 .. last /\ (1 .. last) \ {last} = 1 .. n BY <1>1
<1>4. IsFiniteSet(1 .. last) /\ f \in [1 .. n -> Nat] /\ g \in [1 .. last -> Nat]
  BY <1>2, LengthTypes
<1>5. g[last] = Len(record.value) /\ Without(g, last) = f
  BY <1>1, <1>2, <1>3 DEF OutputLengths, Without
<1>6. Count("output", g) = Count("output", Without(g, last)) + g[last]
  <2> DEFINE D == 1 .. last
  <2>1. IsFiniteSet(D) /\ g \in [D -> Nat] /\ last \in D BY <1>3, <1>4
  <2> HIDE DEF D, last, g
  <2> QED BY <2>1, CountSplit
<1> QED BY <1>5, <1>6 DEF InOutput

\* A record pushed takes over the products of its entry.
LEMMA PushOutputMoves ==
  ASSUME NEW s, DatapathInv(s), NEW k \in LiveSlots(s),
         NEW reason \in {"CAPACITY_EVICTION", "FINAL_DRAIN"}
  PROVE  Moves(s, PushOutput(s, k, reason))
<1> DEFINE record == [row |-> s.acc[k].row, value |-> s.acc[k].value,
                      seq |-> s.outSeq + 1, slot |-> k, reason |-> reason]
           t == PushOutput(s, k, reason)
           n == Len(s.output)
           len == Len(s.acc[k].value)
<1>1. /\ s \in BGAType /\ s.acc \in [Slot -> Entry] /\ s.output \in Seq(Record)
      /\ k \in Slot /\ n \in Nat
  BY LenProperties DEF DatapathInv, BGAType, LiveSlots
<1>2. t = [s EXCEPT !.output = Append(@, record), !.acc[k].reserved = TRUE, !.outSeq = @ + 1]
  BY DEF PushOutput
<1>3. t \in BGAType /\ LiveSlots(t) = LiveSlots(s) \ {k} BY PushOutputFacts
<1>4. /\ t.output = Append(s.output, record) /\ t.op = s.op /\ t.miss = s.miss
      /\ t.queue = s.queue /\ t.accepted = s.accepted /\ t.taken = s.taken
      /\ t.retired = s.retired /\ t.aborted = s.aborted
      /\ t.acc = [s.acc EXCEPT ![k].reserved = TRUE]
  BY <1>1, <1>2 DEF BGAType
<1>5. record.value = s.acc[k].value OBVIOUS
<1> HIDE DEF t, record
<1>6. \A j \in LiveSlots(t) : t.acc[j] = s.acc[j] BY <1>1, <1>3, <1>4 DEF LiveSlots
<1>7. InEntries(s) = InEntries(t) + len
  <2> DEFINE D == LiveSlots(s)
             f == EntryLengths(s)
  <2>1. IsFiniteSet(D) /\ f \in [D -> Nat] /\ k \in D BY <1>1, LengthTypes
  <2>2. Without(f, k) = EntryLengths(t) BY <1>3, <1>6 DEF Without, EntryLengths
  <2>3. f[k] = len BY DEF EntryLengths
  <2> HIDE DEF D, f
  <2>4. Count("entry", f) = Count("entry", Without(f, k)) + f[k] BY <2>1, CountSplit
  <2> QED BY <2>2, <2>3, <2>4 DEF InEntries, f
<1>8. InOutput(t) = InOutput(s) + len
  <2>1. t.output \in Seq(Record) BY <1>3 DEF BGAType
  <2>2. record \in Record
    BY <1>1, PushOutputFacts, <1>3, <1>4, <2>1 DEF record, Record, LiveSlots, BGAType, Entry,
       DatapathInv
  <2> QED BY <1>1, <1>3, <1>4, <1>5, <2>2, OutputWithLast
<1>9. /\ Queued(t) = Queued(s) /\ Accepted(t) = Accepted(s)
      /\ InOp(t) = InOp(s) /\ InMiss(t) = InMiss(s)
  BY <1>4, SameParts
<1>10. len \in Nat
  BY <1>1, LenProperties DEF Entry
<1>11. /\ Queued(s) \in Nat /\ Accepted(s) \in Nat /\ InEntries(t) \in Nat
       /\ InOutput(s) \in Nat /\ InOp(s) \in Nat /\ InMiss(s) \in Nat
       /\ s.retired \in Nat /\ s.aborted \in Nat
  BY <1>1, <1>3, PartTypes DEF BGAType
<1> HIDE DEF len
<1>12. Total(t) = Total(s) BY <1>4, <1>7, <1>8, <1>9, <1>10, <1>11 DEF Total
<1> QED BY <1>4, <1>12 DEF Moves, t

\* The stages of a pending miss, and the final drain.
LEMMA UpdateEvictionOrDrainMoves ==
  ASSUME NEW s, DatapathInv(s), NEW committed \in BOOLEAN
  PROVE  Moves(s, UpdateEvictionOrDrain(s, committed))
<1> DEFINE t == UpdateEvictionOrDrain(s, committed)
<1>1. /\ s \in BGAType /\ s.fault = "none" /\ s.miss \in PendingMiss
      /\ LiveSlots(s) \subseteq Slot
  BY DEF DatapathInv, BGAType, LiveSlots
<1>2. t \in BGAType BY UpdateEvictionOrDrainKeepsInv DEF DatapathInv
<1>3. Moves(s, s) BY DEF Moves
<1>4. CASE s.miss.active /\ s.miss.eviction = 0
  <2> DEFINE v == s.miss.victim
             p == PushOutput(s, v, "CAPACITY_EVICTION")
  <2>1. v \in LiveSlots(s) /\ Len(s.output) = 0 /\ OutputQueueDepth \in Nat \ {0}
    BY <1>4, EmptySeq, BGAConfigAssumption DEF DatapathInv, MissProgress
  <2>2. t = [p EXCEPT !.miss.eviction = s.outSeq + 1, !.miss.awaiting = TRUE]
    BY <1>1, <1>4, <2>1 DEF UpdateEvictionOrDrain, UpdateEviction
  <2>3. Moves(s, p) /\ p \in BGAType BY <2>1, PushOutputMoves, PushOutputFacts
  <2> HIDE DEF p
  <2>4. /\ t.op = p.op /\ t.queue = p.queue /\ t.accepted = p.accepted /\ t.acc = p.acc
        /\ t.output = p.output /\ t.taken = p.taken /\ t.retired = p.retired
        /\ t.aborted = p.aborted
        /\ t.miss = [p.miss EXCEPT !.eviction = s.outSeq + 1, !.awaiting = TRUE]
    BY <2>2, <2>3 DEF BGAType
  <2> HIDE DEF t
  <2>5. t.miss.active = p.miss.active BY <2>3, <2>4 DEF BGAType, PendingMiss
  <2>6. InOp(t) + InMiss(t) = InOp(p) + InMiss(p) BY <2>4, <2>5 DEF InOp, InMiss
  <2>7. Moves(p, t) BY <1>2, <2>3, <2>4, <2>6, OpMoves
  <2> QED BY <2>3, <2>7 DEF Moves, t
<1>5. CASE s.miss.active /\ s.miss.eviction # 0 /\ (s.miss.awaiting \/ s.op # NoOperation)
  BY <1>1, <1>3, <1>5 DEF UpdateEvictionOrDrain, UpdateEviction
<1>6. CASE s.miss.active /\ s.miss.eviction # 0 /\ ~s.miss.awaiting /\ s.op = NoOperation
  <2> DEFINE o == [kind |-> "INSERT", input |-> s.miss.input, slot |-> s.miss.victim,
                   remaining |-> AddLatency]
  <2>1. t = [s EXCEPT !.op = o, !.miss = NoMiss]
    BY <1>1, <1>6 DEF UpdateEvictionOrDrain, UpdateEviction
  <2>2. o.kind # "NONE" /\ ~NoMiss.active BY DEF NoMiss
  <2> HIDE DEF o
  <2>3. /\ t.op = o /\ t.miss = NoMiss /\ t.queue = s.queue /\ t.accepted = s.accepted
        /\ t.acc = s.acc /\ t.output = s.output /\ t.taken = s.taken
        /\ t.retired = s.retired /\ t.aborted = s.aborted
    BY <1>1, <2>1 DEF BGAType
  <2> HIDE DEF t
  <2>4. InOp(t) = 1 /\ InMiss(t) = 0 /\ InOp(s) = 0 /\ InMiss(s) = 1
    BY <1>6, <2>2, <2>3, OpKinds DEF InOp, InMiss
  <2>5. InOp(t) + InMiss(t) = InOp(s) + InMiss(s) BY <2>4
  <2>6. Moves(s, t) BY <1>1, <1>2, <2>3, <2>5, OpMoves
  <2> QED BY <2>6 DEF t
<1>7. CASE ~s.miss.active
  <2> DEFINE v == Oldest(s, LiveSlots(s))
             drains == /\ s.draining /\ s.op = NoOperation /\ ~committed
                       /\ ~InputPending(s) /\ LiveSlots(s) # {}
                       /\ Len(s.output) < OutputQueueDepth
  <2>1. CASE ~drains BY <1>1, <1>3, <1>7, <2>1 DEF UpdateEvictionOrDrain, FinalDrain
  <2>2. CASE drains
    <3>1. v \in LiveSlots(s) BY <1>1, <2>2, OldestExists
    <3>2. t = PushOutput(s, v, "FINAL_DRAIN")
      BY <1>1, <1>7, <2>2 DEF UpdateEvictionOrDrain, FinalDrain
    <3> HIDE DEF v
    <3> QED BY <3>1, <3>2, PushOutputMoves
  <2> QED BY <2>1, <2>2
<1> QED BY <1>1, <1>4, <1>5, <1>6, <1>7 DEF PendingMiss

\* The head of a FIFO becomes the product of a lookup.
LEMMA StartServiceMoves ==
  ASSUME NEW s, DatapathInv(s)
  PROVE  Moves(s, StartService(s))
<1> DEFINE at(offset) == (s.rr + offset) % NumStreams
           ready == {offset \in Stream : s.queue[at(offset)] # <<>>}
           st == at(Lowest(ready))
           idle == s.fault # "none" \/ s.op # NoOperation \/ s.miss.active \/ ready = {}
           t == StartService(s)
<1>1. CASE idle BY <1>1 DEF StartService, Moves
<1>2. CASE ~idle
  <2> DEFINE o == [kind |-> "LOOKUP", input |-> Head(s.queue[st]), slot |-> 0,
                   remaining |-> CompareLatency]
             q == [s.queue EXCEPT ![st] = Tail(s.queue[st])]
  <2>1. /\ s \in BGAType /\ s.queue \in [Stream -> Seq(Contribution)]
        /\ s.rr \in Nat /\ NumStreams \in Nat \ {0}
    BY BGAConfigAssumption DEF DatapathInv, BGAType, Stream
  <2>2. Lowest(ready) \in ready
    <3>1. ready \in SUBSET Nat /\ ready # {} BY <1>2, SmallValues
    <3> HIDE DEF ready
    <3> QED BY <3>1, LowestExists
  <2>3. st \in Stream /\ s.queue[st] # <<>>
    <3>1. Lowest(ready) \in Nat BY <2>2, SmallValues
    <3>2. \A n \in Nat : (s.rr + n) % NumStreams \in Stream BY <2>1 DEF Stream
    <3> QED BY <2>2, <3>1, <3>2
  <2>4. t = [s EXCEPT !.queue = q, !.op = o, !.rr = (st + 1) % NumStreams]
    BY <1>2, <2>1 DEF StartService, BGAType
  <2>5. s.op = NoOperation BY <1>2
  <2> HIDE DEF st, ready
  <2>6. /\ s.queue[st] \in Seq(Contribution) /\ Len(s.queue[st]) \in Nat
        /\ Len(Tail(s.queue[st])) = Len(s.queue[st]) - 1
    BY <2>1, <2>3, HeadTailProperties, LenProperties
  <2>7. q[st] = Tail(s.queue[st]) /\ \A x \in Stream : x # st => q[x] = s.queue[x] BY <2>1, <2>3
  <2>8. o.kind # "NONE" OBVIOUS
  <2>9. t \in BGAType BY StartServiceKeepsInv DEF DatapathInv
  <2> HIDE DEF o, q
  <2>10. /\ t.acc = s.acc /\ t.output = s.output /\ t.op = o /\ t.miss = s.miss
         /\ t.accepted = s.accepted /\ t.taken = s.taken /\ t.retired = s.retired
         /\ t.aborted = s.aborted /\ t.queue = q
    BY <2>1, <2>4 DEF BGAType
  <2> HIDE DEF t
  <2>11. Queued(s) = Queued(t) + 1
    <3> DEFINE f == QueueLengths(s)
               g == QueueLengths(t)
    <3>1. /\ f \in [Stream -> Nat] /\ g \in [Stream -> Nat] /\ IsFiniteSet(Stream)
      BY <2>1, <2>9, LengthTypes
    <3>2. f[st] = Len(s.queue[st]) /\ g[st] = Len(s.queue[st]) - 1
          /\ \A x \in Stream : x # st => g[x] = f[x]
      BY <2>3, <2>6, <2>7, <2>10 DEF QueueLengths
    <3> HIDE DEF f, g
    <3>3. Count("queue", g) + f[st] = Count("queue", f) + g[st] BY <2>3, <3>1, <3>2, CountChange
    <3>4. Queued(s) \in Nat /\ Queued(t) \in Nat BY <2>1, <2>9, PartTypes
    <3>5. Queued(t) + Len(s.queue[st]) = Queued(s) + (Len(s.queue[st]) - 1)
      BY <3>2, <3>3 DEF Queued, f, g
    <3>6. \A a, b, n \in Nat : b + n = a + (n - 1) => a = b + 1 OBVIOUS
    <3> QED BY <2>6, <3>4, <3>5, <3>6
  <2>12. InOp(s) = 0 /\ InOp(t) = 1 BY <2>5, <2>8, <2>10, OpKinds DEF InOp
  <2>13. /\ Accepted(t) = Accepted(s) /\ InEntries(t) = InEntries(s)
         /\ InOutput(t) = InOutput(s) /\ InMiss(t) = InMiss(s)
    BY <2>10, SameParts
  <2>14. /\ Queued(t) \in Nat /\ Accepted(s) \in Nat /\ InEntries(s) \in Nat
         /\ InOutput(s) \in Nat /\ InMiss(s) \in Nat
         /\ s.retired \in Nat /\ s.aborted \in Nat
    BY <2>1, <2>9, PartTypes DEF BGAType
  <2>15. Total(t) = Total(s) BY <2>10, <2>11, <2>12, <2>13, <2>14 DEF Total
  <2> QED BY <2>10, <2>15 DEF Moves, t
<1> QED BY <1>1, <1>2

\* A family of empty members.
LEMMA CountNothing ==
  ASSUME NEW what, NEW D, NEW f \in [D -> Nat], \A d \in D : f[d] = 0
  PROVE  Count(what, f) = 0
<1>1. Places(what, f) = {} BY PlaceFacts
<1> QED BY <1>1, FS_EmptySet DEF Count

\* An accepted batch moves into its FIFO as a whole.
LEMMA CommitAcceptedBatchesMoves ==
  ASSUME NEW s, DatapathInv(s)
  PROVE  Moves(s, CommitAcceptedBatches(s))
<1> DEFINE q == [st \in Stream |-> s.queue[st] \o Contributions(s.accepted[st])]
           a == [st \in Stream |-> NoBatch]
           t == CommitAcceptedBatches(s)
<1>1. /\ s \in BGAType /\ s.queue \in [Stream -> Seq(Contribution)]
      /\ s.accepted \in [Stream -> Batch]
  BY DEF DatapathInv, BGAType
<1>2. ~ \E st \in Stream : s.accepted[st] # NoBatch /\ ~HasRoom(s, s.accepted[st])
  BY DEF DatapathInv, InputsBounded, HasRoom
<1>3. t = [s EXCEPT !.queue = q, !.accepted = a] BY <1>2 DEF CommitAcceptedBatches, DatapathInv
<1>4. t \in BGAType BY CommitAcceptedBatchesKeepsInv DEF DatapathInv
<1>5. /\ t.acc = s.acc /\ t.output = s.output /\ t.op = s.op /\ t.miss = s.miss
      /\ t.taken = s.taken /\ t.retired = s.retired /\ t.aborted = s.aborted
      /\ t.queue = q /\ t.accepted = a
  BY <1>1, <1>3 DEF BGAType
<1>6. ASSUME NEW st \in Stream
      PROVE  Len(t.queue[st]) = Len(s.queue[st]) + Len(s.accepted[st].rows)
  <2>1. s.queue[st] \in Seq(Contribution) /\ s.accepted[st] \in Batch BY <1>1
  <2>2. /\ Contributions(s.accepted[st]) \in Seq(Contribution)
        /\ Len(Contributions(s.accepted[st])) = Len(s.accepted[st].rows)
    BY <2>1, ContributionsOfBatch
  <2>3. t.queue[st] = s.queue[st] \o Contributions(s.accepted[st]) BY <1>5
  <2>4. Len(s.queue[st] \o Contributions(s.accepted[st]))
          = Len(s.queue[st]) + Len(Contributions(s.accepted[st]))
    BY <2>1, <2>2, ConcatProperties
  <2> HIDE DEF t, q
  <2> QED BY <2>2, <2>3, <2>4
<1>7. \A st \in Stream : Len(t.accepted[st].rows) = 0
  BY EmptySeq, <1>5 DEF NoBatch
<1> HIDE DEF t, q, a
<1>8. Queued(t) = Queued(s) + Accepted(s)
  <2> DEFINE f == QueueLengths(s)
             g == AcceptedLengths(s)
             h == QueueLengths(t)
  <2>1. /\ f \in [Stream -> Nat] /\ g \in [Stream -> Nat] /\ h \in [Stream -> Nat]
        /\ IsFiniteSet(Stream)
    BY <1>1, <1>4, LengthTypes
  <2>2. \A st \in Stream : h[st] = f[st] + g[st] BY <1>6 DEF QueueLengths, AcceptedLengths
  <2> HIDE DEF f, g, h
  <2>3. Count("queue", h) = Count("queue", f) + Count("accepted", g) BY <2>1, <2>2, CountSum
  <2> QED BY <2>3 DEF Queued, Accepted, f, g, h
<1>9. Accepted(t) = 0
  BY <1>7, <1>4, LengthTypes, CountNothing DEF AcceptedLengths, Accepted
<1>10. /\ InEntries(t) = InEntries(s) /\ InOutput(t) = InOutput(s)
       /\ InOp(t) = InOp(s) /\ InMiss(t) = InMiss(s)
  BY <1>5, SameParts
<1>11. /\ Queued(s) \in Nat /\ Accepted(s) \in Nat /\ InEntries(s) \in Nat
       /\ InOutput(s) \in Nat /\ InOp(s) \in Nat /\ InMiss(s) \in Nat
       /\ s.retired \in Nat /\ s.aborted \in Nat
  BY <1>1, PartTypes DEF BGAType
<1>12. Total(t) = Total(s) BY <1>5, <1>8, <1>9, <1>10, <1>11 DEF Total
<1> QED BY <1>5, <1>12 DEF Moves, t

\* What holds between two calls, counters included.
ConservedInv(s) == DatapathInv(s) /\ ConservationInvariant(s)

\* step() keeps the total, so the check it ends with does not fail.
LEMMA StepConserves ==
  ASSUME NEW s, ConservedInv(s), NEW t, Step(s, t)
  PROVE  ConservedInv(t)
<1> DEFINE r == RetireOutput(s)
           committed == r.fault = "none" /\ Commits(r)
           c == CommitOperation(r)
           u == UpdateEvictionOrDrain(c, committed)
           v == StartService(u)
           w == CommitAcceptedBatches(v)
<1>1. ConservedInv(r)
  BY RetireOutputKeepsInv, RetireOutputMoves, MovesKeepConservation DEF ConservedInv
<1>2. committed \in BOOLEAN OBVIOUS
<1>7. t = CheckStep(w) BY DEF Step, Stepped
<1> HIDE DEF r, committed
<1>3. ConservedInv(c)
  BY <1>1, CommitOperationKeepsInv, CommitOperationMoves, MovesKeepConservation
  DEF ConservedInv
<1> HIDE DEF c
<1>4. ConservedInv(u)
  BY <1>2, <1>3, UpdateEvictionOrDrainKeepsInv, UpdateEvictionOrDrainMoves,
     MovesKeepConservation DEF ConservedInv
<1> HIDE DEF u
<1>5. ConservedInv(v)
  BY <1>4, StartServiceKeepsInv, StartServiceMoves, MovesKeepConservation DEF ConservedInv
<1> HIDE DEF v
<1>6. ConservedInv(w)
  BY <1>5, CommitAcceptedBatchesKeepsInv, CommitAcceptedBatchesMoves, MovesKeepConservation
  DEF ConservedInv
<1> HIDE DEF w
<1>8. CheckStep(w) = w
  <2>1. \A i \in 1 .. Len(w.output) : w.output[i].slot \in Slot
    BY <1>6, OutputFacts DEF ConservedInv, DatapathInv
  <2>2. ValidateAccumulatorInvariant(w)
    BY <1>6, <2>1 DEF ConservedInv, DatapathInv, SlotOwnership, UniqueTags,
                      ValidateAccumulatorInvariant
  <2> QED BY <1>6, <2>2 DEF CheckStep, ConservedInv, DatapathInv
<1> QED BY <1>6, <1>7, <1>8

-----------------------------------------------------------------------------
(* The calls of the owner                                                  *)

\* A call that touches none of the parts and none of the counters.
LEMMA QuietCallConserves ==
  ASSUME NEW s, NEW t, ConservedInv(s), DatapathInv(t),
         t.queue = s.queue, t.accepted = s.accepted, t.acc = s.acc, t.output = s.output,
         t.op = s.op, t.miss = s.miss,
         t.taken = s.taken, t.retired = s.retired, t.aborted = s.aborted
  PROVE  ConservedInv(t)
<1>1. Moves(s, t) BY SameParts DEF Moves, Total
<1> QED BY <1>1, MovesKeepConservation DEF ConservedInv

\* Products taken over into the accepted batches are counted.
LEMMA TakingConserves ==
  ASSUME NEW s \in BGAType, NEW t \in BGAType, ConservationInvariant(s), NEW n \in Nat,
         t.queue = s.queue, t.acc = s.acc, t.output = s.output, t.op = s.op,
         t.miss = s.miss, t.retired = s.retired, t.aborted = s.aborted,
         t.taken = s.taken + n, Accepted(t) = Accepted(s) + n
  PROVE  ConservationInvariant(t)
<1>1. /\ Queued(t) = Queued(s) /\ InEntries(t) = InEntries(s)
      /\ InOutput(t) = InOutput(s) /\ InOp(t) = InOp(s) /\ InMiss(t) = InMiss(s)
  BY SameParts
<1>2. /\ Queued(s) \in Nat /\ Accepted(s) \in Nat /\ InEntries(s) \in Nat
      /\ InOutput(s) \in Nat /\ InOp(s) \in Nat /\ InMiss(s) \in Nat
      /\ s.retired \in Nat /\ s.aborted \in Nat
  BY PartTypes DEF BGAType
<1>3. s.taken = Total(s) BY ConservationIsTotal
<1>4. Total(t) = Total(s) + n BY <1>1, <1>2 DEF Total
<1> QED BY <1>3, <1>4, ConservationIsTotal

\* A batch taken over is counted, product by product; any other answer counts nothing.
LEMMA OfferConserves ==
  ASSUME NEW s, ConservedInv(s),
         NEW b \in [stream : Nat, generation : Nat, sequence : Nat, rows : Seq(Nat)]
  PROVE  ConservedInv(OfferBatch(s, b))
<1> DEFINE t == OfferBatch(s, b)
           st == b.stream
           n == Len(b.rows)
<1>1. DatapathInv(t) /\ DatapathInv(s) /\ s \in BGAType /\ t \in BGAType
  BY OfferKeepsInv DEF ConservedInv, DatapathInv
<1>2. CASE OfferResult(s, b) = "ACCEPTED"
  <2>1. t = [s EXCEPT !.presented[st] = NoBatch, !.accepted[st] = b,
                      !.last[st] = b, !.taken = @ + n]
    BY <1>2 DEF OfferBatch
  <2>2. /\ t.queue = s.queue /\ t.acc = s.acc /\ t.output = s.output /\ t.op = s.op
        /\ t.miss = s.miss /\ t.retired = s.retired /\ t.aborted = s.aborted
        /\ t.taken = s.taken + n /\ t.accepted = [s.accepted EXCEPT ![st] = b]
    BY <1>1, <2>1 DEF BGAType
  <2>3. st \in Stream /\ s.accepted[st] = NoBatch BY <1>2 DEF OfferResult, WellFormed
  <2>4. n \in Nat /\ Len(NoBatch.rows) = 0 BY LenProperties, EmptySeq DEF NoBatch
  <2> HIDE DEF t, n
  <2>5. Accepted(t) = Accepted(s) + n
    <3> DEFINE f == AcceptedLengths(s)
               g == AcceptedLengths(t)
    <3>1. f \in [Stream -> Nat] /\ g \in [Stream -> Nat] /\ IsFiniteSet(Stream)
      BY <1>1, LengthTypes
    <3>2. s.accepted \in [Stream -> Batch] BY <1>1 DEF BGAType
    <3>3. t.accepted[st] = b /\ \A x \in Stream : x # st => t.accepted[x] = s.accepted[x]
      BY <2>2, <2>3, <3>2
    <3>4. f[st] = 0 /\ g[st] = n /\ \A x \in Stream : x # st => g[x] = f[x]
      BY <2>3, <2>4, <3>3 DEF AcceptedLengths, n
    <3> HIDE DEF f, g, st
    <3>5. Count("accepted", g) + f[st] = Count("accepted", f) + g[st]
      BY <2>3, <3>1, <3>4, CountChange
    <3>6. Accepted(s) \in Nat /\ Accepted(t) \in Nat BY <1>1, PartTypes
    <3>7. Accepted(t) + 0 = Accepted(s) + n BY <3>4, <3>5 DEF Accepted, f, g
    <3> QED BY <3>6, <3>7
  <2>6. ConservationInvariant(t) BY <1>1, <2>2, <2>4, <2>5, TakingConserves DEF ConservedInv
  <2> QED BY <1>1, <2>6 DEF ConservedInv, t
<1>3. CASE OfferResult(s, b) = "BACKPRESSURE"
  <2>1. t = [s EXCEPT !.presented[st] = b] BY <1>3 DEF OfferBatch
  <2>2. /\ t.queue = s.queue /\ t.acc = s.acc /\ t.output = s.output /\ t.op = s.op
        /\ t.miss = s.miss /\ t.retired = s.retired /\ t.aborted = s.aborted
        /\ t.taken = s.taken /\ t.accepted = s.accepted
    BY <1>1, <2>1 DEF BGAType
  <2> HIDE DEF t
  <2>3. ConservedInv(t) BY <1>1, <2>2, QuietCallConserves
  <2> QED BY <2>3 DEF t
<1>4. CASE OfferResult(s, b) \notin {"ACCEPTED", "BACKPRESSURE"} BY <1>4 DEF OfferBatch
<1> QED BY <1>2, <1>3, <1>4

\* A state with nothing in it holds no product.
LEMMA EmptyStateHoldsNothing ==
  ASSUME NEW s \in BGAType, s.op = NoOperation, s.miss = NoMiss, s.output = <<>>,
         s.acc = [k \in Slot |-> FreeEntry], s.queue = [st \in Stream |-> <<>>],
         s.accepted = [st \in Stream |-> NoBatch]
  PROVE  LiveContributionCount(s) = 0
<1>1. InOp(s) = 0 /\ InMiss(s) = 0 BY DEF InOp, InMiss, NoMiss
<1>2. Len(<<>>) = 0 /\ Len(NoBatch.rows) = 0 BY EmptySeq DEF NoBatch
<1>3. Queued(s) = 0
  BY <1>2, LengthTypes, CountNothing DEF QueueLengths, Queued
<1>4. Accepted(s) = 0
  <2>1. \A st \in Stream : AcceptedLengths(s)[st] = 0 BY <1>2 DEF AcceptedLengths
  <2> QED BY <2>1, LengthTypes, CountNothing DEF Accepted
<1>5. InEntries(s) = 0
  <2>1. LiveSlots(s) = {} BY DEF LiveSlots, FreeEntry
  <2>2. EntryLengths(s) \in [{} -> Nat] BY <2>1, LengthTypes
  <2> QED BY <2>2, CountNothing DEF InEntries
<1>6. InOutput(s) = 0
  <2>1. 1 .. Len(s.output) = {} BY <1>2
  <2>2. OutputLengths(s) \in [{} -> Nat] BY <2>1, LengthTypes
  <2> QED BY <2>2, CountNothing DEF InOutput
<1> QED BY <1>1, <1>3, <1>4, <1>5, <1>6, LiveContributionParts

\* A reset counts what it drops.
LEMMA AbortConserves ==
  ASSUME NEW s, ConservedInv(s), NEW g \in Nat \ {0}
  PROVE  ConservedInv(AbortReset(s, g))
<1> DEFINE n == LiveContributionCount(s)
           t == AbortReset(s, g)
<1>1. DatapathInv(s) /\ DatapathInv(t) /\ s \in BGAType /\ t \in BGAType
  BY AbortKeepsInv DEF ConservedInv, DatapathInv
<1>2. /\ s.taken = n + s.retired + s.aborted
      /\ n \in Nat /\ s.retired \in Nat /\ s.aborted \in Nat
  BY <1>1, CountIsNat DEF ConservedInv, ConservationInvariant, BGAType
<1>3. /\ t.op = NoOperation /\ t.miss = NoMiss /\ t.output = <<>>
      /\ t.acc = [k \in Slot |-> FreeEntry] /\ t.queue = [st \in Stream |-> <<>>]
      /\ t.accepted = [st \in Stream |-> NoBatch]
      /\ t.taken = s.taken /\ t.retired = s.retired /\ t.aborted = s.aborted + n
  BY DEF AbortReset, BGAInit
<1> HIDE DEF t, n
<1>4. LiveContributionCount(t) = 0 BY <1>1, <1>3, EmptyStateHoldsNothing
<1>5. ConservationInvariant(t) BY <1>2, <1>3, <1>4 DEF ConservationInvariant
<1> QED BY <1>1, <1>5 DEF ConservedInv, t

-----------------------------------------------------------------------------
(* The theorems                                                            *)

\* The inductive invariant: the datapath invariant, and every product accounted for.
ConservingInv ==
  /\ ConservedInv(bga)
  /\ handed \in Seq([row : Row, value : Seq(Contribution)])

\* An empty accumulator accounts for every product: there is none.
LEMMA ConservingInit == Init => ConservingInv
<1> SUFFICES ASSUME Init PROVE ConservingInv OBVIOUS
<1>1. bga = BGAInit /\ handed = <<>> BY DEF Init
<1>2. DatapathInv(BGAInit) BY InitialState, EmptyStateInv DEF BGAInit
<1>3. LiveContributionCount(BGAInit) = 0 BY InitialState, EmptyStateHoldsNothing DEF BGAInit
<1>4. BGAInit.taken = 0 /\ BGAInit.retired = 0 /\ BGAInit.aborted = 0 BY DEF BGAInit
<1>5. ConservationInvariant(BGAInit) BY <1>3, <1>4 DEF ConservationInvariant
<1> QED BY <1>1, <1>2, <1>5 DEF ConservingInv, ConservedInv

\* Every call and every step keeps every product accounted for.
LEMMA ConservingNext == ConservingInv /\ [Next]_vars => ConservingInv'
<1> SUFFICES ASSUME ConservingInv, [Next]_vars PROVE ConservingInv' OBVIOUS
<1>1. CASE UNCHANGED vars BY <1>1 DEF vars, ConservingInv
<1>2. CASE Next
  <2>1. /\ ConservedInv(bga) /\ DatapathInv(bga) /\ bga \in BGAType
        /\ handed \in Seq([row : Row, value : Seq(Contribution)])
    BY DEF ConservingInv, ConservedInv, DatapathInv
  <2>2. ASSUME ConservedInv(bga'), UNCHANGED handed PROVE ConservingInv'
    BY <2>1, <2>2 DEF ConservingInv
  <2>3. ASSUME NEW b \in Offers, Offer(b) PROVE ConservingInv'
    BY OffersAssumption, <2>1, <2>2, <2>3, OfferConserves DEF Offer
  <2>4. ASSUME NEW st \in Stream, ProducerDone(st) PROVE ConservingInv'
    BY <2>1, <2>4, ProducerDoneKeepsInv, <2>2, QuietCallConserves DEF ProducerDone,
      MarkProducerDone, BGAType
  <2>5. CASE RequestDrain
    BY <2>1, <2>5, RequestDrainKeepsInv, <2>2, QuietCallConserves DEF RequestDrain,
      RequestFinalDrain, BGAType
  <2>6. CASE Accept
    <3>1. DatapathInv(bga') BY <2>1, <2>6, AcceptKeepsInv DEF Accept
    <3>2. /\ bga'.queue = bga.queue /\ bga'.accepted = bga.accepted /\ bga'.acc = bga.acc
          /\ bga'.output = bga.output /\ bga'.op = bga.op /\ bga'.miss = bga.miss
          /\ bga'.taken = bga.taken /\ bga'.retired = bga.retired
          /\ bga'.aborted = bga.aborted
      BY <2>1, <2>6 DEF Accept, AcceptOutput, BGAType
    <3>3. ConservedInv(bga') BY <2>1, <3>1, <3>2, QuietCallConserves
    <3> DEFINE h == [row |-> Head(bga.output).row, value |-> Head(bga.output).value]
    <3>4. h \in [row : Row, value : Seq(Contribution)]
      BY <2>1, <2>6, FrontFacts DEF Accept, Record
    <3>5. handed' = Append(handed, h) BY <2>6 DEF Accept
    <3> HIDE DEF h
    <3>6. handed' \in Seq([row : Row, value : Seq(Contribution)])
      BY <2>1, <3>4, <3>5, AppendProperties
    <3> QED BY <3>3, <3>6 DEF ConservingInv
  <2>7. ASSUME NEW g \in 1 .. MaxGeneration, Abort(g) PROVE ConservingInv'
    BY OffersAssumption, <2>1, <2>2, <2>7, AbortConserves DEF Abort
  <2>8. CASE Tick BY <2>1, <2>2, <2>8, StepConserves DEF Tick
  <2> QED BY <1>2, <2>3, <2>4, <2>5, <2>6, <2>7, <2>8 DEF Next
<1> QED BY <1>1, <1>2

\* Every product taken over is in exactly one place (a FIFO, an accepted batch, the
\* running operation, the pending miss, a live entry or an output record), has been
\* handed out, or was counted as dropped by a reset: counters_ and contents agree.
THEOREM Conservation == Spec => []ConservationInvariant(bga)
<1>1. ConservingInv => ConservationInvariant(bga) BY DEF ConservingInv, ConservedInv
<1> QED BY <1>1, ConservingInit, ConservingNext, PTL DEF Spec

\* No sequence of calls, for any configuration the constructor accepts, leaves the
\* declared domains or reaches one of the throws of invariantError.
THEOREM NothingThrows == Spec => []SafeState
<1>1. ConservingInv => SafeState
  BY DEF ConservingInv, ConservedInv, DatapathInv, SafeState, TypeOK, NoInvariantError
<1> QED BY <1>1, ConservingInit, ConservingNext, PTL DEF Spec

-----------------------------------------------------------------------------
(* The order of the additions, and with it the ledger the accumulator      *)
(* implements.  The invariant follows a product on its way: FIFO,          *)
(* operation or pending miss, entry, record, handed out.  Whatever is      *)
(* further along that way precedes what is less far along it, stream by    *)
(* stream.                                                                 *)

-----------------------------------------------------------------------------
(* The invariant, of a state s and the records h handed out so far         *)

\* p came before q from the same producer: an earlier generation, an earlier batch,
\* or an earlier place in the same batch.
Precedes(p, q) ==
  \/ p.generation < q.generation
  \/ p.generation = q.generation /\ p.sequence < q.sequence
  \/ p.generation = q.generation /\ p.sequence = q.sequence /\ p.index < q.index

\* The records still in the queue and not accepted by the owner.
Records(s) == (IF s.retiring THEN 2 ELSE 1) .. Len(s.output)

\* The products in them, in the live entries, in the operation or the pending miss,
\* in the FIFOs and in the accepted batches; the products handed out.
RecordProducts(s)   == UNION {Range(s.output[i].value) : i \in Records(s)}
EntryProducts(s)    == UNION {Range(s.acc[k].value) : k \in LiveSlots(s)}
CurrentProducts(s)  == (IF s.op # NoOperation THEN {s.op.input} ELSE {})
                       \cup (IF s.miss.active THEN {s.miss.input} ELSE {})
QueuedProducts(s)   == UNION {Range(s.queue[st]) : st \in Stream}
AcceptedProducts(s) == UNION {Range(Contributions(s.accepted[st])) : st \in Stream}
HandedProducts(h)   == UNION {Range(h[i].value) : i \in 1 .. Len(h)}

\* Those already added to something: still inside, or handed out as well.
Inside(s)   == RecordProducts(s) \cup EntryProducts(s)
Added(s, h) == HandedProducts(h) \cup Inside(s)

\* A FIFO holds products of its own stream and of this generation, in the order
\* they were sent in.
QueueInOrder(s) ==
  \A st \in Stream :
    /\ \A i \in 1 .. Len(s.queue[st]) :
         s.queue[st][i].stream = st /\ s.queue[st][i].generation = s.generation
    /\ \A i, j \in 1 .. Len(s.queue[st]) : i < j => Precedes(s.queue[st][i], s.queue[st][j])

\* What was added precedes what is being added, and both precede what is queued.
AddedFirst(s, h) ==
  /\ \A p \in Added(s, h) : \A q \in CurrentProducts(s) :
       p.stream = q.stream => Precedes(p, q)
  /\ \A p \in Added(s, h) \cup CurrentProducts(s) : \A q \in QueuedProducts(s) :
       p.stream = q.stream => Precedes(p, q)

\* What is held is of this generation, what was handed out is of no later one.
GenerationsAgree(s, h) ==
  /\ \A p \in Inside(s) \cup CurrentProducts(s) :
       p.generation = s.generation
  /\ \A p \in HandedProducts(h) : p.generation <= s.generation

\* Every product is of a batch up to the last one accepted; that one is still
\* apart from the others while it is not visible.
BatchesInOrder(s, h) ==
  /\ \A p \in Added(s, h) \cup CurrentProducts(s) \cup QueuedProducts(s) :
       p.generation = s.generation =>
         /\ p.sequence <= s.last[p.stream].sequence
         /\ s.accepted[p.stream] # NoBatch => p.sequence < s.last[p.stream].sequence
  /\ \A st \in Stream :
       /\ s.accepted[st] # NoBatch =>
            s.accepted[st] = s.last[st] /\ s.accepted[st].generation = s.generation
       /\ s.presented[st] # NoBatch => s.presented[st].sequence = s.last[st].sequence + 1

StreamInv(s, h) ==
  QueueInOrder(s) /\ AddedFirst(s, h) /\ GenerationsAgree(s, h) /\ BatchesInOrder(s, h)

\* A value is the sum of products of one row, those of a stream in their order.
SumInOrder(value, row) ==
  /\ value # <<>>
  /\ \A m \in 1 .. Len(value) : value[m].row = row
  /\ \A m, n \in 1 .. Len(value) :
       m < n /\ value[m].stream = value[n].stream => Precedes(value[m], value[n])

SumsInOrder(s, h) ==
  /\ \A k \in LiveSlots(s) : SumInOrder(s.acc[k].value, s.acc[k].row)
  /\ \A i \in Records(s) : SumInOrder(s.output[i].value, s.output[i].row)
  /\ \A i \in 1 .. Len(h) : SumInOrder(h[i].value, h[i].row)

\* No two records, and no record and entry, are of one row.
RowsApart(s) ==
  /\ \A i \in Records(s) : \A k \in LiveSlots(s) : s.output[i].row # s.acc[k].row
  /\ \A i, j \in Records(s) : i # j => s.output[i].row # s.output[j].row

\* What was handed out precedes what was handed out later and what is still there.
HandedFirst(s, h) ==
  /\ \A i, j \in 1 .. Len(h) : i < j =>
       \A p \in Range(h[i].value), q \in Range(h[j].value) :
         p.row = q.row /\ p.stream = q.stream => Precedes(p, q)
  /\ \A p \in HandedProducts(h), q \in Inside(s) :
       p.row = q.row /\ p.stream = q.stream => Precedes(p, q)

ValueInv(s, h) == SumsInOrder(s, h) /\ RowsApart(s) /\ HandedFirst(s, h)

OrderInv(s, h) == DatapathInv(s) /\ StreamInv(s, h) /\ ValueInv(s, h)

HandedRecord == [row : Row, value : Seq(Contribution)]

-----------------------------------------------------------------------------
(* The parts of a state                                                    *)

\* The elements of a sequence.
LEMMA RangeOfValue ==
  ASSUME NEW S, NEW v \in Seq(S)
  PROVE  Range(v) \subseteq S /\ Range(v) = {v[i] : i \in 1 .. Len(v)}
<1>1. Range(v) = {v[i] : i \in 1 .. Len(v)} BY LenProperties DEF Range
<1>2. \A i \in 1 .. Len(v) : v[i] \in S BY ElementOfSeq
<1> QED BY <1>1, <1>2

\* Appending adds one element.
LEMMA RangeOfAppend ==
  ASSUME NEW S, NEW v \in Seq(S), NEW x \in S
  PROVE  Range(Append(v, x)) = Range(v) \cup {x}
<1>1. /\ Append(v, x) \in Seq(S) /\ Len(Append(v, x)) = Len(v) + 1 /\ Len(v) \in Nat
      /\ \A i \in 1 .. Len(v) : Append(v, x)[i] = v[i]
      /\ Append(v, x)[Len(v) + 1] = x
  BY AppendProperties, LenProperties
<1>2. \A i \in 1 .. Len(v) + 1 : i \in 1 .. Len(v) \/ i = Len(v) + 1 BY <1>1
<1>3. \A i \in 1 .. Len(v) : i \in 1 .. Len(v) + 1 BY <1>1
<1>4. Len(v) + 1 \in 1 .. Len(v) + 1 BY <1>1
<1>5. Range(Append(v, x)) = {Append(v, x)[i] : i \in 1 .. Len(v) + 1}
  BY <1>1, LenProperties DEF Range
<1>6. Range(v) = {v[i] : i \in 1 .. Len(v)} BY LenProperties DEF Range
<1> QED BY <1>1, <1>2, <1>3, <1>4, <1>5, <1>6

\* The values of entries and records.
LEMMA ValueTypes ==
  ASSUME NEW s \in BGAType
  PROVE  /\ LiveSlots(s) \subseteq Slot
         /\ \A k \in LiveSlots(s) :
              s.acc[k] \in Entry /\ s.acc[k].value \in Seq(Contribution) /\ s.acc[k].row \in Row
         /\ Records(s) \subseteq 1 .. Len(s.output)
         /\ \A i \in Records(s) :
              s.output[i].value \in Seq(Contribution) /\ s.output[i].row \in Row
<1>1. LiveSlots(s) \subseteq Slot /\ s.acc \in [Slot -> Entry] BY DEF LiveSlots, BGAType
<1>2. ASSUME NEW k \in LiveSlots(s)
      PROVE  s.acc[k] \in Entry /\ s.acc[k].value \in Seq(Contribution) /\ s.acc[k].row \in Row
  BY <1>1 DEF Entry
<1>3. Records(s) \subseteq 1 .. Len(s.output) BY OutputFacts DEF Records
<1>4. ASSUME NEW i \in Records(s)
      PROVE  s.output[i].value \in Seq(Contribution) /\ s.output[i].row \in Row
  BY <1>3, OutputFacts DEF Record
<1> QED BY <1>1, <1>2, <1>3, <1>4

\* Every part holds products.
LEMMA ProductTypes ==
  ASSUME NEW s \in BGAType
  PROVE  /\ Inside(s) \subseteq Contribution
         /\ CurrentProducts(s) \subseteq Contribution
         /\ QueuedProducts(s) \subseteq Contribution
         /\ AcceptedProducts(s) \subseteq Contribution
<1>1. RecordProducts(s) \subseteq Contribution BY ValueTypes, RangeOfValue DEF RecordProducts
<1>2. EntryProducts(s) \subseteq Contribution BY ValueTypes, RangeOfValue DEF EntryProducts
<1>3. CurrentProducts(s) \subseteq Contribution
  BY DEF CurrentProducts, BGAType, Operation, PendingMiss
<1>4. QueuedProducts(s) \subseteq Contribution
  BY RangeOfValue DEF BGAType, QueuedProducts
<1>5. AcceptedProducts(s) \subseteq Contribution
  BY ContributionsOfBatch, RangeOfValue DEF BGAType, AcceptedProducts
<1> QED BY <1>1, <1>2, <1>3, <1>4, <1>5 DEF Inside

\* So do the records handed out.
LEMMA HandedTypes ==
  ASSUME NEW h \in Seq(HandedRecord)
  PROVE  /\ HandedProducts(h) \subseteq Contribution
         /\ \A i \in 1 .. Len(h) : h[i].value \in Seq(Contribution) /\ h[i].row \in Row
<1>1. \A i \in 1 .. Len(h) : h[i] \in HandedRecord BY ElementOfSeq
<1>2. \A i \in 1 .. Len(h) : h[i].value \in Seq(Contribution) /\ h[i].row \in Row
  BY <1>1 DEF HandedRecord
<1> QED BY <1>2, RangeOfValue DEF HandedProducts

\* The ledger holds what is in one of the parts.
LEMMA HeldParts ==
  ASSUME NEW s
  PROVE  Held(s) = QueuedProducts(s) \cup AcceptedProducts(s) \cup CurrentProducts(s)
                   \cup Inside(s)
<1> DEFINE parts == QueuedProducts(s) \cup AcceptedProducts(s) \cup CurrentProducts(s)
                    \cup Inside(s)
<1>1. ASSUME NEW x PROVE x \in Held(s) <=> x \in parts
  BY DEF Held, QueuedProducts, AcceptedProducts, CurrentProducts, Inside, RecordProducts,
         EntryProducts, Records
<1> QED BY <1>1

-----------------------------------------------------------------------------
(* Phases that leave the FIFOs alone                                       *)

SameInputs(s, t) ==
  /\ t.queue = s.queue /\ t.accepted = s.accepted /\ t.presented = s.presented
  /\ t.last = s.last /\ t.generation = s.generation

\* Products stay where they are, or the current one is added to what is inside.
Flows(s, t) ==
  /\ SameInputs(s, t)
  /\ \/ CurrentProducts(t) = CurrentProducts(s) /\ Inside(t) = Inside(s)
     \/ CurrentProducts(t) = {} /\ Inside(t) = Inside(s) \cup CurrentProducts(s)

\* Such a phase loses no product.
LEMMA FlowKeepsHeld ==
  ASSUME NEW s, NEW t, Flows(s, t)
  PROVE  Held(t) = Held(s)
<1>1. QueuedProducts(t) = QueuedProducts(s) /\ AcceptedProducts(t) = AcceptedProducts(s)
  BY DEF Flows, SameInputs, QueuedProducts, AcceptedProducts
<1>2. CurrentProducts(t) \cup Inside(t) = CurrentProducts(s) \cup Inside(s) BY DEF Flows
<1> QED BY <1>1, <1>2, HeldParts

\* Such a phase keeps the order of the streams.
LEMMA FlowKeepsStreams ==
  ASSUME NEW s, NEW h, NEW t, StreamInv(s, h), Flows(s, t)
  PROVE  StreamInv(t, h)
<1>1. QueuedProducts(t) = QueuedProducts(s) BY DEF Flows, SameInputs, QueuedProducts
<1>2. /\ Added(t, h) \cup CurrentProducts(t) = Added(s, h) \cup CurrentProducts(s)
      /\ Inside(t) \cup CurrentProducts(t) = Inside(s) \cup CurrentProducts(s)
      /\ \/ CurrentProducts(t) = {}
         \/ Added(t, h) = Added(s, h) /\ CurrentProducts(t) = CurrentProducts(s)
  BY DEF Flows, Added
<1>3. QueueInOrder(t) BY DEF StreamInv, Flows, SameInputs, QueueInOrder
<1>4. AddedFirst(t, h) BY <1>1, <1>2 DEF StreamInv, AddedFirst
<1>5. GenerationsAgree(t, h) BY <1>2 DEF StreamInv, GenerationsAgree, Flows, SameInputs
<1>6. BatchesInOrder(t, h) BY <1>1, <1>2 DEF StreamInv, BatchesInOrder, Flows, SameInputs
<1> QED BY <1>3, <1>4, <1>5, <1>6 DEF StreamInv

\* The entries and records of t are those of s.
SameValues(s, t) ==
  /\ LiveSlots(t) = LiveSlots(s)
  /\ \A k \in LiveSlots(s) : t.acc[k].value = s.acc[k].value /\ t.acc[k].row = s.acc[k].row
  /\ Records(t) = Records(s)
  /\ \A i \in Records(s) :
       t.output[i].value = s.output[i].value /\ t.output[i].row = s.output[i].row

\* Which then hold the same products in the same order.
LEMMA SameValuesFacts ==
  ASSUME NEW s, NEW h, NEW t, SameValues(s, t)
  PROVE  Inside(t) = Inside(s) /\ (ValueInv(s, h) => ValueInv(t, h))
<1>1. RecordProducts(t) = RecordProducts(s) BY DEF SameValues, RecordProducts
<1>2. EntryProducts(t) = EntryProducts(s) BY DEF SameValues, EntryProducts
<1>3. Inside(t) = Inside(s) BY <1>1, <1>2 DEF Inside
<1>4. ASSUME ValueInv(s, h) PROVE ValueInv(t, h)
  BY <1>4, <1>3 DEF ValueInv, SumsInOrder, SameValues, RowsApart, HandedFirst
<1> QED BY <1>3, <1>4

\* What a phase of step() keeps.
LEMMA FlowKeepsOrder ==
  ASSUME NEW s, NEW h, NEW t, OrderInv(s, h), DatapathInv(t), Flows(s, t), ValueInv(t, h)
  PROVE  OrderInv(t, h) /\ Held(t) = Held(s)
BY FlowKeepsHeld, FlowKeepsStreams DEF OrderInv

\* A phase that changes neither a FIFO nor an entry nor a record, and keeps the
\* current product.
LEMMA QuietKeepsOrder ==
  ASSUME NEW s, NEW h, NEW t, OrderInv(s, h), DatapathInv(t),
         SameInputs(s, t), SameValues(s, t), CurrentProducts(t) = CurrentProducts(s)
  PROVE  OrderInv(t, h) /\ Held(t) = Held(s)
<1>1. Inside(t) = Inside(s) /\ ValueInv(t, h) BY SameValuesFacts DEF OrderInv
<1>2. Flows(s, t) BY <1>1 DEF Flows
<1> QED BY <1>1, <1>2, FlowKeepsOrder

\* Retirement: the record leaves the queue, which its owner had accepted before.
LEMMA RetireOutputKeepsOrder ==
  ASSUME NEW s, NEW h, OrderInv(s, h)
  PROVE  OrderInv(RetireOutput(s), h) /\ Held(RetireOutput(s)) = Held(s)
<1>1. CASE ~s.retiring BY <1>1 DEF RetireOutput
<1>2. CASE s.retiring
  <2> DEFINE front == Head(s.output)
             t == RetireOutput(s)
  <2>1. s \in BGAType /\ s.output # <<>> BY <1>2 DEF OrderInv, DatapathInv, OutputExclusion
  <2>2. front = s.output[1] /\ front.slot \in Slot BY <2>1, FrontFacts DEF Record
  <2>3. s.acc[front.slot].reserved
    BY <2>1, <2>2, FrontFacts DEF OrderInv, DatapathInv, SlotOwnership
  <2>4. t = [s EXCEPT !.retired = @ + Len(front.value),
                      !.acc[front.slot] = FreeEntry,
                      !.output = Tail(@),
                      !.retiring = FALSE,
                      !.miss.awaiting = @ /\ s.miss.eviction # front.seq]
    BY <1>2, <2>3 DEF RetireOutput
  <2>5. /\ SameInputs(s, t) /\ t.op = s.op /\ t.output = Tail(s.output) /\ ~t.retiring
        /\ t.acc = [s.acc EXCEPT ![front.slot] = FreeEntry]
        /\ t.miss = [s.miss EXCEPT !.awaiting = @ /\ s.miss.eviction # front.seq]
    BY <2>1, <2>4 DEF BGAType, SameInputs
  <2>6. t.miss.active = s.miss.active /\ t.miss.input = s.miss.input
    <3>1. s.miss \in PendingMiss BY <2>1 DEF BGAType
    <3> HIDE DEF t, front
    <3> QED BY <2>5, <3>1 DEF PendingMiss
  <2>7. LiveSlots(t) = LiveSlots(s) /\ \A k \in LiveSlots(s) : t.acc[k] = s.acc[k]
    BY <2>1, <2>2, <2>3, <2>5 DEF LiveSlots, FreeEntry, BGAType
  <2>8. DatapathInv(t) BY RetireOutputKeepsInv DEF OrderInv
  <2> HIDE DEF t, front
  <2>9. CurrentProducts(t) = CurrentProducts(s) BY <2>5, <2>6 DEF CurrentProducts
  <2>10. /\ Records(t) = 1 .. Len(s.output) - 1 /\ Records(s) = 2 .. Len(s.output)
         /\ Len(s.output) \in Nat \ {0}
         /\ \A i \in Records(t) : t.output[i] = s.output[i + 1]
    BY <1>2, <2>1, <2>5, FrontFacts DEF Records
  <2>11. /\ \A i \in Records(t) : i + 1 \in Records(s) /\ t.output[i] = s.output[i + 1]
         /\ \A j \in Records(s) : j - 1 \in Records(t) /\ t.output[j - 1] = s.output[j]
         /\ \A i, j \in Records(t) : i # j => i + 1 # j + 1
    BY <2>10
  <2>12. Inside(t) = Inside(s)
    <3>1. RecordProducts(t) = RecordProducts(s)
      BY <2>11 DEF RecordProducts
    <3>2. EntryProducts(t) = EntryProducts(s) BY <2>7 DEF EntryProducts
    <3> QED BY <3>1, <3>2 DEF Inside
  <2>13. ValueInv(t, h)
    <3>1. ValueInv(s, h) BY DEF OrderInv
    <3>2. SumsInOrder(t, h) BY <2>7, <2>11, <3>1 DEF ValueInv, SumsInOrder
    <3>3. RowsApart(t) BY <2>7, <2>11, <3>1 DEF ValueInv, RowsApart
    <3>4. HandedFirst(t, h) BY <2>12, <3>1 DEF ValueInv, HandedFirst
    <3> QED BY <3>2, <3>3, <3>4 DEF ValueInv
  <2>14. Flows(s, t) BY <2>5, <2>9, <2>12 DEF Flows
  <2>15. OrderInv(t, h) /\ Held(t) = Held(s) BY <2>8, <2>13, <2>14, FlowKeepsOrder
  <2> QED BY <2>15 DEF t
<1> QED BY <1>1, <1>2

\* A lookup keeps its product current, in the operation or in the pending miss.
LEMMA LookupKeepsOrder ==
  ASSUME NEW s, NEW h, OrderInv(s, h), s.op # NoOperation, s.op.kind = "LOOKUP"
  PROVE  OrderInv(CommitLookup(s), h) /\ Held(CommitLookup(s)) = Held(s)
<1> DEFINE t == CommitLookup(s)
           input == s.op.input
           hits == {k \in LiveSlots(s) : s.acc[k].row = input.row}
<1>1. /\ s \in BGAType /\ ~s.miss.active /\ CurrentProducts(s) = {input}
      /\ DatapathInv(s)
  BY DEF OrderInv, DatapathInv, OperationReady, CurrentProducts
<1>2. DatapathInv(t) BY <1>1, LookupKeepsInv
<1>3. ~ \E k, j \in hits : k # j BY <1>1 DEF DatapathInv, UniqueTags
<1>4. ASSUME SameInputs(s, t), t.acc = s.acc, t.output = s.output,
             t.retiring = s.retiring, CurrentProducts(t) = {input}
      PROVE  OrderInv(t, h) /\ Held(t) = Held(s)
  <2>1. SameValues(s, t) BY <1>4 DEF SameValues, LiveSlots, Records
  <2> HIDE DEF t
  <2> QED BY <1>1, <1>2, <1>4, <2>1, QuietKeepsOrder
<1>5. ASSUME NEW o, o.kind # "NONE", o.input = input, t = [s EXCEPT !.op = o]
      PROVE  OrderInv(t, h) /\ Held(t) = Held(s)
  <2>1. /\ t.op = o /\ t.miss = s.miss /\ SameInputs(s, t)
        /\ t.acc = s.acc /\ t.output = s.output /\ t.retiring = s.retiring
    BY <1>1, <1>5 DEF BGAType, SameInputs
  <2> HIDE DEF t
  <2>2. CurrentProducts(t) = {input} BY <1>1, <1>5, <2>1, OpKinds DEF CurrentProducts
  <2> QED BY <1>4, <2>1, <2>2
<1>6. CASE hits # {}
  <2> DEFINE o == [kind |-> "MERGE", input |-> input, slot |-> CHOOSE k \in hits : TRUE,
                   remaining |-> AddLatency]
  <2>1. t = [s EXCEPT !.op = o] BY <1>3, <1>6 DEF CommitLookup
  <2>2. o.kind # "NONE" /\ o.input = input OBVIOUS
  <2> HIDE DEF o, t, input
  <2> QED BY <1>5, <2>1, <2>2 DEF t
<1>7. CASE hits = {} /\ FreeSlots(s) # {}
  <2> DEFINE o == [kind |-> "INSERT", input |-> input, slot |-> Lowest(FreeSlots(s)),
                   remaining |-> AddLatency]
  <2>1. t = [s EXCEPT !.op = o] BY <1>3, <1>7 DEF CommitLookup
  <2>2. o.kind # "NONE" /\ o.input = input OBVIOUS
  <2> HIDE DEF o, t, input
  <2> QED BY <1>5, <2>1, <2>2 DEF t
<1>8. CASE hits = {} /\ FreeSlots(s) = {}
  <2> DEFINE m == [active |-> TRUE, input |-> input, victim |-> Oldest(s, LiveSlots(s)),
                   eviction |-> 0, awaiting |-> FALSE]
  <2>1. LiveSlots(s) # {}
    BY <1>1, <1>8, NothingReserved, SmallValues DEF DatapathInv, OperationReady
  <2>2. t = [s EXCEPT !.op = NoOperation, !.miss = m] BY <1>3, <1>8, <2>1 DEF CommitLookup
  <2>3. m.active /\ m.input = input OBVIOUS
  <2> HIDE DEF m
  <2>4. /\ t.op = NoOperation /\ t.miss = m /\ SameInputs(s, t)
        /\ t.acc = s.acc /\ t.output = s.output /\ t.retiring = s.retiring
    BY <1>1, <2>2 DEF BGAType, SameInputs
  <2>5. CurrentProducts(t) = {input}
    <3> HIDE DEF t, input
    <3> QED BY <2>3, <2>4 DEF CurrentProducts
  <2> HIDE DEF t, input
  <2> QED BY <1>4, <2>4, <2>5 DEF t
<1> QED BY <1>6, <1>7, <1>8

\* A sum in order stays in order when what is added comes after it.
LEMMA SumExtends ==
  ASSUME NEW v \in Seq(Contribution), NEW x \in Contribution, SumInOrder(v, x.row),
         \A p \in Range(v) : p.stream = x.stream => Precedes(p, x)
  PROVE  SumInOrder(Append(v, x), x.row)
<1> DEFINE w == Append(v, x)
<1>1. /\ w \in Seq(Contribution) /\ Len(w) = Len(v) + 1 /\ Len(v) \in Nat
      /\ \A i \in 1 .. Len(v) : w[i] = v[i]
      /\ w[Len(v) + 1] = x
  BY AppendProperties, LenProperties
<1>2. \A i \in 1 .. Len(v) : v[i] \in Range(v) BY RangeOfValue
<1> HIDE DEF w
<1>3. w # <<>> BY <1>1, EmptySeq
<1>4. \A m \in 1 .. Len(w) : w[m].row = x.row
  BY <1>1 DEF SumInOrder
<1>5. ASSUME NEW m \in 1 .. Len(w), NEW n \in 1 .. Len(w), m < n, w[m].stream = w[n].stream
      PROVE  Precedes(w[m], w[n])
  <2>1. m \in 1 .. Len(v) /\ (n \in 1 .. Len(v) \/ n = Len(v) + 1) BY <1>1, <1>5
  <2>2. CASE n \in 1 .. Len(v) BY <1>1, <1>5, <2>1, <2>2 DEF SumInOrder
  <2>3. CASE n = Len(v) + 1 BY <1>1, <1>2, <1>5, <2>1, <2>3
  <2> QED BY <2>1, <2>2, <2>3
<1> QED BY <1>3, <1>4, <1>5 DEF SumInOrder, w

\* A product of one's own is a sum in order.
LEMMA SumStarts ==
  ASSUME NEW x \in Contribution
  PROVE  SumInOrder(<<x>>, x.row) /\ Range(<<x>>) = {x}
<1>1. \A m, n \in 1 .. 1 : ~(m < n) OBVIOUS
<1>2. <<x>> # <<>> /\ Len(<<x>>) = 1 /\ <<x>>[1] = x /\ DOMAIN <<x>> = {1} OBVIOUS
<1>3. \A m \in 1 .. 1 : m = 1 OBVIOUS
<1>4. Range(<<x>>) = {x} BY <1>2 DEF Range
<1>5. SumInOrder(<<x>>, x.row)
  <2> DEFINE w == <<x>>
  <2>1. w # <<>> /\ Len(w) = 1 /\ w[1] = x BY <1>2
  <2> HIDE DEF w
  <2>2. SumInOrder(w, x.row) BY <1>1, <1>3, <2>1 DEF SumInOrder
  <2> QED BY <2>2 DEF w
<1> QED BY <1>4, <1>5

\* The current product enters the entry it belongs to, or starts one; in both cases
\* every earlier product of its stream and row is ahead of it.
LEMMA AdditionKeepsOrder ==
  ASSUME NEW s, NEW h, OrderInv(s, h), NEW t, DatapathInv(t), SameInputs(s, t),
         s.op # NoOperation, t.op = NoOperation, t.miss = s.miss,
         s.output = <<>>, t.output = s.output, t.retiring = s.retiring,
         NEW k \in Slot, LiveSlots(t) = LiveSlots(s) \cup {k},
         \A j \in LiveSlots(s) : j # k => t.acc[j] = s.acc[j],
         t.acc[k].row = s.op.input.row,
         Range(t.acc[k].value)
           = (IF k \in LiveSlots(s) THEN Range(s.acc[k].value) ELSE {}) \cup {s.op.input},
         SumInOrder(t.acc[k].value, s.op.input.row)
  PROVE  OrderInv(t, h) /\ Held(t) = Held(s)
<1> DEFINE x == s.op.input
<1>1. s \in BGAType /\ ~s.miss.active /\ DatapathInv(s)
  BY DEF OrderInv, DatapathInv, OperationReady
<1>2. CurrentProducts(s) = {x} /\ CurrentProducts(t) = {} BY <1>1 DEF CurrentProducts
<1>3. Records(s) = {} /\ Records(t) = {} BY EmptySeq DEF Records
<1>4. EntryProducts(t) = EntryProducts(s) \cup {x}
  <2> DEFINE f(r, j) == Range(r.acc[j].value)
  <2>1. \A j \in LiveSlots(s) : j # k => f(t, j) = f(s, j) OBVIOUS
  <2>2. f(t, k) = (IF k \in LiveSlots(s) THEN f(s, k) ELSE {}) \cup {x} OBVIOUS
  <2>3. /\ EntryProducts(t) = UNION {f(t, j) : j \in LiveSlots(t)}
        /\ EntryProducts(s) = UNION {f(s, j) : j \in LiveSlots(s)}
    BY DEF EntryProducts
  <2> HIDE DEF f, x
  <2>4. ASSUME NEW p PROVE p \in EntryProducts(t) <=> p \in EntryProducts(s) \cup {x}
    BY <2>3, <2>1, <2>2
  <2> QED BY <2>4
<1>5. Inside(t) = Inside(s) \cup CurrentProducts(s)
  BY <1>2, <1>3, <1>4 DEF Inside, RecordProducts
<1>6. Flows(s, t) BY <1>2, <1>5 DEF Flows
<1>7. SumsInOrder(t, h)
  BY <1>3 DEF OrderInv, ValueInv, SumsInOrder
<1>8. RowsApart(t) BY <1>3 DEF RowsApart
<1>9. HandedFirst(t, h)
  <2>1. HandedFirst(s, h) /\ AddedFirst(s, h) BY DEF OrderInv, ValueInv, StreamInv
  <2>2. ASSUME NEW p \in HandedProducts(h), NEW q \in Inside(t), p.row = q.row,
               p.stream = q.stream
        PROVE  Precedes(p, q)
    <3>1. CASE q \in Inside(s) BY <2>1, <2>2, <3>1 DEF HandedFirst
    <3>2. CASE q \in CurrentProducts(s) BY <2>1, <2>2, <3>2 DEF AddedFirst, Added
    <3> QED BY <1>5, <3>1, <3>2
  <2> QED BY <2>1, <2>2 DEF HandedFirst
<1> QED BY <1>6, <1>7, <1>8, <1>9, FlowKeepsOrder DEF ValueInv

\* A merge adds to the entry of the row.
LEMMA MergeKeepsOrder ==
  ASSUME NEW s, NEW h, OrderInv(s, h), s.op.kind = "MERGE", s.op # NoOperation
  PROVE  OrderInv(CommitMerge(s), h) /\ Held(CommitMerge(s)) = Held(s)
<1> DEFINE k == s.op.slot
           x == s.op.input
           t == CommitMerge(s)
           e == [s.acc[k] EXCEPT !.value = Append(@, x)]
<1>1. /\ s \in BGAType /\ s.acc \in [Slot -> Entry] /\ x \in Contribution
      /\ k \in LiveSlots(s) /\ k \in Slot /\ s.acc[k].row = x.row /\ s.output = <<>>
  BY DEF OrderInv, DatapathInv, OperationReady, BGAType, Operation, LiveSlots
<1>2. t = [s EXCEPT !.op = NoOperation, !.acc[k].value = Append(@, x)] BY <1>1 DEF CommitMerge
<1>3. s.acc[k] \in Entry /\ s.acc[k].value \in Seq(Contribution) BY <1>1, ValueTypes
<1>4. /\ t.op = NoOperation /\ t.miss = s.miss /\ SameInputs(s, t)
      /\ t.output = s.output /\ t.retiring = s.retiring
      /\ t.acc = [s.acc EXCEPT ![k] = e]
  BY <1>1, <1>2 DEF BGAType, SameInputs
<1>5. /\ e.valid = s.acc[k].valid /\ e.reserved = s.acc[k].reserved /\ e.row = x.row
      /\ e.value = Append(s.acc[k].value, x)
  BY <1>1, <1>3 DEF Entry
<1>6. DatapathInv(t) BY MergeKeepsInv DEF OrderInv
<1> HIDE DEF t, e
<1>7. t.acc[k] = e /\ \A j \in Slot : j # k => t.acc[j] = s.acc[j] BY <1>1, <1>4
<1>8. LiveSlots(t) = LiveSlots(s) /\ LiveSlots(s) \subseteq Slot BY <1>5, <1>7 DEF LiveSlots
<1>9. SumInOrder(s.acc[k].value, x.row) BY <1>1 DEF OrderInv, ValueInv, SumsInOrder
<1>10. \A p \in Range(s.acc[k].value) : p.stream = x.stream => Precedes(p, x)
  BY <1>1 DEF Added, Inside, EntryProducts, CurrentProducts, OrderInv, StreamInv, AddedFirst
<1> HIDE DEF x, k
<1>11. SumInOrder(e.value, x.row) /\ Range(e.value) = Range(s.acc[k].value) \cup {x}
  BY <1>1, <1>3, <1>5, <1>9, <1>10, SumExtends, RangeOfAppend
<1>12. OrderInv(t, h) /\ Held(t) = Held(s)
  <2>1. LiveSlots(t) = LiveSlots(s) \cup {k} /\ t.acc[k].row = x.row BY <1>1, <1>5, <1>7, <1>8
  <2>2. Range(t.acc[k].value)
          = (IF k \in LiveSlots(s) THEN Range(s.acc[k].value) ELSE {}) \cup {x}
    BY <1>1, <1>7, <1>11
  <2>3. /\ \A j \in LiveSlots(s) : j # k => t.acc[j] = s.acc[j]
        /\ SumInOrder(t.acc[k].value, x.row)
    BY <1>7, <1>8, <1>11
  <2>4. x = s.op.input BY DEF x
  <2>5. /\ DatapathInv(t) /\ SameInputs(s, t) /\ t.op = NoOperation /\ t.miss = s.miss
        /\ s.output = <<>> /\ t.output = s.output /\ t.retiring = s.retiring
        /\ k \in Slot /\ t.acc[k].row = s.op.input.row
    BY <1>1, <1>4, <1>6, <2>1, <2>4
  <2>6. /\ Range(t.acc[k].value)
             = (IF k \in LiveSlots(s) THEN Range(s.acc[k].value) ELSE {}) \cup {s.op.input}
        /\ SumInOrder(t.acc[k].value, s.op.input.row)
    BY <2>2, <2>3, <2>4
  <2> QED BY <2>1, <2>3, <2>5, <2>6, AdditionKeepsOrder
<1> QED BY <1>12 DEF t

\* An insert starts an entry for the row.
LEMMA InsertKeepsOrder ==
  ASSUME NEW s, NEW h, OrderInv(s, h), s.op.kind = "INSERT", s.op # NoOperation
  PROVE  OrderInv(CommitInsert(s), h) /\ Held(CommitInsert(s)) = Held(s)
<1> DEFINE k == s.op.slot
           x == s.op.input
           e == [valid |-> TRUE, reserved |-> FALSE, row |-> x.row,
                 value |-> <<x>>, age |-> s.age + 1]
           t == CommitInsert(s)
<1>1. /\ s \in BGAType /\ s.acc \in [Slot -> Entry] /\ x \in Contribution
      /\ k \in FreeSlots(s) /\ k \in Slot /\ s.output = <<>>
  BY DEF OrderInv, DatapathInv, OperationReady, BGAType, Operation, FreeSlots
<1>2. t = [s EXCEPT !.op = NoOperation, !.age = @ + 1, !.acc[k] = e]
  BY <1>1, NothingReserved DEF CommitInsert, FreeSlots, OrderInv
<1>3. e.valid /\ ~e.reserved /\ e.row = x.row /\ e.value = <<x>> OBVIOUS
<1> HIDE DEF e
<1>4. /\ t.op = NoOperation /\ t.miss = s.miss /\ SameInputs(s, t)
      /\ t.output = s.output /\ t.retiring = s.retiring
      /\ t.acc = [s.acc EXCEPT ![k] = e]
  BY <1>1, <1>2 DEF BGAType, SameInputs
<1>5. DatapathInv(t) BY InsertKeepsInv DEF OrderInv
<1> HIDE DEF t
<1>6. t.acc[k] = e /\ \A j \in Slot : j # k => t.acc[j] = s.acc[j] BY <1>1, <1>4
<1>7. LiveSlots(t) = LiveSlots(s) \cup {k} /\ k \notin LiveSlots(s)
  BY <1>1, <1>3, <1>6 DEF LiveSlots, FreeSlots
<1>8. \A j \in LiveSlots(s) : j # k => t.acc[j] = s.acc[j] BY <1>6, <1>7 DEF LiveSlots
<1> HIDE DEF x, k
<1>9. SumInOrder(t.acc[k].value, x.row) /\ Range(t.acc[k].value) = {x} /\ t.acc[k].row = x.row
  BY <1>1, <1>3, <1>6, SumStarts
<1>10. Range(t.acc[k].value)
         = (IF k \in LiveSlots(s) THEN Range(s.acc[k].value) ELSE {}) \cup {x}
  BY <1>7, <1>9
<1>11. OrderInv(t, h) /\ Held(t) = Held(s)
  <2>1. x = s.op.input BY DEF x
  <2>2. /\ DatapathInv(t) /\ SameInputs(s, t) /\ t.op = NoOperation /\ t.miss = s.miss
        /\ s.output = <<>> /\ t.output = s.output /\ t.retiring = s.retiring
        /\ k \in Slot /\ LiveSlots(t) = LiveSlots(s) \cup {k}
        /\ t.acc[k].row = s.op.input.row
    BY <1>1, <1>4, <1>5, <1>7, <1>9, <2>1
  <2>3. /\ Range(t.acc[k].value)
             = (IF k \in LiveSlots(s) THEN Range(s.acc[k].value) ELSE {}) \cup {s.op.input}
        /\ SumInOrder(t.acc[k].value, s.op.input.row)
    BY <1>9, <1>10, <2>1
  <2> QED BY <1>8, <2>2, <2>3, AdditionKeepsOrder
<1> QED BY <1>11 DEF t

\* One cycle of the running operation, whatever it is.
LEMMA CommitOperationKeepsOrder ==
  ASSUME NEW s, NEW h, OrderInv(s, h)
  PROVE  OrderInv(CommitOperation(s), h) /\ Held(CommitOperation(s)) = Held(s)
<1>1. /\ s.fault = "none" /\ s.op.kind \in {"NONE", "LOOKUP", "MERGE", "INSERT"}
      /\ s \in BGAType
  BY DEF OrderInv, DatapathInv, BGAType, Operation
<1>2. CASE s.op = NoOperation BY <1>2 DEF CommitOperation
<1>3. CASE s.op # NoOperation
  <2>1. s.op.kind # "NONE" /\ s.op.remaining \in Nat
    BY <1>1, <1>3 DEF OrderInv, DatapathInv, OperationReady, BGAType, Operation
  <2>2. CASE ~Commits(s)
    <3> DEFINE t == CommitOperation(s)
    <3>1. t = [s EXCEPT !.op.remaining = @ - 1] BY <1>1, <1>3, <2>2 DEF CommitOperation
    <3>2. DatapathInv(t) BY CommitOperationKeepsInv DEF OrderInv
    <3>3. /\ t.miss = s.miss /\ SameInputs(s, t) /\ t.acc = s.acc /\ t.output = s.output
          /\ t.retiring = s.retiring /\ t.op = [s.op EXCEPT !.remaining = @ - 1]
      BY <1>1, <3>1 DEF BGAType, SameInputs
    <3> HIDE DEF t
    <3>4. t.op.input = s.op.input /\ t.op.kind # "NONE"
      BY <1>1, <2>1, <3>3 DEF BGAType, Operation
    <3>5. CurrentProducts(t) = CurrentProducts(s)
      BY <1>3, <3>3, <3>4, OpKinds DEF CurrentProducts
    <3>6. SameValues(s, t) BY <3>3 DEF SameValues, LiveSlots, Records
    <3>7. OrderInv(t, h) /\ Held(t) = Held(s) BY <3>2, <3>3, <3>5, <3>6, QuietKeepsOrder
    <3> QED BY <3>7 DEF t
  <2>3. CASE Commits(s) /\ s.op.kind = "LOOKUP"
    BY <1>1, <1>3, <2>3, LookupKeepsOrder DEF CommitOperation
  <2>4. CASE Commits(s) /\ s.op.kind = "MERGE"
    BY <1>1, <1>3, <2>4, MergeKeepsOrder DEF CommitOperation
  <2>5. CASE Commits(s) /\ s.op.kind = "INSERT"
    BY <1>1, <1>3, <2>5, InsertKeepsOrder DEF CommitOperation
  <2> QED BY <1>1, <2>1, <2>2, <2>3, <2>4, <2>5
<1> QED BY <1>2, <1>3

\* The value of a live entry becomes the value of the last record; no record was of
\* its row, since no two entries and no record and entry are of one row.
LEMMA PushOutputKeepsOrder ==
  ASSUME NEW s, NEW h, OrderInv(s, h), NEW k \in LiveSlots(s),
         NEW reason \in {"CAPACITY_EVICTION", "FINAL_DRAIN"}
  PROVE  LET t == PushOutput(s, k, reason)
         IN  Flows(s, t) /\ ValueInv(t, h)
<1> DEFINE record == [row |-> s.acc[k].row, value |-> s.acc[k].value,
                      seq |-> s.outSeq + 1, slot |-> k, reason |-> reason]
           t == PushOutput(s, k, reason)
           n == Len(s.output)
<1>1. /\ DatapathInv(s) /\ s \in BGAType /\ k \in Slot /\ s.acc \in [Slot -> Entry]
      /\ s.output \in Seq(Record) /\ record \in Record /\ n \in Nat
  <2>1. DatapathInv(s) /\ s \in BGAType /\ k \in Slot BY DEF OrderInv, DatapathInv, LiveSlots
  <2>2. s.acc[k] \in Entry /\ s.outSeq + 1 \in Nat /\ s.output \in Seq(Record)
    BY <2>1, ValueTypes DEF BGAType
  <2> QED BY <2>1, <2>2, LenProperties DEF BGAType, Record, Entry
<1>2. t = [s EXCEPT !.output = Append(@, record), !.acc[k].reserved = TRUE,
                    !.outSeq = @ + 1]
  BY DEF PushOutput
<1>3. record.row = s.acc[k].row /\ record.value = s.acc[k].value OBVIOUS
<1> HIDE DEF record
<1>4. /\ t.op = s.op /\ t.miss = s.miss /\ SameInputs(s, t) /\ t.retiring = s.retiring
      /\ t.output = Append(s.output, record)
      /\ t.acc = [s.acc EXCEPT ![k].reserved = TRUE]
  BY <1>1, <1>2 DEF BGAType, SameInputs
<1>5. LiveSlots(t) = LiveSlots(s) \ {k} BY <1>1, PushOutputFacts
<1> HIDE DEF t
<1>6. \A j \in LiveSlots(t) : j \in LiveSlots(s) /\ j # k /\ t.acc[j] = s.acc[j]
  BY <1>1, <1>4, <1>5 DEF LiveSlots
<1>7. /\ Len(t.output) = n + 1 /\ \A i \in 1 .. n : t.output[i] = s.output[i]
      /\ t.output[n + 1] = record
  BY <1>1, <1>4, AppendProperties
<1>8. s.retiring => n > 0 BY <1>1, EmptySeq DEF DatapathInv, OutputExclusion
<1>9. /\ Records(t) = Records(s) \cup {n + 1} /\ n + 1 \notin Records(s)
      /\ \A i \in Records(s) : t.output[i] = s.output[i]
  <2>1. CASE s.retiring BY <1>1, <1>4, <1>7, <1>8, <2>1 DEF Records
  <2>2. CASE ~s.retiring BY <1>1, <1>4, <1>7, <2>2 DEF Records
  <2> QED BY <2>1, <2>2
<1>10. CurrentProducts(t) = CurrentProducts(s) BY <1>4 DEF CurrentProducts
<1> HIDE DEF n
<1>11. RecordProducts(t) = RecordProducts(s) \cup Range(s.acc[k].value)
  BY <1>9, <1>3, <1>7 DEF RecordProducts
<1>12. EntryProducts(s) = EntryProducts(t) \cup Range(s.acc[k].value)
  BY <1>6, <1>5 DEF EntryProducts
<1>13. Inside(t) = Inside(s) BY <1>11, <1>12 DEF Inside
<1>14. Flows(s, t) BY <1>4, <1>10, <1>13 DEF Flows
<1>15. ValueInv(s, h) BY DEF OrderInv
<1>16. SumsInOrder(t, h)
  BY <1>6, <1>15, <1>9, <1>3, <1>7 DEF ValueInv, SumsInOrder
<1>17. RowsApart(t)
  <2>1. \A j \in LiveSlots(t) : t.acc[j].row # s.acc[k].row
    BY <1>1, <1>6 DEF DatapathInv, UniqueTags
  <2>2. \A i \in Records(s) : t.output[i].row # s.acc[k].row
    BY <1>9, <1>15 DEF ValueInv, RowsApart
  <2>3. t.output[n + 1].row = s.acc[k].row BY <1>3, <1>7
  <2>4. \A i \in Records(s) : \A j \in LiveSlots(t) : t.output[i].row # t.acc[j].row
    BY <1>6, <1>9, <1>15 DEF ValueInv, RowsApart
  <2>5. \A i, j \in Records(s) : i # j => t.output[i].row # t.output[j].row
    BY <1>9, <1>15 DEF ValueInv, RowsApart
  <2> QED BY <1>9, <2>1, <2>2, <2>3, <2>4, <2>5 DEF RowsApart
<1>18. HandedFirst(t, h) BY <1>13, <1>15 DEF ValueInv, HandedFirst
<1> QED BY <1>14, <1>16, <1>17, <1>18 DEF ValueInv, t

\* The stages of a pending miss, and the final drain.
LEMMA UpdateEvictionOrDrainKeepsOrder ==
  ASSUME NEW s, NEW h, OrderInv(s, h), NEW committed \in BOOLEAN
  PROVE  LET t == UpdateEvictionOrDrain(s, committed)
         IN  OrderInv(t, h) /\ Held(t) = Held(s)
<1> DEFINE t == UpdateEvictionOrDrain(s, committed)
<1>1. /\ DatapathInv(s) /\ s \in BGAType /\ s.fault = "none" /\ s.miss \in PendingMiss
      /\ LiveSlots(s) \subseteq Slot
  BY DEF OrderInv, DatapathInv, BGAType, LiveSlots
<1>2. DatapathInv(t) BY <1>1, UpdateEvictionOrDrainKeepsInv
<1>3. CASE s.miss.active /\ s.miss.eviction = 0
  <2> DEFINE v == s.miss.victim
             p == PushOutput(s, v, "CAPACITY_EVICTION")
  <2>1. v \in LiveSlots(s) /\ Len(s.output) = 0 /\ OutputQueueDepth \in Nat \ {0}
    BY <1>1, <1>3, EmptySeq, BGAConfigAssumption DEF DatapathInv, MissProgress
  <2>2. t = [p EXCEPT !.miss.eviction = s.outSeq + 1, !.miss.awaiting = TRUE]
    BY <1>1, <1>3, <2>1 DEF UpdateEvictionOrDrain, UpdateEviction
  <2>3. Flows(s, p) /\ ValueInv(p, h) /\ p \in BGAType
    BY <1>1, <2>1, PushOutputKeepsOrder, PushOutputFacts
  <2> HIDE DEF p
  <2>4. /\ t.op = p.op /\ SameInputs(p, t) /\ t.acc = p.acc
        /\ t.output = p.output /\ t.retiring = p.retiring
        /\ t.miss = [p.miss EXCEPT !.eviction = s.outSeq + 1, !.awaiting = TRUE]
    BY <2>2, <2>3 DEF BGAType, SameInputs
  <2> HIDE DEF t
  <2>5. t.miss.active = p.miss.active /\ t.miss.input = p.miss.input
    BY <2>3, <2>4 DEF BGAType, PendingMiss
  <2>6. CurrentProducts(t) = CurrentProducts(p) BY <2>4, <2>5 DEF CurrentProducts
  <2>7. SameValues(p, t) BY <2>4 DEF SameValues, LiveSlots, Records
  <2>8. Inside(t) = Inside(p) /\ ValueInv(t, h) BY <2>3, <2>7, SameValuesFacts
  <2>9. Flows(s, t) BY <2>3, <2>4, <2>6, <2>8 DEF Flows, SameInputs
  <2>10. OrderInv(t, h) /\ Held(t) = Held(s) BY <1>2, <2>8, <2>9, FlowKeepsOrder
  <2> QED BY <2>10 DEF t
<1>4. CASE s.miss.active /\ s.miss.eviction # 0 /\ (s.miss.awaiting \/ s.op # NoOperation)
  BY <1>1, <1>4 DEF UpdateEvictionOrDrain, UpdateEviction
<1>5. CASE s.miss.active /\ s.miss.eviction # 0 /\ ~s.miss.awaiting /\ s.op = NoOperation
  <2> DEFINE o == [kind |-> "INSERT", input |-> s.miss.input, slot |-> s.miss.victim,
                   remaining |-> AddLatency]
  <2>1. t = [s EXCEPT !.op = o, !.miss = NoMiss]
    BY <1>1, <1>5 DEF UpdateEvictionOrDrain, UpdateEviction
  <2>2. o.kind # "NONE" /\ ~NoMiss.active /\ o.input = s.miss.input BY DEF NoMiss
  <2> HIDE DEF o
  <2>3. /\ t.op = o /\ t.miss = NoMiss /\ SameInputs(s, t)
        /\ t.acc = s.acc /\ t.output = s.output /\ t.retiring = s.retiring
    BY <1>1, <2>1 DEF BGAType, SameInputs
  <2> HIDE DEF t
  <2>4. CurrentProducts(t) = CurrentProducts(s) BY <1>5, <2>2, <2>3, OpKinds DEF CurrentProducts
  <2>5. SameValues(s, t) BY <2>3 DEF SameValues, LiveSlots, Records
  <2>6. OrderInv(t, h) /\ Held(t) = Held(s) BY <1>2, <2>3, <2>4, <2>5, QuietKeepsOrder
  <2> QED BY <2>6 DEF t
<1>6. CASE ~s.miss.active
  <2> DEFINE v == Oldest(s, LiveSlots(s))
             drains == /\ s.draining /\ s.op = NoOperation /\ ~committed
                       /\ ~InputPending(s) /\ LiveSlots(s) # {}
                       /\ Len(s.output) < OutputQueueDepth
  <2>1. CASE ~drains BY <1>1, <1>6, <2>1 DEF UpdateEvictionOrDrain, FinalDrain
  <2>2. CASE drains
    <3>1. v \in LiveSlots(s) BY <1>1, <2>2, OldestExists
    <3>2. t = PushOutput(s, v, "FINAL_DRAIN")
      BY <1>1, <1>6, <2>2 DEF UpdateEvictionOrDrain, FinalDrain
    <3> HIDE DEF v
    <3>3. Flows(s, t) /\ ValueInv(t, h) BY <3>1, <3>2, PushOutputKeepsOrder
    <3> HIDE DEF t
    <3>4. OrderInv(t, h) /\ Held(t) = Held(s) BY <1>2, <3>3, FlowKeepsOrder
    <3> QED BY <3>4 DEF t
  <2> QED BY <2>1, <2>2
<1> QED BY <1>1, <1>3, <1>4, <1>5, <1>6 DEF PendingMiss

-----------------------------------------------------------------------------
(* Phases and calls that move products into or out of the FIFOs            *)

\* What the front of a sequence and the rest of it hold.
LEMMA RangeOfTail ==
  ASSUME NEW S, NEW v \in Seq(S), v # <<>>
  PROVE  /\ Head(v) = v[1] /\ 1 \in 1 .. Len(v)
         /\ Range(v) = {Head(v)} \cup Range(Tail(v))
         /\ \A i \in 1 .. Len(Tail(v)) : i + 1 \in 1 .. Len(v) /\ Tail(v)[i] = v[i + 1]
<1>1. /\ Tail(v) \in Seq(S) /\ Len(Tail(v)) = Len(v) - 1
      /\ \A i \in 1 .. Len(Tail(v)) : Tail(v)[i] = v[i + 1]
      /\ Len(v) \in Nat \ {0} /\ Head(v) = v[1]
  BY HeadTailProperties, EmptySeq
<1>2. \A i \in 1 .. Len(v) : i = 1 \/ (i - 1 \in 1 .. Len(Tail(v)) /\ Tail(v)[i - 1] = v[i])
  BY <1>1
<1>3. \A i \in 1 .. Len(Tail(v)) : i + 1 \in 1 .. Len(v) BY <1>1
<1>4. Range(v) = {v[i] : i \in 1 .. Len(v)} BY RangeOfValue
<1>5. Range(Tail(v)) = {Tail(v)[i] : i \in 1 .. Len(Tail(v))} BY <1>1, RangeOfValue
<1>6. 1 \in 1 .. Len(v) BY <1>1
<1>7. ASSUME NEW x \in Range(v) PROVE x = Head(v) \/ x \in Range(Tail(v))
  <2>1. PICK i \in 1 .. Len(v) : x = v[i] BY <1>4
  <2> QED BY <1>1, <1>2, <1>5, <2>1
<1>8. Head(v) \in Range(v) BY <1>1, <1>4, <1>6
<1>9. ASSUME NEW x \in Range(Tail(v)) PROVE x \in Range(v) BY <1>1, <1>3, <1>4, <1>5
<1>10. Range(v) = {Head(v)} \cup Range(Tail(v)) BY <1>7, <1>8, <1>9
<1> QED BY <1>1, <1>3, <1>6, <1>10

\* The head of a FIFO becomes current: everything added precedes it, and it precedes
\* what is behind it.
LEMMA StartServiceKeepsOrder ==
  ASSUME NEW s, NEW h, OrderInv(s, h)
  PROVE  OrderInv(StartService(s), h) /\ Held(StartService(s)) = Held(s)
<1> DEFINE at(offset) == (s.rr + offset) % NumStreams
           ready == {offset \in Stream : s.queue[at(offset)] # <<>>}
           st == at(Lowest(ready))
           idle == s.fault # "none" \/ s.op # NoOperation \/ s.miss.active \/ ready = {}
           t == StartService(s)
<1>1. CASE idle BY <1>1 DEF StartService
<1>2. CASE ~idle
  <2> DEFINE x == Head(s.queue[st])
             o == [kind |-> "LOOKUP", input |-> x, slot |-> 0, remaining |-> CompareLatency]
             q == [s.queue EXCEPT ![st] = Tail(s.queue[st])]
  <2>1. /\ s \in BGAType /\ s.queue \in [Stream -> Seq(Contribution)]
        /\ s.rr \in Nat /\ NumStreams \in Nat \ {0}
    BY BGAConfigAssumption DEF OrderInv, DatapathInv, BGAType, Stream
  <2>2. Lowest(ready) \in ready
    <3>1. ready \in SUBSET Nat /\ ready # {} BY <1>2, SmallValues
    <3> HIDE DEF ready
    <3> QED BY <3>1, LowestExists
  <2>3. st \in Stream /\ s.queue[st] # <<>>
    <3>1. Lowest(ready) \in Nat BY <2>2, SmallValues
    <3>2. \A n \in Nat : (s.rr + n) % NumStreams \in Stream BY <2>1 DEF Stream
    <3> QED BY <2>2, <3>1, <3>2
  <2>4. t = [s EXCEPT !.queue = q, !.op = o, !.rr = (st + 1) % NumStreams]
    BY <1>2, <2>1 DEF StartService, BGAType
  <2>5. s.op = NoOperation /\ ~s.miss.active BY <1>2
  <2> HIDE DEF st, ready
  <2>6. /\ s.queue[st] \in Seq(Contribution) /\ x = s.queue[st][1] /\ 1 \in 1 .. Len(s.queue[st])
        /\ Range(s.queue[st]) = {x} \cup Range(Tail(s.queue[st]))
        /\ \A i \in 1 .. Len(Tail(s.queue[st])) :
             i + 1 \in 1 .. Len(s.queue[st]) /\ Tail(s.queue[st])[i] = s.queue[st][i + 1]
    BY <2>1, <2>3, RangeOfTail
  <2>7. q[st] = Tail(s.queue[st]) /\ \A y \in Stream : y # st => q[y] = s.queue[y] BY <2>1, <2>3
  <2>8. o.kind # "NONE" /\ o.input = x OBVIOUS
  <2>9. DatapathInv(t) BY StartServiceKeepsInv DEF OrderInv
  <2> HIDE DEF o, q, x
  <2>10. /\ t.acc = s.acc /\ t.output = s.output /\ t.op = o /\ t.miss = s.miss
         /\ t.accepted = s.accepted /\ t.presented = s.presented /\ t.last = s.last
         /\ t.generation = s.generation /\ t.retiring = s.retiring /\ t.queue = q
    BY <2>1, <2>4 DEF BGAType
  <2> HIDE DEF t
  <2>11. CurrentProducts(s) = {} /\ CurrentProducts(t) = {x}
    BY <2>5, <2>8, <2>10, OpKinds DEF CurrentProducts
  <2>12. SameValues(s, t) BY <2>10 DEF SameValues, LiveSlots, Records
  <2>13. Inside(t) = Inside(s) /\ ValueInv(t, h) /\ Added(t, h) = Added(s, h)
    BY <2>12, SameValuesFacts DEF OrderInv, Added
  <2>14. QueuedProducts(s) = {x} \cup QueuedProducts(t)
    BY <2>7, <2>10, <2>6, <2>3 DEF QueuedProducts
  <2>15. AcceptedProducts(t) = AcceptedProducts(s) BY <2>10 DEF AcceptedProducts
  <2>16. Held(t) = Held(s) BY <2>11, <2>13, <2>14, <2>15, HeldParts
  <2>17. StreamInv(s, h) BY DEF OrderInv
  <2>18. /\ \A i \in 1 .. Len(s.queue[st]) :
              s.queue[st][i].stream = st /\ s.queue[st][i].generation = s.generation
         /\ \A i, j \in 1 .. Len(s.queue[st]) :
              i < j => Precedes(s.queue[st][i], s.queue[st][j])
    BY <2>3, <2>17 DEF StreamInv, QueueInOrder
  <2>19. \A i \in 1 .. Len(t.queue[st]) :
           i + 1 \in 1 .. Len(s.queue[st]) /\ t.queue[st][i] = s.queue[st][i + 1]
    BY <2>6, <2>7, <2>10
  <2>20. QueueInOrder(t)
    <3>1. ASSUME NEW i \in 1 .. Len(t.queue[st])
          PROVE  t.queue[st][i].stream = st /\ t.queue[st][i].generation = t.generation
      BY <2>10, <2>18, <2>19
    <3>2. ASSUME NEW i \in 1 .. Len(t.queue[st]), NEW j \in 1 .. Len(t.queue[st]), i < j
          PROVE  Precedes(t.queue[st][i], t.queue[st][j])
      BY <3>2, <2>18, <2>19
    <3> QED BY <2>7, <2>10, <2>17, <3>1, <3>2 DEF StreamInv, QueueInOrder
  <2>21. AddedFirst(t, h)
    <3>1. ASSUME NEW p \in QueuedProducts(t), x.stream = p.stream PROVE Precedes(x, p)
      <4>1. PICK y \in Stream : p \in Range(t.queue[y]) BY DEF QueuedProducts
      <4>2. t.queue[y] \in Seq(Contribution) BY <2>9, <4>1 DEF DatapathInv, BGAType
      <4>3. PICK i \in 1 .. Len(t.queue[y]) : p = t.queue[y][i] BY <4>1, <4>2, RangeOfValue
      <4>4. p.stream = y /\ x.stream = st BY <2>6, <2>20, <2>18, <4>3 DEF QueueInOrder
      <4>5. y = st BY <3>1, <4>4
      <4>6. i + 1 \in 1 .. Len(s.queue[st]) /\ p = s.queue[st][i + 1] BY <2>19, <4>3, <4>5
      <4>7. 1 < i + 1 OBVIOUS
      <4> QED BY <2>6, <2>18, <4>6, <4>7
    <3>2. ASSUME NEW p \in Added(t, h), p.stream = x.stream PROVE Precedes(p, x)
      BY <2>13, <2>14, <2>17, <3>2 DEF StreamInv, AddedFirst
    <3>3. ASSUME NEW p \in Added(t, h), NEW z \in QueuedProducts(t), p.stream = z.stream
          PROVE  Precedes(p, z)
      BY <2>13, <2>14, <2>17, <3>3 DEF StreamInv, AddedFirst
    <3> QED BY <2>11, <3>1, <3>2, <3>3 DEF AddedFirst
  <2>22. GenerationsAgree(t, h)
    BY <2>3, <2>6, <2>17, <2>10, <2>11, <2>13 DEF StreamInv, QueueInOrder, GenerationsAgree
  <2>23. BatchesInOrder(t, h)
    BY <2>11, <2>13, <2>14, <2>10, <2>17 DEF StreamInv, BatchesInOrder
  <2>24. OrderInv(t, h) BY <2>9, <2>13, <2>20, <2>21, <2>22, <2>23 DEF OrderInv, StreamInv
  <2> QED BY <2>16, <2>24 DEF t
<1> QED BY <1>1, <1>2

\* The products of a batch, one by one.
LEMMA ProductsOfBatch ==
  ASSUME NEW b \in Batch
  PROVE  /\ \A i \in 1 .. Len(Contributions(b)) :
              LET c == Contributions(b)[i]
              IN  /\ c.stream = b.stream /\ c.generation = b.generation
                  /\ c.sequence = b.sequence /\ c.index = i
         /\ \A c \in Range(Contributions(b)) :
              c.stream = b.stream /\ c.generation = b.generation /\ c.sequence = b.sequence
<1>1. /\ Contributions(b) \in Seq(Contribution) /\ Len(Contributions(b)) = Len(b.rows)
      /\ Len(b.rows) \in Nat
  BY ContributionsOfBatch
<1>2. ASSUME NEW i \in 1 .. Len(Contributions(b))
      PROVE  LET c == Contributions(b)[i]
             IN  /\ c.stream = b.stream /\ c.generation = b.generation
                 /\ c.sequence = b.sequence /\ c.index = i
  BY <1>1 DEF Contributions
<1>3. \A c \in Range(Contributions(b)) : \E i \in 1 .. Len(Contributions(b)) :
        c = Contributions(b)[i]
  BY <1>1, RangeOfValue
<1> QED BY <1>2, <1>3

\* No batch, no products.
LEMMA ProductsOfNoBatch == Contributions(NoBatch) = <<>> /\ Range(Contributions(NoBatch)) = {}
<1>1. /\ Contributions(NoBatch) \in Seq(Contribution)
      /\ Len(Contributions(NoBatch)) = Len(NoBatch.rows) /\ Len(NoBatch.rows) = 0
  BY SmallValues, ContributionsOfBatch, EmptySeq DEF NoBatch
<1>2. Contributions(NoBatch) = <<>> BY <1>1, EmptySeq
<1>3. Range(Contributions(NoBatch)) = {Contributions(NoBatch)[i] : i \in 1 .. 0}
  BY <1>1, RangeOfValue
<1> QED BY <1>2, <1>3

\* What an accepted batch holds comes after everything of its stream that is not in
\* it; its own products come in the order of the batch.
LEMMA AcceptedComesLast ==
  ASSUME NEW s, NEW h \in Seq(HandedRecord), OrderInv(s, h), NEW st \in Stream
  PROVE  /\ \A p \in Added(s, h) \cup CurrentProducts(s) \cup QueuedProducts(s),
                q \in Range(Contributions(s.accepted[st])) :
              p.stream = q.stream => Precedes(p, q)
         /\ \A q \in Range(Contributions(s.accepted[st])) :
              /\ q.stream = st /\ q.generation = s.generation
              /\ q.sequence = s.last[st].sequence
         /\ LET c == Contributions(s.accepted[st])
            IN  \A i, j \in 1 .. Len(c) : i < j => Precedes(c[i], c[j])
<1> DEFINE b == s.accepted[st]
           c == Contributions(b)
<1>1. s \in BGAType /\ StreamInv(s, h) /\ DatapathInv(s) BY DEF OrderInv, DatapathInv
<1>2. CASE b = NoBatch
  BY <1>2, ProductsOfNoBatch, EmptySeq
<1>3. CASE b # NoBatch
  <2>1. /\ b \in Batch /\ b.stream = st /\ b.generation = s.generation
        /\ b.sequence = s.last[st].sequence
    BY <1>1, <1>3 DEF BGAType, DatapathInv, InputsBounded, StreamInv, BatchesInOrder
  <2>2. /\ \A i \in 1 .. Len(c) :
             /\ c[i].stream = st /\ c[i].generation = s.generation
             /\ c[i].sequence = s.last[st].sequence /\ c[i].index = i
        /\ \A q \in Range(c) :
             /\ q.stream = st /\ q.generation = s.generation
             /\ q.sequence = s.last[st].sequence
    BY <2>1, ProductsOfBatch
  <2>3. ASSUME NEW p \in Added(s, h) \cup CurrentProducts(s) \cup QueuedProducts(s),
               NEW q \in Range(c), p.stream = q.stream
        PROVE  Precedes(p, q)
    <3>1. p \in Contribution BY <1>1, ProductTypes, HandedTypes DEF Added
    <3>2. p.generation \in Nat /\ s.generation \in Nat BY <1>1, <3>1 DEF Contribution, BGAType
    <3>3. p.generation <= s.generation
      <4>1. CASE p \in HandedProducts(h) BY <1>1, <4>1 DEF StreamInv, GenerationsAgree
      <4>2. CASE p \in Inside(s) \cup CurrentProducts(s)
        BY <1>1, <3>2, <4>2 DEF StreamInv, GenerationsAgree
      <4>3. CASE p \in QueuedProducts(s)
        <5>1. PICK y \in Stream : p \in Range(s.queue[y]) BY <4>3 DEF QueuedProducts
        <5>2. s.queue[y] \in Seq(Contribution) BY <1>1 DEF BGAType
        <5>3. PICK i \in 1 .. Len(s.queue[y]) : p = s.queue[y][i] BY <5>1, <5>2, RangeOfValue
        <5>4. p.generation = s.generation BY <1>1, <5>3 DEF StreamInv, QueueInOrder
        <5> QED BY <3>2, <5>4
      <4> QED BY <4>1, <4>2, <4>3 DEF Added
    <3>4. p.generation = s.generation => p.sequence < q.sequence
      BY <1>1, <1>3, <2>2, <2>3 DEF StreamInv, BatchesInOrder
    <3>5. q.generation = s.generation BY <2>2
    <3>6. \A m, n \in Nat : m <= n => m < n \/ m = n OBVIOUS
    <3> QED BY <3>2, <3>3, <3>4, <3>5, <3>6 DEF Precedes
  <2>4. \A i, j \in 1 .. Len(c) : i < j => Precedes(c[i], c[j]) BY <2>2 DEF Precedes
  <2> QED BY <2>2, <2>3, <2>4
<1> QED BY <1>2, <1>3

\* Accepted batches go to the end of their FIFOs.
LEMMA CommitAcceptedBatchesKeepsOrder ==
  ASSUME NEW s, NEW h \in Seq(HandedRecord), OrderInv(s, h)
  PROVE  OrderInv(CommitAcceptedBatches(s), h) /\ Held(CommitAcceptedBatches(s)) = Held(s)
<1> DEFINE q == [st \in Stream |-> s.queue[st] \o Contributions(s.accepted[st])]
           a == [st \in Stream |-> NoBatch]
           t == CommitAcceptedBatches(s)
           c(st) == Contributions(s.accepted[st])
<1>1. /\ s \in BGAType /\ s.queue \in [Stream -> Seq(Contribution)]
      /\ s.accepted \in [Stream -> Batch] /\ DatapathInv(s) /\ StreamInv(s, h)
  BY DEF OrderInv, DatapathInv, BGAType
<1>2. ~ \E st \in Stream : s.accepted[st] # NoBatch /\ ~HasRoom(s, s.accepted[st])
  BY <1>1 DEF DatapathInv, InputsBounded, HasRoom
<1>3. t = [s EXCEPT !.queue = q, !.accepted = a]
  BY <1>1, <1>2 DEF CommitAcceptedBatches, DatapathInv
<1>4. DatapathInv(t) BY <1>1, CommitAcceptedBatchesKeepsInv
<1>5. /\ t.acc = s.acc /\ t.output = s.output /\ t.op = s.op /\ t.miss = s.miss
      /\ t.presented = s.presented /\ t.last = s.last /\ t.generation = s.generation
      /\ t.retiring = s.retiring /\ t.queue = q /\ t.accepted = a
  BY <1>1, <1>3 DEF BGAType
<1>6. ASSUME NEW st \in Stream
      PROVE  /\ t.queue[st] = s.queue[st] \o c(st) /\ t.accepted[st] = NoBatch
             /\ s.queue[st] \in Seq(Contribution) /\ c(st) \in Seq(Contribution)
             /\ Range(t.queue[st]) = Range(s.queue[st]) \cup Range(c(st))
             /\ Len(s.queue[st]) \in Nat /\ Len(c(st)) \in Nat
             /\ Len(t.queue[st]) = Len(s.queue[st]) + Len(c(st))
             /\ \A i \in 1 .. Len(t.queue[st]) :
                  t.queue[st][i] = IF i <= Len(s.queue[st]) THEN s.queue[st][i]
                                   ELSE c(st)[i - Len(s.queue[st])]
  <2>1. s.queue[st] \in Seq(Contribution) /\ c(st) \in Seq(Contribution)
    BY <1>1, ContributionsOfBatch
  <2>2. t.queue[st] = s.queue[st] \o c(st) /\ t.accepted[st] = NoBatch BY <1>5
  <2> HIDE DEF t, q, c
  <2> QED BY <2>1, <2>2, ConcatProperties, RangeConcatenation, LenProperties
<1> HIDE DEF t, q, a
<1>7. QueuedProducts(t) = QueuedProducts(s) \cup AcceptedProducts(s)
  <2>1. \A st \in Stream :
          Range(t.queue[st]) = Range(s.queue[st]) \cup Range(Contributions(s.accepted[st]))
    BY <1>6
  <2>2. ASSUME NEW p PROVE p \in QueuedProducts(t) <=>
                             p \in QueuedProducts(s) \/ p \in AcceptedProducts(s)
    <3>1. p \in QueuedProducts(t) <=> \E st \in Stream : p \in Range(t.queue[st])
      BY DEF QueuedProducts
    <3>2. p \in QueuedProducts(s) <=> \E st \in Stream : p \in Range(s.queue[st])
      BY DEF QueuedProducts
    <3>3. p \in AcceptedProducts(s) <=>
            \E st \in Stream : p \in Range(Contributions(s.accepted[st]))
      BY DEF AcceptedProducts
    <3> QED BY <2>1, <3>1, <3>2, <3>3
  <2> QED BY <2>2
<1>8. AcceptedProducts(t) = {} BY <1>6, ProductsOfNoBatch DEF AcceptedProducts
<1>9. CurrentProducts(t) = CurrentProducts(s) BY <1>5 DEF CurrentProducts
<1>10. SameValues(s, t) BY <1>5 DEF SameValues, LiveSlots, Records
<1>11. Inside(t) = Inside(s) /\ ValueInv(t, h) /\ Added(t, h) = Added(s, h)
  BY <1>10, SameValuesFacts DEF OrderInv, Added
<1>12. Held(t) = Held(s) BY <1>7, <1>8, <1>9, <1>11, HeldParts
<1>13. \A st \in Stream : \A p \in Range(s.queue[st]) : p \in QueuedProducts(s)
  BY DEF QueuedProducts
<1>14. QueueInOrder(t)
  <2> SUFFICES ASSUME NEW st \in Stream
               PROVE  /\ \A i \in 1 .. Len(t.queue[st]) :
                           t.queue[st][i].stream = st /\ t.queue[st][i].generation = t.generation
                      /\ \A i, j \in 1 .. Len(t.queue[st]) :
                           i < j => Precedes(t.queue[st][i], t.queue[st][j])
    BY DEF QueueInOrder
  <2> DEFINE n == Len(s.queue[st])
             u == s.queue[st]
             w == t.queue[st]
             v == c(st)
  <2>1. /\ n \in Nat /\ Len(v) \in Nat /\ Len(w) = n + Len(v) /\ n = Len(u)
        /\ \A i \in 1 .. Len(w) : w[i] = IF i <= n THEN u[i] ELSE v[i - n]
    BY <1>6
  <2>2. /\ \A i \in 1 .. n : u[i].stream = st /\ u[i].generation = s.generation
        /\ \A i, j \in 1 .. n : i < j => Precedes(u[i], u[j])
    BY <1>1 DEF StreamInv, QueueInOrder
  <2>3. /\ \A i \in 1 .. Len(v) : v[i] \in Range(v)
        /\ \A i \in 1 .. n : u[i] \in Range(u)
    <3>1. u \in Seq(Contribution) /\ v \in Seq(Contribution) /\ n = Len(u) BY <1>6
    <3> HIDE DEF n, u, v
    <3>2. Range(u) = {u[i] : i \in 1 .. Len(u)} /\ Range(v) = {v[i] : i \in 1 .. Len(v)}
      BY <3>1, RangeOfValue
    <3> QED BY <3>1, <3>2
  <2>4. /\ \A p \in QueuedProducts(s), x \in Range(v) : p.stream = x.stream => Precedes(p, x)
        /\ \A x \in Range(v) : x.stream = st /\ x.generation = s.generation
        /\ \A i, j \in 1 .. Len(v) : i < j => Precedes(v[i], v[j])
    BY AcceptedComesLast
  <2>5. \A p \in Range(u) : p \in QueuedProducts(s) BY <1>13
  <2> HIDE DEF n, u, v, w
  <2>6. ASSUME NEW i \in 1 .. Len(w)
        PROVE  \/ i \in 1 .. n /\ w[i] = u[i]
               \/ i - n \in 1 .. Len(v) /\ w[i] = v[i - n] /\ i > n
    BY <2>1
  <2>7. \A i \in 1 .. Len(w) : w[i].stream = st /\ w[i].generation = t.generation
    BY <1>5, <2>2, <2>3, <2>4, <2>6
  <2>8. ASSUME NEW i \in 1 .. Len(w), NEW j \in 1 .. Len(w), i < j
        PROVE  Precedes(w[i], w[j])
    <3>1. CASE j \in 1 .. n /\ w[j] = u[j]
      BY <2>1, <2>8, <3>1, <2>2, <2>6
    <3>2. CASE j - n \in 1 .. Len(v) /\ w[j] = v[j - n]
      <4>1. CASE i \in 1 .. n /\ w[i] = u[i] BY <2>2, <2>3, <2>4, <2>5, <3>2, <4>1
      <4>2. CASE i - n \in 1 .. Len(v) /\ w[i] = v[i - n]
        BY <2>1, <2>8, <2>4, <3>2, <4>2
      <4> QED BY <2>6, <4>1, <4>2
    <3> QED BY <2>6, <3>1, <3>2
  <2> QED BY <2>7, <2>8 DEF w
<1>15. AddedFirst(t, h)
  <2>1. ASSUME NEW p \in Added(s, h) \cup CurrentProducts(s), NEW x \in AcceptedProducts(s),
               p.stream = x.stream
        PROVE  Precedes(p, x)
    <3>1. PICK st \in Stream : x \in Range(Contributions(s.accepted[st]))
      BY DEF AcceptedProducts
    <3> QED BY <2>1, <3>1, AcceptedComesLast
  <2> QED BY <1>1, <1>7, <1>9, <1>11, <2>1 DEF StreamInv, AddedFirst
<1>16. GenerationsAgree(t, h) BY <1>1, <1>5, <1>9, <1>11 DEF StreamInv, GenerationsAgree
<1>17. BatchesInOrder(t, h)
  <2>1. ASSUME NEW x \in AcceptedProducts(s)
        PROVE  x.sequence <= s.last[x.stream].sequence
    <3>1. PICK st \in Stream : x \in Range(Contributions(s.accepted[st]))
      BY DEF AcceptedProducts
    <3>2. x.sequence = s.last[st].sequence /\ x.stream = st BY <3>1, AcceptedComesLast
    <3>3. s.last[st].sequence \in Nat BY <1>1 DEF BGAType, Batch
    <3> QED BY <3>2, <3>3
  <2>2. \A p \in Added(t, h) \cup CurrentProducts(t) \cup QueuedProducts(t) : p.stream \in Stream
    BY <1>4, ProductTypes, HandedTypes DEF Added, DatapathInv, Contribution
  <2>3. ASSUME NEW p \in Added(t, h) \cup CurrentProducts(t) \cup QueuedProducts(t),
               p.generation = t.generation
        PROVE  p.sequence <= t.last[p.stream].sequence
    BY <1>1, <1>5, <1>7, <1>9, <1>11, <2>1, <2>3 DEF StreamInv, BatchesInOrder
  <2> QED BY <1>1, <1>5, <1>6, <2>2, <2>3 DEF StreamInv, BatchesInOrder
<1>18. OrderInv(t, h) BY <1>4, <1>11, <1>14, <1>15, <1>16, <1>17 DEF OrderInv, StreamInv
<1> QED BY <1>12, <1>18 DEF t

\* step() as a whole: the ledger sees nothing of it.
LEMMA StepKeepsOrder ==
  ASSUME NEW s, NEW h \in Seq(HandedRecord), OrderInv(s, h), ConservedInv(s),
         NEW t, Step(s, t)
  PROVE  OrderInv(t, h) /\ Held(t) = Held(s)
<1> DEFINE r == RetireOutput(s)
           committed == r.fault = "none" /\ Commits(r)
           c == CommitOperation(r)
           u == UpdateEvictionOrDrain(c, committed)
           v == StartService(u)
           w == CommitAcceptedBatches(v)
<1>1. OrderInv(r, h) /\ Held(r) = Held(s) BY RetireOutputKeepsOrder
<1>2. committed \in BOOLEAN OBVIOUS
<1>3. t = CheckStep(w) BY DEF Step, Stepped
<1> HIDE DEF r, committed
<1>4. OrderInv(c, h) /\ Held(c) = Held(s) BY <1>1, CommitOperationKeepsOrder
<1> HIDE DEF c
<1>5. OrderInv(u, h) /\ Held(u) = Held(s) BY <1>2, <1>4, UpdateEvictionOrDrainKeepsOrder
<1> HIDE DEF u
<1>6. OrderInv(v, h) /\ Held(v) = Held(s) BY <1>5, StartServiceKeepsOrder
<1> HIDE DEF v
<1>7. OrderInv(w, h) /\ Held(w) = Held(s) BY <1>6, CommitAcceptedBatchesKeepsOrder
<1> HIDE DEF w
<1>8. DatapathInv(w) /\ t.fault = "none"
  BY <1>7, StepConserves DEF OrderInv, DatapathInv, ConservedInv
<1>9. t = w BY <1>3, <1>8, CheckStepResult, FaultFacts DEF ConservationFault
<1> QED BY <1>7, <1>9

\* A batch is accepted once: its products are new, and come after all others of its
\* producer.  Any other answer changes nothing of what is held.
LEMMA OfferKeepsOrder ==
  ASSUME NEW s, NEW h \in Seq(HandedRecord), OrderInv(s, h),
         NEW b \in [stream : Nat, generation : Nat, sequence : Nat, rows : Seq(Nat)]
  PROVE  LET t == OfferBatch(s, b)
         IN  /\ OrderInv(t, h)
             /\ Held(s) \subseteq Held(t)
             /\ (Held(t) \ Held(s)) \cap HandedProducts(h) = {}
<1> DEFINE t == OfferBatch(s, b)
           st == b.stream
           new == Range(Contributions(b))
<1>1. /\ DatapathInv(s) /\ DatapathInv(t) /\ s \in BGAType /\ t \in BGAType
      /\ StreamInv(s, h) /\ ValueInv(s, h)
  BY OfferKeepsInv DEF OrderInv, DatapathInv
<1>2. ASSUME t.queue = s.queue, t.acc = s.acc, t.output = s.output, t.op = s.op,
             t.miss = s.miss, t.retiring = s.retiring, t.generation = s.generation,
             BatchesInOrder(t, h)
      PROVE  /\ OrderInv(t, h) /\ QueuedProducts(t) = QueuedProducts(s)
             /\ CurrentProducts(t) = CurrentProducts(s) /\ Inside(t) = Inside(s)
  <2>1. SameValues(s, t) BY <1>2 DEF SameValues, LiveSlots, Records
  <2> HIDE DEF t
  <2>2. Inside(t) = Inside(s) /\ ValueInv(t, h) /\ Added(t, h) = Added(s, h)
    BY <1>1, <2>1, SameValuesFacts DEF Added
  <2>3. QueuedProducts(t) = QueuedProducts(s) /\ CurrentProducts(t) = CurrentProducts(s)
    BY <1>2 DEF QueuedProducts, CurrentProducts
  <2>4. QueueInOrder(t) /\ AddedFirst(t, h) /\ GenerationsAgree(t, h)
    BY <1>1, <1>2, <2>2, <2>3 DEF StreamInv, QueueInOrder, AddedFirst, GenerationsAgree
  <2> QED BY <1>1, <1>2, <2>2, <2>3, <2>4 DEF OrderInv, StreamInv
<1>3. \A p \in Added(s, h) \cup CurrentProducts(s) \cup QueuedProducts(s) :
        p.stream \in Stream /\ p.sequence \in Nat
  BY <1>1, ProductTypes, HandedTypes DEF Added, Contribution
<1>4. CASE OfferResult(s, b) = "ACCEPTED"
  <2>1. t = [s EXCEPT !.presented[st] = NoBatch, !.accepted[st] = b,
                      !.last[st] = b, !.taken = @ + Len(b.rows)]
    BY <1>4 DEF OfferBatch
  <2>2. /\ t.queue = s.queue /\ t.acc = s.acc /\ t.output = s.output /\ t.op = s.op
        /\ t.miss = s.miss /\ t.retiring = s.retiring /\ t.generation = s.generation
        /\ t.accepted = [s.accepted EXCEPT ![st] = b] /\ t.last = [s.last EXCEPT ![st] = b]
        /\ t.presented = [s.presented EXCEPT ![st] = NoBatch]
    BY <1>1, <2>1 DEF BGAType
  <2>3. /\ st \in Stream /\ b.generation = s.generation /\ b.sequence # 0
        /\ s.accepted[st] = NoBatch
        /\ s.presented[st] # NoBatch => s.presented[st] = b
        /\ s.presented[st] = NoBatch => b.sequence = s.last[st].sequence + 1
    BY <1>4 DEF OfferResult, WellFormed
  <2>4. b.sequence = s.last[st].sequence + 1 BY <1>1, <2>3 DEF StreamInv, BatchesInOrder
  <2>5. /\ s.accepted \in [Stream -> Batch] /\ s.last \in [Stream -> Batch]
        /\ s.presented \in [Stream -> Batch]
    BY <1>1 DEF BGAType
  <2> HIDE DEF t
  <2>6. /\ t.accepted[st] = b /\ t.last[st] = b /\ t.presented[st] = NoBatch
        /\ \A y \in Stream : y # st => /\ t.accepted[y] = s.accepted[y]
                                       /\ t.last[y] = s.last[y]
                                       /\ t.presented[y] = s.presented[y]
    BY <2>2, <2>3, <2>5
  <2>7. b \in Batch BY <1>1, <2>3, <2>6 DEF BGAType
  <2>8. /\ \A p \in Added(s, h) \cup CurrentProducts(s) \cup QueuedProducts(s) :
             p.generation = s.generation /\ p.stream = st => p.sequence < b.sequence
        /\ b.sequence \in Nat
    BY <2>3, <2>5, <2>7, <1>1, <1>3, <2>4 DEF Batch, StreamInv, BatchesInOrder
  <2>9. /\ Added(t, h) = Added(s, h) /\ CurrentProducts(t) = CurrentProducts(s)
        /\ QueuedProducts(t) = QueuedProducts(s)
    <3>1. SameValues(s, t) BY <2>2 DEF SameValues, LiveSlots, Records
    <3>2. Added(t, h) = Added(s, h) BY <3>1, SameValuesFacts DEF Added
    <3> QED BY <2>2, <3>2 DEF CurrentProducts, QueuedProducts
  <2>10. BatchesInOrder(t, h)
    <3>1. ASSUME NEW p \in Added(t, h) \cup CurrentProducts(t) \cup QueuedProducts(t),
                 p.generation = t.generation
          PROVE  /\ p.sequence <= t.last[p.stream].sequence
                 /\ t.accepted[p.stream] # NoBatch => p.sequence < t.last[p.stream].sequence
      <4>1. CASE p.stream = st
        BY <1>3, <2>2, <2>8, <2>9, <3>1, <4>1, <2>6
      <4>2. CASE p.stream # st
        BY <1>1, <1>3, <2>2, <2>6, <2>9, <3>1, <4>2 DEF StreamInv, BatchesInOrder
      <4> QED BY <4>1, <4>2
    <3>2. ASSUME NEW y \in Stream
          PROVE  /\ t.accepted[y] # NoBatch =>
                      t.accepted[y] = t.last[y] /\ t.accepted[y].generation = t.generation
                 /\ t.presented[y] # NoBatch => t.presented[y].sequence = t.last[y].sequence + 1
      <4>1. CASE y = st BY <2>2, <2>3, <2>6, <4>1
      <4>2. CASE y # st BY <1>1, <2>2, <2>6, <4>2 DEF StreamInv, BatchesInOrder
      <4> QED BY <4>1, <4>2
    <3> QED BY <3>1, <3>2 DEF BatchesInOrder
  <2>11. /\ OrderInv(t, h) /\ QueuedProducts(t) = QueuedProducts(s)
         /\ CurrentProducts(t) = CurrentProducts(s) /\ Inside(t) = Inside(s)
    BY <1>2, <2>2, <2>10 DEF t
  <2>12. AcceptedProducts(t) = AcceptedProducts(s) \cup new
    <3>1. Range(Contributions(t.accepted[st])) = new BY <2>6
    <3>2. Range(Contributions(s.accepted[st])) = {} BY <2>3, ProductsOfNoBatch
    <3>3. \A y \in Stream : y # st =>
            Range(Contributions(t.accepted[y])) = Range(Contributions(s.accepted[y]))
      BY <2>6
    <3> HIDE DEF new
    <3> QED BY <2>3, <3>1, <3>2, <3>3 DEF AcceptedProducts
  <2>13. Held(t) = Held(s) \cup new BY <2>11, <2>12, HeldParts
  <2>14. ASSUME NEW p \in new PROVE p \notin HandedProducts(h)
    BY <2>3, <2>7, ProductsOfBatch, <2>8 DEF Added
  <2> HIDE DEF new
  <2>15. OrderInv(t, h) /\ Held(s) \subseteq Held(t)
         /\ (Held(t) \ Held(s)) \cap HandedProducts(h) = {}
    BY <2>11, <2>13, <2>14
  <2> QED BY <2>15 DEF t
<1>5. CASE OfferResult(s, b) = "BACKPRESSURE"
  <2>1. t = [s EXCEPT !.presented[st] = b] BY <1>5 DEF OfferBatch
  <2>2. /\ t.queue = s.queue /\ t.acc = s.acc /\ t.output = s.output /\ t.op = s.op
        /\ t.miss = s.miss /\ t.retiring = s.retiring /\ t.generation = s.generation
        /\ t.accepted = s.accepted /\ t.last = s.last
        /\ t.presented = [s.presented EXCEPT ![st] = b]
    BY <1>1, <2>1 DEF BGAType
  <2>3. /\ st \in Stream
        /\ s.presented[st] # NoBatch => s.presented[st] = b
        /\ s.presented[st] = NoBatch => b.sequence = s.last[st].sequence + 1
    BY <1>5 DEF OfferResult, WellFormed
  <2>4. b.sequence = s.last[st].sequence + 1 BY <1>1, <2>3 DEF StreamInv, BatchesInOrder
  <2>5. s.presented \in [Stream -> Batch] BY <1>1 DEF BGAType
  <2> HIDE DEF t
  <2>6. t.presented[st] = b /\ \A y \in Stream : y # st => t.presented[y] = s.presented[y]
    BY <2>2, <2>3, <2>5
  <2>7. /\ Added(t, h) = Added(s, h) /\ CurrentProducts(t) = CurrentProducts(s)
        /\ QueuedProducts(t) = QueuedProducts(s)
    <3>1. SameValues(s, t) BY <2>2 DEF SameValues, LiveSlots, Records
    <3>2. Added(t, h) = Added(s, h) BY <3>1, SameValuesFacts DEF Added
    <3> QED BY <2>2, <3>2 DEF CurrentProducts, QueuedProducts
  <2>8. BatchesInOrder(t, h)
    BY <1>1, <2>2, <2>4, <2>6, <2>7 DEF StreamInv, BatchesInOrder
  <2>9. /\ OrderInv(t, h) /\ QueuedProducts(t) = QueuedProducts(s)
        /\ CurrentProducts(t) = CurrentProducts(s) /\ Inside(t) = Inside(s)
    BY <1>2, <2>2, <2>8 DEF t
  <2>10. Held(t) = Held(s)
    <3>1. AcceptedProducts(t) = AcceptedProducts(s) BY <2>2 DEF AcceptedProducts
    <3> QED BY <2>9, <3>1, HeldParts
  <2> QED BY <2>9, <2>10 DEF t
<1>6. CASE OfferResult(s, b) \notin {"ACCEPTED", "BACKPRESSURE"} BY <1>6 DEF OfferBatch
<1> QED BY <1>4, <1>5, <1>6

\* All that is held is of this generation.
LEMMA HeldGeneration ==
  ASSUME NEW s, NEW h \in Seq(HandedRecord), OrderInv(s, h)
  PROVE  \A p \in Held(s) : p \in Contribution /\ p.generation = s.generation
<1>1. s \in BGAType /\ StreamInv(s, h) BY DEF OrderInv, DatapathInv
<1>2. Held(s) \subseteq Contribution BY <1>1, HeldParts, ProductTypes
<1>3. \A p \in Inside(s) \cup CurrentProducts(s) : p.generation = s.generation
  BY <1>1 DEF StreamInv, GenerationsAgree
<1>4. ASSUME NEW p \in QueuedProducts(s) PROVE p.generation = s.generation
  <2>1. PICK st \in Stream : p \in Range(s.queue[st]) BY DEF QueuedProducts
  <2>2. s.queue[st] \in Seq(Contribution) BY <1>1 DEF BGAType
  <2>3. PICK i \in 1 .. Len(s.queue[st]) : p = s.queue[st][i] BY <2>1, <2>2, RangeOfValue
  <2> QED BY <1>1, <2>3 DEF StreamInv, QueueInOrder
<1>5. ASSUME NEW p \in AcceptedProducts(s) PROVE p.generation = s.generation
  <2>1. PICK st \in Stream : p \in Range(Contributions(s.accepted[st])) BY DEF AcceptedProducts
  <2> QED BY <2>1, AcceptedComesLast
<1> QED BY <1>2, <1>3, <1>4, <1>5, HeldParts

\* What the owner accepts is one row's sum, and precedes all the rest of its row and
\* streams, handed out before it or not.
LEMMA AcceptKeepsOrder ==
  ASSUME NEW s, NEW h \in Seq(HandedRecord), OrderInv(s, h),
         s.output # <<>>, ~s.retiring, NEW record \in HandedRecord,
         record.row = s.output[1].row, record.value = s.output[1].value
  PROVE  LET t     == AcceptOutput(s)
             parts == Range(record.value)
         IN  /\ OrderInv(t, Append(h, record))
             /\ parts # {} /\ parts \subseteq Held(s)
             /\ \A p \in parts : p.row = record.row
             /\ Held(t) = Held(s) \ parts
             /\ \A p \in Held(s) \ parts, q \in parts :
                  p.stream = q.stream /\ p.row = q.row => Precedes(q, p)
<1> DEFINE t == AcceptOutput(s)
           parts == Range(record.value)
           g == Append(h, record)
           n == Len(s.output)
           m == Len(h)
<1>1. /\ DatapathInv(s) /\ s \in BGAType /\ StreamInv(s, h) /\ ValueInv(s, h)
      /\ n \in Nat \ {0} /\ s.output[1].value = record.value
  BY FrontFacts DEF OrderInv, DatapathInv
<1>2. DatapathInv(t) BY <1>1, AcceptKeepsInv
<1>3. /\ t.acc = s.acc /\ t.output = s.output /\ t.op = s.op /\ t.miss = s.miss
      /\ SameInputs(s, t) /\ t.retiring = TRUE
  BY <1>1 DEF AcceptOutput, BGAType, SameInputs
<1> HIDE DEF t
<1>4. /\ Records(s) = Records(t) \cup {1} /\ 1 \in Records(s) /\ 1 \notin Records(t)
      /\ LiveSlots(t) = LiveSlots(s)
  BY <1>1, <1>3 DEF Records, LiveSlots
<1> HIDE DEF n
<1>5. /\ record.value \in Seq(Contribution) /\ parts \subseteq Contribution
      /\ parts = {record.value[i] : i \in 1 .. Len(record.value)}
      /\ SumInOrder(record.value, record.row)
  <2>1. record.value \in Seq(Contribution) BY DEF HandedRecord
  <2>2. SumInOrder(record.value, record.row) BY <1>1, <1>4 DEF ValueInv, SumsInOrder
  <2> QED BY <2>1, <2>2, RangeOfValue
<1>6. parts # {} /\ \A p \in parts : p.row = record.row
  <2>1. Len(record.value) \in Nat \ {0} BY <1>5, EmptySeq DEF SumInOrder
  <2>2. 1 \in 1 .. Len(record.value) BY <2>1
  <2> HIDE DEF parts
  <2> QED BY <1>5, <2>2 DEF SumInOrder
<1>7. RecordProducts(s) = RecordProducts(t) \cup parts BY <1>1, <1>3, <1>4 DEF RecordProducts
<1>8. EntryProducts(t) = EntryProducts(s) BY <1>3, <1>4 DEF EntryProducts
<1>9. /\ CurrentProducts(t) = CurrentProducts(s) /\ QueuedProducts(t) = QueuedProducts(s)
      /\ AcceptedProducts(t) = AcceptedProducts(s)
  BY <1>3 DEF CurrentProducts, QueuedProducts, AcceptedProducts, SameInputs
<1>10. /\ g \in Seq(HandedRecord) /\ m \in Nat /\ Len(g) = m + 1 /\ g[m + 1] = record
       /\ \A i \in 1 .. m : g[i] = h[i]
  BY AppendProperties, LenProperties
<1>11. \A i \in 1 .. Len(g) : i \in 1 .. m \/ i = m + 1 BY <1>10
<1> HIDE DEF parts, g, m
<1>12. HandedProducts(g) = HandedProducts(h) \cup parts
  BY <1>10 DEF parts, HandedProducts, m
<1>13. /\ Inside(s) = Inside(t) \cup parts /\ Added(t, g) = Added(s, h)
  BY <1>7, <1>8, <1>12 DEF Inside, Added
<1>14. ASSUME NEW p \in Inside(t), NEW q \in parts PROVE p.row # q.row
  <2>1. \A i \in Records(t) : s.output[i].row # record.row BY <1>1, <1>4 DEF ValueInv, RowsApart
  <2>2. \A k \in LiveSlots(s) : s.acc[k].row # record.row BY <1>1, <1>4 DEF ValueInv, RowsApart
  <2>3. CASE p \in RecordProducts(t)
    <3>1. PICK i \in Records(t) : p \in Range(s.output[i].value)
      BY <1>3, <2>3 DEF RecordProducts
    <3>2. s.output[i].value \in Seq(Contribution) /\ SumInOrder(s.output[i].value, s.output[i].row)
      BY <1>1, <1>4, ValueTypes DEF ValueInv, SumsInOrder
    <3>3. p.row = s.output[i].row BY <3>1, <3>2, RangeOfValue DEF SumInOrder
    <3> QED BY <1>6, <2>1, <3>3
  <2>4. CASE p \in EntryProducts(t)
    <3>0. p \in EntryProducts(s) BY <1>8, <2>4
    <3>1. PICK k \in LiveSlots(s) : p \in Range(s.acc[k].value) BY <3>0 DEF EntryProducts
    <3>2. s.acc[k].value \in Seq(Contribution) /\ SumInOrder(s.acc[k].value, s.acc[k].row)
      BY <1>1, ValueTypes DEF ValueInv, SumsInOrder
    <3>3. p.row = s.acc[k].row BY <3>1, <3>2, RangeOfValue DEF SumInOrder
    <3> QED BY <1>6, <2>2, <3>3
  <2> QED BY <2>3, <2>4 DEF Inside
<1>15. ASSUME NEW p \in CurrentProducts(s) \cup QueuedProducts(s) \cup AcceptedProducts(s),
              NEW q \in parts, p.stream = q.stream
       PROVE  Precedes(q, p)
  <2>1. q \in Added(s, h) BY <1>13 DEF Added
  <2>2. CASE p \in CurrentProducts(s) \cup QueuedProducts(s)
    BY <1>1, <1>15, <2>1, <2>2 DEF StreamInv, AddedFirst
  <2>3. CASE p \in AcceptedProducts(s)
    <3>1. PICK st \in Stream : p \in Range(Contributions(s.accepted[st]))
      BY <2>3 DEF AcceptedProducts
    <3> QED BY <1>15, <2>1, <3>1, AcceptedComesLast
  <2> QED BY <2>2, <2>3
<1>16. \A p \in parts : ~Precedes(p, p)
  <2>1. \A p \in parts : p.generation \in Nat /\ p.sequence \in Nat /\ p.index \in Nat
    BY <1>5 DEF Contribution
  <2> QED BY <2>1 DEF Precedes
<1>17. /\ Held(s) = Held(t) \cup parts /\ Held(t) \cap parts = {}
       /\ \A p \in Held(t), q \in parts : p.stream = q.stream /\ p.row = q.row => Precedes(q, p)
  <2> DEFINE rest == CurrentProducts(s) \cup QueuedProducts(s) \cup AcceptedProducts(s)
  <2>1. Held(t) = Inside(t) \cup rest /\ Held(s) = Inside(s) \cup rest BY <1>9, HeldParts
  <2> HIDE DEF rest
  <2>2. \A p \in rest, q \in parts : p.stream = q.stream => Precedes(q, p) BY <1>15 DEF rest
  <2>3. Held(t) \cap parts = {}
    BY <1>14, <1>16, <2>2, <2>1
  <2> QED BY <1>13, <1>14, <2>1, <2>2, <2>3
<1>18. StreamInv(t, g)
  <2>1. QueueInOrder(t) BY <1>1, <1>3 DEF StreamInv, QueueInOrder, SameInputs
  <2>2. AddedFirst(t, g) BY <1>1, <1>9, <1>13 DEF StreamInv, AddedFirst
  <2>3. GenerationsAgree(t, g)
    <3>1. \A p \in parts : p.generation <= s.generation
      BY <1>1, <1>13 DEF StreamInv, GenerationsAgree, BGAType
    <3> QED BY <1>1, <1>3, <1>9, <1>12, <1>13, <3>1 DEF StreamInv, GenerationsAgree, SameInputs
  <2>4. BatchesInOrder(t, g)
    BY <1>1, <1>3, <1>9, <1>13 DEF StreamInv, BatchesInOrder, SameInputs
  <2> QED BY <2>1, <2>2, <2>3, <2>4 DEF StreamInv
<1>19. ValueInv(t, g)
  <2>1. SumsInOrder(t, g)
    <3>1. \A i \in 1 .. Len(g) : SumInOrder(g[i].value, g[i].row)
      BY <1>1, <1>5, <1>10, <1>11 DEF ValueInv, SumsInOrder, m
    <3> QED BY <1>1, <1>3, <1>4, <3>1 DEF ValueInv, SumsInOrder
  <2>2. RowsApart(t) BY <1>1, <1>3, <1>4 DEF ValueInv, RowsApart
  <2>3. HandedFirst(t, g)
    <3>1. ASSUME NEW i \in 1 .. Len(g), NEW j \in 1 .. Len(g), i < j,
                 NEW p \in Range(g[i].value), NEW q \in Range(g[j].value),
                 p.row = q.row, p.stream = q.stream
          PROVE  Precedes(p, q)
      <4>1. i \in 1 .. m BY <1>10, <3>1
      <4>2. CASE j \in 1 .. m BY <1>1, <1>10, <3>1, <4>1, <4>2 DEF ValueInv, HandedFirst, m
      <4>3. CASE j = m + 1
        BY <1>10, <1>13, <3>1, <4>3, <4>1, <1>1 DEF parts, HandedProducts, m, ValueInv,
          HandedFirst
      <4> QED BY <1>11, <4>2, <4>3
    <3>2. ASSUME NEW p \in HandedProducts(g), NEW q \in Inside(t), p.row = q.row,
                 p.stream = q.stream
          PROVE  Precedes(p, q)
      BY <1>12, <1>14, <3>2, <1>1, <1>13 DEF ValueInv, HandedFirst
    <3> QED BY <3>1, <3>2 DEF HandedFirst
  <2> QED BY <2>1, <2>2, <2>3 DEF ValueInv
<1>20. Held(t) = Held(s) \ parts /\ parts \subseteq Held(s) BY <1>17
<1> QED BY <1>2, <1>6, <1>17, <1>18, <1>19, <1>20 DEF OrderInv, t, parts, g

\* The records handed out are in order among themselves.
HandedInOrder(h) ==
  /\ \A i \in 1 .. Len(h) : SumInOrder(h[i].value, h[i].row)
  /\ \A i, j \in 1 .. Len(h) : i < j =>
       \A p \in Range(h[i].value), q \in Range(h[j].value) :
         p.row = q.row /\ p.stream = q.stream => Precedes(p, q)

\* A state with nothing in it, of a generation nothing was handed out from yet.
LEMMA EmptyStateOrder ==
  ASSUME NEW s, NEW h, DatapathInv(s), s.op = NoOperation, s.miss = NoMiss,
         s.output = <<>>, ~s.retiring, s.acc = [k \in Slot |-> FreeEntry],
         s.queue = [st \in Stream |-> <<>>],
         s.presented = [st \in Stream |-> NoBatch],
         s.accepted = [st \in Stream |-> NoBatch],
         \A p \in HandedProducts(h) : p.generation <= s.generation /\ p.generation # s.generation,
         HandedInOrder(h)
  PROVE  OrderInv(s, h) /\ Held(s) = {}
<1>1. LiveSlots(s) = {} BY DEF LiveSlots, FreeEntry
<1>2. Records(s) = {} BY EmptySeq DEF Records
<1>3. Inside(s) = {} BY <1>1, <1>2 DEF Inside, RecordProducts, EntryProducts
<1>4. CurrentProducts(s) = {} BY DEF CurrentProducts, NoMiss
<1>5. \A st \in Stream : Len(s.queue[st]) = 0 /\ 1 .. Len(s.queue[st]) = {} BY EmptySeq
<1>6. QueuedProducts(s) = {}
  BY ProductsOfNoBatch DEF QueuedProducts
<1>7. AcceptedProducts(s) = {} BY ProductsOfNoBatch DEF AcceptedProducts
<1>8. Held(s) = {} BY <1>3, <1>4, <1>6, <1>7, HeldParts
<1>9. QueueInOrder(s) BY <1>5 DEF QueueInOrder
<1>10. AddedFirst(s, h) /\ GenerationsAgree(s, h)
  BY <1>3, <1>4, <1>6 DEF AddedFirst, GenerationsAgree
<1>11. BatchesInOrder(s, h) BY <1>3, <1>4, <1>6 DEF BatchesInOrder, Added
<1>12. ValueInv(s, h)
  BY <1>1, <1>2, <1>3 DEF ValueInv, SumsInOrder, RowsApart, HandedFirst, HandedInOrder
<1> QED BY <1>8, <1>9, <1>10, <1>11, <1>12 DEF OrderInv, StreamInv

\* A reset empties the state and starts a later generation.
LEMMA AbortKeepsOrder ==
  ASSUME NEW s, NEW h \in Seq(HandedRecord), OrderInv(s, h), NEW g \in Nat \ {0},
         g > s.generation
  PROVE  OrderInv(AbortReset(s, g), h) /\ Held(AbortReset(s, g)) = {}
<1> DEFINE t == AbortReset(s, g)
<1>1. DatapathInv(t) /\ s \in BGAType BY AbortKeepsInv DEF OrderInv, DatapathInv
<1>2. /\ t.generation = g /\ t.op = NoOperation /\ t.miss = NoMiss
      /\ t.output = <<>> /\ t.retiring = FALSE
      /\ t.acc = [k \in Slot |-> FreeEntry] /\ t.queue = [st \in Stream |-> <<>>]
      /\ t.presented = [st \in Stream |-> NoBatch]
      /\ t.accepted = [st \in Stream |-> NoBatch]
  BY DEF AbortReset, BGAInit
<1> HIDE DEF t
<1>3. ASSUME NEW p \in HandedProducts(h)
      PROVE  p.generation <= g /\ p.generation # g
  BY <1>1, HandedTypes DEF OrderInv, StreamInv, GenerationsAgree, Contribution, BGAType
<1>4. HandedInOrder(h) BY DEF OrderInv, ValueInv, SumsInOrder, HandedFirst, HandedInOrder
<1>5. OrderInv(t, h) /\ Held(t) = {} BY <1>1, <1>2, <1>3, <1>4, EmptyStateOrder
<1> QED BY <1>5 DEF t

-----------------------------------------------------------------------------
(* The invariant of the specification                                      *)

\* The datapath invariant with every product counted, and the order invariant.
LedgerInv ==
  /\ ConservedInv(bga) /\ OrderInv(bga, handed)
  /\ handed \in Seq(HandedRecord)

\* The ledger's view of what was handed out.
HandedParts(h) ==
  [i \in 1 .. Len(h) |-> [row |-> h[i].row, parts |-> Range(h[i].value)]]

\* Nothing held, nothing handed out.
LEMMA LedgerInvInit == Init => LedgerInv /\ Ledger!LedgerInit
<1> SUFFICES ASSUME Init PROVE LedgerInv /\ Ledger!LedgerInit OBVIOUS
<1>1. bga = BGAInit /\ handed = <<>> /\ ConservedInv(bga)
  BY ConservingInit DEF Init, ConservingInv
<1>2. handed \in Seq(HandedRecord) /\ Len(handed) = 0 /\ 1 .. Len(handed) = {} BY <1>1, EmptySeq
<1>3. HandedProducts(handed) = {} /\ HandedInOrder(handed)
  BY <1>2 DEF HandedProducts, HandedInOrder
<1>4. OrderInv(bga, handed) /\ Held(bga) = {}
  BY <1>1, <1>3, EmptyStateOrder DEF BGAInit, ConservedInv
<1>5. Ledger!LedgerInit
  BY <1>2, <1>4 DEF Ledger!LedgerInit
<1> QED BY <1>1, <1>2, <1>4, <1>5 DEF LedgerInv

\* The products of the ledger's records are those of the records handed out.
LEMMA HandedPartsFacts ==
  ASSUME NEW h \in Seq(HandedRecord)
  PROVE  /\ Len(HandedParts(h)) = Len(h) /\ Len(h) \in Nat
         /\ HandedProducts(h) = UNION {HandedParts(h)[i].parts : i \in 1 .. Len(HandedParts(h))}
         /\ \A record \in HandedRecord :
              HandedParts(Append(h, record))
                = Append(HandedParts(h), [row |-> record.row, parts |-> Range(record.value)])
<1>1. Len(h) \in Nat /\ Len(HandedParts(h)) = Len(h) BY LenProperties DEF HandedParts
<1>2. \A i \in 1 .. Len(h) : HandedParts(h)[i].parts = Range(h[i].value) BY DEF HandedParts
<1>3. HandedProducts(h) = UNION {HandedParts(h)[i].parts : i \in 1 .. Len(HandedParts(h))}
  BY <1>1, <1>2 DEF HandedProducts
<1>4. ASSUME NEW record \in HandedRecord
      PROVE  HandedParts(Append(h, record))
               = Append(HandedParts(h), [row |-> record.row, parts |-> Range(record.value)])
  <2> DEFINE n == Len(h)
             g == Append(h, record)
             f(r) == [row |-> r.row, parts |-> Range(r.value)]
             S == {f(r) : r \in HandedRecord}
             left == HandedParts(g)
             right == Append(HandedParts(h), f(record))
  <2>1. /\ n \in Nat /\ g \in Seq(HandedRecord) /\ Len(g) = n + 1 /\ g[n + 1] = record
        /\ \A i \in 1 .. n : g[i] = h[i]
    BY <1>1, AppendProperties
  <2>2. \A i \in 1 .. n : h[i] \in HandedRecord BY ElementOfSeq
  <2>3. /\ HandedParts(h) = [i \in 1 .. n |-> f(h[i])]
        /\ left = [i \in 1 .. Len(g) |-> f(g[i])]
    BY DEF HandedParts
  <2>4. \A r \in HandedRecord : f(r) \in S OBVIOUS
  <2> HIDE DEF f, S, left, g
  <2>5. \A i \in 1 .. n + 1 : i \in 1 .. n \/ i = n + 1 BY <2>1
  <2>6. HandedParts(h) \in [1 .. n -> S] /\ left \in [1 .. n + 1 -> S]
    BY <2>1, <2>2, <2>3, <2>4, <2>5
  <2> HIDE DEF n
  <2>7. n + 1 \in Nat BY <2>1
  <2>8. HandedParts(h) \in Seq(S) /\ left \in Seq(S) BY <2>1, <2>6, <2>7, SeqDef
  <2>9. Len(HandedParts(h)) = n /\ Len(left) = n + 1 BY <1>1, <2>1, <2>3, <2>7 DEF n
  <2>10. f(record) \in S BY <2>4
  <2>11. /\ right \in Seq(S) /\ Len(right) = n + 1
         /\ \A i \in 1 .. n : right[i] = HandedParts(h)[i]
         /\ right[n + 1] = f(record)
    BY <2>8, <2>9, <2>10, AppendProperties
  <2> HIDE DEF right
  <2>12. \A i \in 1 .. n + 1 : left[i] = right[i]
    BY <2>1, <2>3, <2>11, <2>5
  <2>13. left = right BY <2>8, <2>9, <2>11, <2>12, SeqEqual
  <2> QED BY <2>13 DEF left, right, g, f
<1> QED BY <1>1, <1>3, <1>4

\* Calls that only set flags.
LEMMA FlagCallKeepsOrder ==
  ASSUME NEW s, NEW h \in Seq(HandedRecord), OrderInv(s, h), NEW t,
         t = RequestFinalDrain(s) \/ \E st \in Stream : t = MarkProducerDone(s, st)
  PROVE  OrderInv(t, h) /\ Held(t) = Held(s)
<1>1. DatapathInv(s) /\ s \in BGAType BY DEF OrderInv, DatapathInv
<1>2. DatapathInv(t) BY <1>1, RequestDrainKeepsInv, ProducerDoneKeepsInv
<1>3. /\ t.queue = s.queue /\ t.accepted = s.accepted /\ t.presented = s.presented
      /\ t.last = s.last /\ t.generation = s.generation /\ t.acc = s.acc
      /\ t.output = s.output /\ t.op = s.op /\ t.miss = s.miss /\ t.retiring = s.retiring
  <2>1. CASE t = RequestFinalDrain(s) BY <1>1, <2>1 DEF RequestFinalDrain, BGAType
  <2>2. ASSUME NEW st \in Stream, t = MarkProducerDone(s, st)
        PROVE  /\ t.queue = s.queue /\ t.accepted = s.accepted /\ t.presented = s.presented
               /\ t.last = s.last /\ t.generation = s.generation /\ t.acc = s.acc
               /\ t.output = s.output /\ t.op = s.op /\ t.miss = s.miss
               /\ t.retiring = s.retiring
    BY <1>1, <2>2 DEF MarkProducerDone, BGAType
  <2> QED BY <2>1, <2>2
<1>4. SameInputs(s, t) BY <1>3 DEF SameInputs
<1>5. SameValues(s, t) BY <1>3 DEF SameValues, LiveSlots, Records
<1>6. CurrentProducts(t) = CurrentProducts(s) BY <1>3 DEF CurrentProducts
<1> QED BY <1>2, <1>4, <1>5, <1>6, QuietKeepsOrder

\* Within one generation the ledger's order is Precedes, which nothing is in with
\* something that precedes it.
LEMMA BeforeIsPrecedes ==
  ASSUME NEW p \in Contribution, NEW q \in Contribution, p.generation = q.generation,
         Precedes(q, p)
  PROVE  ~Ledger!Before(p, q)
<1>1. /\ p.generation \in Nat /\ p.sequence \in Nat /\ p.index \in Nat
      /\ q.generation \in Nat /\ q.sequence \in Nat /\ q.index \in Nat
  BY DEF Contribution
<1> QED BY <1>1 DEF Precedes, Ledger!Before

\* Accepting a record keeps the invariant, and is a record of the ledger handed out.
LEMMA AcceptIsHandOut ==
  ASSUME LedgerInv, Accept
  PROVE  /\ OrderInv(bga, handed)' /\ handed' \in Seq(HandedRecord)
         /\ \E parts \in SUBSET Held(bga) : Ledger!HandOut(parts)
<1> DEFINE record == [row |-> Head(bga.output).row, value |-> Head(bga.output).value]
           parts == Range(record.value)
<1>1. /\ bga \in BGAType /\ OrderInv(bga, handed) /\ handed \in Seq(HandedRecord)
      /\ bga.output # <<>> /\ ~bga.retiring /\ bga' = AcceptOutput(bga)
      /\ handed' = Append(handed, record)
  BY DEF LedgerInv, OrderInv, DatapathInv, Accept
<1>2. /\ record \in HandedRecord
      /\ record.row = bga.output[1].row /\ record.value = bga.output[1].value
  BY <1>1, FrontFacts DEF HandedRecord, Record
<1> HIDE DEF record
<1>3. /\ OrderInv(AcceptOutput(bga), Append(handed, record))
      /\ parts # {} /\ parts \subseteq Held(bga)
      /\ \A p \in parts : p.row = record.row
      /\ Held(AcceptOutput(bga)) = Held(bga) \ parts
      /\ \A p \in Held(bga) \ parts, q \in parts :
           p.stream = q.stream /\ p.row = q.row => Precedes(q, p)
  BY <1>1, <1>2, AcceptKeepsOrder
<1>4. handed' \in Seq(HandedRecord) BY <1>1, <1>2, AppendProperties
<1>5. HandedParts(handed')
        = Append(HandedParts(handed), [row |-> record.row, parts |-> Range(record.value)])
  BY <1>1, <1>2, HandedPartsFacts
<1> HIDE DEF parts
<1>6. \A p \in Held(bga) \ parts, q \in parts : ~Ledger!Before(p, q)
  <2> SUFFICES ASSUME NEW p \in Held(bga) \ parts, NEW q \in parts, Ledger!Before(p, q)
               PROVE  FALSE
    OBVIOUS
  <2>1. /\ p \in Contribution /\ q \in Contribution /\ p.generation = q.generation
    BY <1>3, <1>1, HeldGeneration
  <2>2. Precedes(q, p) BY <1>3 DEF Ledger!Before
  <2> QED BY <2>1, <2>2, BeforeIsPrecedes
<1>7. (CHOOSE p \in parts : TRUE).row = record.row
  BY <1>3, Zenon
<1>8. HandedParts(handed')
        = Append(HandedParts(handed), [row |-> (CHOOSE p \in parts : TRUE).row, parts |-> parts])
  BY <1>5, <1>7 DEF parts
<1>9. Held(bga)' = Held(bga) \ parts BY <1>1, <1>3
<1>10. \A p, q \in parts : p.row = q.row BY <1>3
<1>11. OrderInv(bga, handed)' BY <1>1, <1>3
<1>12. \E some \in SUBSET Held(bga) : Ledger!HandOut(some)
  BY <1>3, <1>6, <1>8, <1>9, <1>10 DEF Ledger!HandOut, HandedParts
<1> QED BY <1>4, <1>11, <1>12

\* Every step keeps the invariant, and is a step of the ledger or changes nothing of it.
LEMMA LedgerStep ==
  LedgerInv /\ [Next]_vars => LedgerInv' /\ [Ledger!LedgerNext]_(Ledger!ledgerVars)
<1> SUFFICES ASSUME LedgerInv, [Next]_vars
             PROVE  LedgerInv' /\ [Ledger!LedgerNext]_(Ledger!ledgerVars)
  OBVIOUS
<1>1. /\ ConservedInv(bga) /\ OrderInv(bga, handed) /\ handed \in Seq(HandedRecord)
      /\ bga \in BGAType
  BY DEF LedgerInv, OrderInv, DatapathInv
<1>2. ConservedInv(bga')
  BY <1>1, ConservingNext DEF ConservingInv, HandedRecord
<1>3. ASSUME OrderInv(bga', handed), Held(bga') = Held(bga), UNCHANGED handed
      PROVE  LedgerInv' /\ [Ledger!LedgerNext]_(Ledger!ledgerVars)
  BY <1>1, <1>2, <1>3 DEF LedgerInv, Ledger!ledgerVars
<1>4. CASE UNCHANGED vars BY <1>1, <1>3, <1>4 DEF vars
<1>5. ASSUME NEW b \in Offers, Offer(b)
      PROVE  LedgerInv' /\ [Ledger!LedgerNext]_(Ledger!ledgerVars)
  <2>1. b \in [stream : Nat, generation : Nat, sequence : Nat, rows : Seq(Nat)]
    BY OffersAssumption
  <2>2. /\ OrderInv(bga', handed) /\ Held(bga) \subseteq Held(bga')
        /\ (Held(bga') \ Held(bga)) \cap HandedProducts(handed) = {}
    BY <1>1, <1>5, <2>1, OfferKeepsOrder DEF Offer
  <2>3. UNCHANGED handed BY <1>5 DEF Offer
  <2>4. LedgerInv' BY <1>1, <1>2, <2>2, <2>3 DEF LedgerInv
  <2>5. Held(bga') \subseteq Contribution BY <1>1, <2>2, HeldGeneration
  <2>6. Ledger!Given = HandedProducts(handed)
    BY <1>1, HandedPartsFacts DEF Ledger!Given, HandedParts
  <2>7. Ledger!Take(Held(bga') \ Held(bga)) BY <2>2, <2>3, <2>5, <2>6 DEF Ledger!Take
  <2> QED BY <2>4, <2>7 DEF Ledger!LedgerNext
<1>6. ASSUME NEW st \in Stream, ProducerDone(st)
      PROVE  LedgerInv' /\ [Ledger!LedgerNext]_(Ledger!ledgerVars)
  BY <1>1, <1>3, <1>6, FlagCallKeepsOrder DEF ProducerDone
<1>7. CASE RequestDrain BY <1>1, <1>3, <1>7, FlagCallKeepsOrder DEF RequestDrain
<1>8. CASE Accept BY <1>2, <1>8, AcceptIsHandOut DEF LedgerInv, Ledger!LedgerNext
<1>9. ASSUME NEW g \in 1 .. MaxGeneration, Abort(g)
      PROVE  LedgerInv' /\ [Ledger!LedgerNext]_(Ledger!ledgerVars)
  <2>1. g \in Nat \ {0} BY OffersAssumption
  <2>2. OrderInv(bga', handed) /\ Held(bga') = {} /\ UNCHANGED handed
    BY <1>1, <1>9, <2>1, AbortKeepsOrder DEF Abort
  <2>3. LedgerInv' BY <1>1, <1>2, <2>2 DEF LedgerInv
  <2>4. Ledger!Discard BY <2>2 DEF Ledger!Discard
  <2> QED BY <2>3, <2>4 DEF Ledger!LedgerNext
<1>10. CASE Tick BY <1>1, <1>3, <1>10, StepKeepsOrder DEF Tick
<1> QED BY <1>4, <1>5, <1>6, <1>7, <1>8, <1>9, <1>10 DEF Next

\* The accumulator implements the ledger: a product is taken over once, however often
\* its batch is presented, and handed out at most once, in a record of its own row,
\* never ahead of an earlier one of its stream and row.
THEOREM LedgerImplemented == Spec => ImplementsLedger
<1> QED BY LedgerInvInit, LedgerStep, PTL DEF Spec, ImplementsLedger, Ledger!LedgerSpec

-----------------------------------------------------------------------------
(* The order of additions, over everything added so far                    *)

\* The place i of three sequences in a row is a place of one of them.
PlaceOf(a, b, c, i) ==
  \/ i \in 1 .. Len(a) /\ (a \o b \o c)[i] = a[i]
  \/ \E d \in 1 .. Len(b) : i = Len(a) + d /\ (a \o b \o c)[i] = b[d]
  \/ \E d \in 1 .. Len(c) : i = Len(a) + Len(b) + d /\ (a \o b \o c)[i] = c[d]

\* Every place is.
LEMMA ThreeParts ==
  ASSUME NEW S, NEW a \in Seq(S), NEW b \in Seq(S), NEW c \in Seq(S),
         NEW i \in 1 .. Len(a \o b \o c)
  PROVE  PlaceOf(a, b, c, i)
<1>1. Len(a) \in Nat /\ Len(b) \in Nat /\ Len(c) \in Nat BY LenProperties
<1>2. /\ a \o b \in Seq(S) /\ Len(a \o b) = Len(a) + Len(b)
      /\ \A d \in 1 .. Len(a) + Len(b) :
           (a \o b)[d] = IF d <= Len(a) THEN a[d] ELSE b[d - Len(a)]
  BY ConcatProperties
<1>3. /\ Len(a \o b \o c) = Len(a) + Len(b) + Len(c)
      /\ \A d \in 1 .. Len(a) + Len(b) + Len(c) :
           (a \o b \o c)[d] = IF d <= Len(a) + Len(b) THEN (a \o b)[d]
                              ELSE c[d - (Len(a) + Len(b))]
  BY <1>2, ConcatProperties
<1> DEFINE x == Len(a)
           y == Len(b)
           z == Len(c)
           abc == a \o b \o c
           ab == a \o b
<1>4. /\ \A d \in 1 .. x + y : ab[d] = IF d <= x THEN a[d] ELSE b[d - x]
      /\ \A d \in 1 .. x + y + z : abc[d] = IF d <= x + y THEN ab[d] ELSE c[d - (x + y)]
      /\ i \in 1 .. x + y + z /\ x \in Nat /\ y \in Nat /\ z \in Nat
  BY <1>1, <1>2, <1>3
<1> HIDE DEF x, y, z, abc, ab
<1>5. CASE i <= x BY <1>4, <1>5 DEF x, abc, PlaceOf
<1>6. CASE i > x /\ i <= x + y
  BY <1>4, <1>6 DEF x, y, abc, PlaceOf
<1>7. CASE i > x + y
  BY <1>4, <1>7 DEF x, y, z, abc, PlaceOf
<1> QED BY <1>4, <1>5, <1>6, <1>7

\* Two sums of different rows share no row; a sum in order is in order.
LEMMA SumRows ==
  ASSUME NEW u \in Seq(Contribution), NEW v \in Seq(Contribution), NEW r, NEW q,
         SumInOrder(u, r), SumInOrder(v, q), r # q,
         NEW m \in 1 .. Len(u), NEW n \in 1 .. Len(v)
  PROVE  u[m].row # v[n].row
BY DEF SumInOrder

\* What is added to a row is added in order, in one sum and from one sum to the next.
AddedInOrder(sums) ==
  \A i, j \in 1 .. Len(sums) :
    \A m \in 1 .. Len(sums[i]), n \in 1 .. Len(sums[j]) :
      /\ sums[i][m].row = sums[j][n].row /\ sums[i][m].stream = sums[j][n].stream
      /\ i < j \/ (i = j /\ m < n)
      => Precedes(sums[i][m], sums[j][n])

\* The invariant orders everything added.
LEMMA OrderOfAdditions == LedgerInv => AdditionOrder
<1> SUFFICES ASSUME LedgerInv PROVE AdditionOrder OBVIOUS
<1> DEFINE off == IF bga.retiring THEN 1 ELSE 0
           S == Seq(Contribution)
           a == [i \in 1 .. Len(handed) |-> handed[i].value]
           b == [i \in 1 .. Len(bga.output) - off |-> bga.output[i + off].value]
           c == [k \in 1 .. AccumulatorEntries |->
                   IF k - 1 \in LiveSlots(bga) THEN bga.acc[k - 1].value ELSE <<>>]
           sums == a \o b \o c
<1>1. /\ DatapathInv(bga) /\ bga \in BGAType /\ ValueInv(bga, handed)
      /\ handed \in Seq(HandedRecord)
  BY DEF LedgerInv, OrderInv, DatapathInv
<1>2. /\ Len(handed) \in Nat /\ Len(bga.output) \in Nat /\ AccumulatorEntries \in Nat
      /\ off \in 0 .. 1 /\ Len(bga.output) - off \in Nat
  BY <1>1, LenProperties, OutputFacts, FrontFacts, BGAConfigAssumption DEF DatapathInv,
    OutputExclusion
<1>3. \A i \in 1 .. Len(bga.output) - off : i + off \in Records(bga) BY <1>2 DEF Records
<1>4. \A k \in 1 .. AccumulatorEntries : k - 1 \in Slot BY <1>2 DEF Slot
<1>5. a \in Seq(S) /\ b \in Seq(S) /\ c \in Seq(S)
  <2>1. \A i \in 1 .. Len(handed) : handed[i].value \in S BY <1>1, HandedTypes
  <2>2. \A i \in 1 .. Len(bga.output) - off : bga.output[i + off].value \in S
    BY <1>1, <1>3, ValueTypes
  <2>3. \A k \in 1 .. AccumulatorEntries :
          (IF k - 1 \in LiveSlots(bga) THEN bga.acc[k - 1].value ELSE <<>>) \in S
    BY <1>1, ValueTypes, EmptySeq
  <2> HIDE DEF S, off
  <2>4. /\ a \in [1 .. Len(handed) -> S] /\ b \in [1 .. Len(bga.output) - off -> S]
        /\ c \in [1 .. AccumulatorEntries -> S]
    BY <2>1, <2>2, <2>3
  <2> HIDE DEF a, b, c
  <2>5. a \in Seq(S) BY <1>2, <2>4, SeqDef
  <2>6. b \in Seq(S) BY <1>2, <2>4, SeqDef
  <2>7. c \in Seq(S) BY <1>2, <2>4, SeqDef
  <2> QED BY <2>5, <2>6, <2>7
<1>6. /\ Len(a) = Len(handed) /\ Len(b) = Len(bga.output) - off
      /\ Len(c) = AccumulatorEntries
  BY <1>2
<1>7. /\ \A i \in 1 .. Len(a) : i \in 1 .. Len(handed) /\ a[i] = handed[i].value
      /\ \A i \in 1 .. Len(b) :
           i + off \in Records(bga) /\ b[i] = bga.output[i + off].value
      /\ \A k \in 1 .. Len(c) :
           /\ k - 1 \in LiveSlots(bga) => c[k] = bga.acc[k - 1].value
           /\ k - 1 \notin LiveSlots(bga) => c[k] = <<>>
  BY <1>3, <1>6
<1> DEFINE x == Len(a)
           y == Len(b)
<1>8. x \in Nat /\ y \in Nat /\ off \in Nat BY <1>2, <1>6
<1> HIDE DEF a, b, c, off, S
<1> SUFFICES AddedInOrder(sums) BY DEF AdditionOrder, AddedInOrder, Precedes, a, b, c, off
<1>9. SUFFICES ASSUME NEW i \in 1 .. Len(sums), NEW j \in 1 .. Len(sums),
                      NEW m \in 1 .. Len(sums[i]), NEW n \in 1 .. Len(sums[j]),
                      sums[i][m].row = sums[j][n].row,
                      sums[i][m].stream = sums[j][n].stream,
                      i < j \/ (i = j /\ m < n)
               PROVE  Precedes(sums[i][m], sums[j][n])
  BY DEF AddedInOrder
<1> DEFINE InA(w) == w \in 1 .. x /\ sums[w] = a[w]
           InB(w) == \E d \in 1 .. y : w = x + d /\ sums[w] = b[d]
           InC(w) == \E d \in 1 .. Len(c) : w = x + y + d /\ sums[w] = c[d]
<1>10. (InA(i) \/ InB(i) \/ InC(i)) /\ (InA(j) \/ InB(j) \/ InC(j))
  <2>1. ASSUME NEW w \in 1 .. Len(a \o b \o c) PROVE PlaceOf(a, b, c, w) BY <1>5, ThreeParts
  <2>2. \A w \in 1 .. Len(sums) : InA(w) \/ InB(w) \/ InC(w) BY <2>1 DEF PlaceOf
  <2> QED BY <2>2
<1> DEFINE p == sums[i][m]
           q == sums[j][n]
<1> HIDE DEF sums, x, y
<1>11. ASSUME NEW d \in 1 .. x
       PROVE  /\ d \in 1 .. Len(handed) /\ a[d] \in Seq(Contribution)
              /\ SumInOrder(a[d], handed[d].row)
  BY <1>1, <1>7, HandedTypes DEF x, ValueInv, SumsInOrder
<1>12. ASSUME NEW d \in 1 .. y
       PROVE  /\ d + off \in Records(bga) /\ b[d] \in Seq(Contribution)
              /\ SumInOrder(b[d], bga.output[d + off].row)
  BY <1>1, <1>7, ValueTypes DEF y, ValueInv, SumsInOrder
<1>13. ASSUME NEW d \in 1 .. Len(c), NEW e \in 1 .. Len(c[d])
       PROVE  /\ d - 1 \in LiveSlots(bga) /\ c[d] = bga.acc[d - 1].value
              /\ c[d] \in Seq(Contribution) /\ SumInOrder(c[d], bga.acc[d - 1].row)
  <2>1. d - 1 \in LiveSlots(bga)
    <3> SUFFICES ASSUME d - 1 \notin LiveSlots(bga) PROVE FALSE OBVIOUS
    <3>1. c[d] = <<>> /\ Len(<<>>) = 0 BY <1>7, EmptySeq
    <3>2. e \in 1 .. 0 BY <3>1
    <3> QED BY <3>2
  <2> QED BY <1>1, <1>7, <2>1, ValueTypes DEF ValueInv, SumsInOrder
<1>14. ASSUME NEW d, d \in 1 .. x, NEW e \in 1 .. Len(a[d])
       PROVE  a[d][e] \in HandedProducts(handed) /\ a[d][e] \in Range(handed[d].value)
  BY <1>7, <1>11, <1>14, RangeOfValue DEF x, HandedProducts
<1>15. ASSUME NEW d, d \in 1 .. y, NEW e \in 1 .. Len(b[d])
       PROVE  b[d][e] \in Inside(bga)
  BY <1>7, <1>12, <1>15, RangeOfValue DEF y, Inside, RecordProducts
<1>16. ASSUME NEW d, d \in 1 .. Len(c), NEW e \in 1 .. Len(c[d])
       PROVE  c[d][e] \in Inside(bga)
  BY <1>13, <1>16, RangeOfValue DEF Inside, EntryProducts
<1>17. CASE i = j
  <2>1. \E v, r : sums[i] = v /\ v \in Seq(Contribution) /\ SumInOrder(v, r)
    <3>1. CASE InA(i) BY <1>11, <3>1
    <3>2. CASE InB(i) BY <1>12, <3>2
    <3>3. CASE InC(i) BY <1>13, <3>3
    <3> QED BY <1>10, <3>1, <3>2, <3>3
  <2> QED BY <1>9, <1>17, <2>1 DEF SumInOrder
<1>18. CASE i < j
  <2>1. CASE InA(i) /\ InA(j)
    BY <1>14, <2>1, <1>11, <1>1, <1>9, <1>18 DEF ValueInv, HandedFirst
  <2>2. CASE InA(i) /\ (InB(j) \/ InC(j))
    <3>1. p \in HandedProducts(handed) BY <1>14, <2>2
    <3>2. q \in Inside(bga) BY <1>15, <1>16, <2>2
    <3> QED BY <1>1, <1>9, <3>1, <3>2 DEF ValueInv, HandedFirst
  <2>3. CASE InB(i) /\ InB(j)
    <3>1. PICK d \in 1 .. y : i = x + d /\ sums[i] = b[d] BY <2>3
    <3>2. PICK e \in 1 .. y : j = x + e /\ sums[j] = b[e] BY <2>3
    <3>3. d + off # e + off BY <1>8, <1>18, <3>1, <3>2 DEF y
    <3>4. bga.output[d + off].row # bga.output[e + off].row
      BY <1>1, <1>12, <3>3 DEF ValueInv, RowsApart
    <3>5. p.row # q.row BY SMTT(20), <1>12, <3>1, <3>2, <3>4, SumRows
    <3> QED BY <1>9, <3>5
  <2>4. CASE InB(i) /\ InC(j)
    <3>1. PICK d \in 1 .. y : i = x + d /\ sums[i] = b[d] BY <2>4
    <3>2. PICK e \in 1 .. Len(c) : j = x + y + e /\ sums[j] = c[e] BY <2>4
    <3>3. bga.output[d + off].row # bga.acc[e - 1].row
      BY <1>1, <1>12, <1>13, <3>2 DEF ValueInv, RowsApart
    <3>4. p.row # q.row BY SMTT(20), <1>12, <1>13, <3>1, <3>2, <3>3, SumRows
    <3> QED BY <1>9, <3>4
  <2>5. CASE InC(i) /\ InC(j)
    <3>1. PICK d \in 1 .. Len(c) : i = x + y + d /\ sums[i] = c[d] BY <2>5
    <3>2. PICK e \in 1 .. Len(c) : j = x + y + e /\ sums[j] = c[e] BY <2>5
    <3>3. d - 1 # e - 1 BY <1>8, <1>18, <3>1, <3>2
    <3>4. bga.acc[d - 1].row # bga.acc[e - 1].row
      BY <1>1, <1>13, <3>1, <3>2, <3>3 DEF DatapathInv, UniqueTags
    <3>5. p.row # q.row BY SMTT(20), <1>13, <3>1, <3>2, <3>4, SumRows
    <3> QED BY <1>9, <3>5
  <2>6. CASE (InB(i) \/ InC(i)) /\ InA(j)
    <3>1. j \in 1 .. x /\ i \in Nat /\ i > x BY <1>6, <1>8, <2>6 DEF y
    <3>2. x \in Nat /\ i < j BY <1>8, <1>18
    <3> HIDE DEF x, y
    <3> QED BY <3>1, <3>2
  <2>7. CASE InC(i) /\ InB(j)
    <3>1. PICK d \in 1 .. Len(c) : i = x + y + d BY <2>7
    <3>2. PICK e \in 1 .. y : j = x + e BY <2>7
    <3> QED BY <1>8, <1>18, <3>1, <3>2
  <2> QED BY <1>10, <2>1, <2>2, <2>3, <2>4, <2>5, <2>6, <2>7
<1> QED BY <1>9, <1>17, <1>18

\* The additions into one row follow the order each producer sent its products in,
\* within a sum and from one sum of the row to the next, for every size, latency,
\* set of offers and interleaving of calls; how streams interleave is not claimed.
THEOREM AdditionsInOrder == Spec => []AdditionOrder
<1> QED BY LedgerInvInit, LedgerStep, OrderOfAdditions, PTL DEF Spec
=============================================================================
