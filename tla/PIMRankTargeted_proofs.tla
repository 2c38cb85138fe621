----------------------- MODULE PIMRankTargeted_proofs -----------------------
(***************************************************************************)
(* Proofs about PIMRankTargeted, for every number of bank groups, mask and *)
(* generation: type correctness, exact ownership of the PIM blocks, the    *)
(* generations of outstanding operations, that nothing is left behind, and *)
(* that the rank implements TargetedExecution.                             *)
(***************************************************************************)
EXTENDS PIMRankTargeted, WellFoundedInduction, TLAPS

RankType ==
  [mode : Modes, cursor : LocalBGs, busy : SUBSET Blocks,
   pending : [LocalBGs -> MaybeOperation], active : [LocalBGs -> MaybeOperation],
   completion : [LocalBGs -> MaybeOperation], retired : [LocalBGs -> MaybeOperation],
   lifecycle : [LocalBGs -> Lifecycles], generation : [LocalBGs -> Generations]]

\* What holds of one bank group between two calls.
BGConsistent(r, bg) ==
  /\ r.active[bg] = None \/ r.completion[bg] = None
  /\ r.pending[bg] # None =>
       r.lifecycle[bg] = "RUNNING" /\ r.pending[bg].generation = r.generation[bg]
  /\ r.active[bg] # None => r.active[bg].generation = r.generation[bg]
  /\ r.completion[bg] # None => r.completion[bg].generation = r.generation[bg]
  /\ r.lifecycle[bg] \in {"FLUSHED", "ERROR"} => ~Outstanding(r, bg)

QuietMode(r) ==
  r.mode \in {"IDLE", "LEGACY_RANK_WIDE", "ERROR"} => \A bg \in LocalBGs : ~Outstanding(r, bg)

Consistent(r) ==
  /\ r \in RankType
  /\ r.busy = Owned(r)
  /\ \A bg \in LocalBGs : BGConsistent(r, bg)
  /\ QuietMode(r)

\* The inductive invariant.
IInv == Consistent(rank) /\ injections \in 0 .. MaxInjections

-----------------------------------------------------------------------------
(* Blocks.                                                                 *)

\* The blocks of an operation of a bank group are blocks of the rank.
LEMMA BlocksInRange ==
  ASSUME NEW bg \in LocalBGs, NEW op \in Identities
  PROVE  PhysicalBlocks(bg, op.mask) \subseteq Blocks
<1>1. bg \in Nat /\ bg < NumBGs /\ NumBGs \in Nat BY RankAssumption DEF LocalBGs
<1>2. op.mask \subseteq {0, 1}
  <2>1. op.mask \in Masks BY DEF Identities
  <2>2. op.mask \in SUBSET (0 .. 1) BY <2>1, RankAssumption
  <2> QED BY <2>2
<1>3. ASSUME NEW bit \in {0, 1} PROVE bg * 2 + bit \in Blocks BY <1>1 DEF Blocks
<1> QED BY <1>2, <1>3 DEF PhysicalBlocks

\* Only the active operations decide what is owned.
LEMMA OwnedFromActive ==
  ASSUME NEW r, NEW s, s.active = r.active
  PROVE  Owned(s) = Owned(r)
BY DEF Owned

-----------------------------------------------------------------------------
(* Every operator of the rank keeps it consistent.                         *)

\* The initial rank is consistent.
LEMMA InitConsistent == Consistent(RankInit)
<1>1. 0 \in LocalBGs /\ 0 \in Generations BY RankAssumption DEF LocalBGs, Generations
<1>2. RankInit \in RankType BY <1>1 DEF RankInit, RankType, Modes, Lifecycles, MaybeOperation
<1>3. RankInit.busy = Owned(RankInit) BY DEF RankInit, Owned
<1> QED BY <1>2, <1>3 DEF Consistent, BGConsistent, QuietMode, Outstanding, RankInit

\* Submission (submitBGTargetedOperation).
LEMMA SubmitConsistent ==
  ASSUME NEW r, Consistent(r), NEW bg \in LocalBGs, NEW op \in Identities, ~Stale(r, bg, op)
  PROVE  Consistent(SubmitBGTargetedOperation(r, bg, op))
<1> DEFINE s == SubmitBGTargetedOperation(r, bg, op)
<1>0. /\ r \in RankType /\ r.busy = Owned(r) /\ QuietMode(r)
      /\ \A b \in LocalBGs : BGConsistent(r, b)
  BY DEF Consistent
<1>1. op.generation \in Generations /\ op # None BY NoneAssumption DEF Identities
<1>2. CASE Admits(r, bg)
  <2>1. /\ s \in RankType
        /\ s.busy = r.busy /\ s.active = r.active /\ s.completion = r.completion
        /\ s.pending = [r.pending EXCEPT ![bg] = op]
        /\ s.lifecycle = [r.lifecycle EXCEPT ![bg] = "RUNNING"]
        /\ s.generation = [r.generation EXCEPT ![bg] = op.generation]
        /\ s.mode = "CSC_BG_TARGETED"
    BY <1>0, <1>1, <1>2
    DEF SubmitBGTargetedOperation, Adopt, RankType, Modes, Lifecycles, MaybeOperation
  <2> HIDE DEF s
  <2>2. s.busy = Owned(s) BY <1>0, <2>1, OwnedFromActive
  <2>3. ASSUME NEW b \in LocalBGs PROVE BGConsistent(s, b)
    <3>1. BGConsistent(r, b) BY <1>0
    <3>2. CASE b # bg
      <4>1. /\ s.pending[b] = r.pending[b] /\ s.lifecycle[b] = r.lifecycle[b]
            /\ s.generation[b] = r.generation[b]
        BY <1>0, <2>1, <3>2 DEF RankType
      <4> QED BY <2>1, <3>1, <4>1 DEF BGConsistent, Outstanding
    <3>3. CASE b = bg
      <4>1. s.pending[b] = op /\ s.lifecycle[b] = "RUNNING" /\ s.generation[b] = op.generation
        BY <1>0, <2>1, <3>3 DEF RankType
      <4>2. op.generation = r.generation[bg] \/ ~Outstanding(r, bg) BY DEF Stale
      <4> QED BY <2>1, <3>1, <3>3, <4>1, <4>2 DEF BGConsistent, Outstanding
    <3> QED BY <3>2, <3>3
  <2>4. Consistent(s) BY <2>1, <2>2, <2>3 DEF Consistent, QuietMode
  <2> QED BY <2>4 DEF s
<1>3. CASE ~Admits(r, bg)
  <2>1. /\ s \in RankType
        /\ s.busy = r.busy /\ s.active = r.active /\ s.completion = r.completion
        /\ s.pending = r.pending /\ s.lifecycle = r.lifecycle /\ s.mode = r.mode
        /\ s.generation = [r.generation EXCEPT ![bg] = op.generation]
    BY <1>0, <1>1, <1>3 DEF SubmitBGTargetedOperation, Adopt, RankType
  <2> HIDE DEF s
  <2>2. s.busy = Owned(s) BY <1>0, <2>1, OwnedFromActive
  <2>3. ASSUME NEW b \in LocalBGs PROVE BGConsistent(s, b)
    <3>1. BGConsistent(r, b) BY <1>0
    <3>2. s.generation[b] = r.generation[b] \/ ~Outstanding(r, b)
      BY <1>0, <2>1 DEF Stale, RankType
    <3> QED BY <2>1, <3>1, <3>2 DEF BGConsistent, Outstanding
  <2>4. QuietMode(s) BY <1>0, <2>1 DEF QuietMode, Outstanding
  <2>5. Consistent(s) BY <2>1, <2>2, <2>3, <2>4 DEF Consistent
  <2> QED BY <2>5 DEF s
<1> QED BY <1>2, <1>3

\* A lifecycle that cancels the waiting operation of a bank group, or all.
LEMMA CancelConsistent ==
  ASSUME NEW r, Consistent(r), NEW s \in RankType, NEW Cancelled \in SUBSET LocalBGs,
         s.busy = r.busy, s.active = r.active, s.completion = r.completion,
         s.generation = r.generation,
         s.mode = r.mode \/ s.mode = "ERROR_DRAINING",
         \A b \in Cancelled :
           /\ s.pending[b] = None
           /\ s.lifecycle[b] \in {"FLUSHED", "ERROR"} =>
                r.active[b] = None /\ r.completion[b] = None,
         \A b \in LocalBGs \ Cancelled :
           s.pending[b] = r.pending[b] /\ s.lifecycle[b] = r.lifecycle[b]
  PROVE  Consistent(s)
<1>0. /\ r \in RankType /\ r.busy = Owned(r) /\ QuietMode(r)
      /\ \A b \in LocalBGs : BGConsistent(r, b)
  BY DEF Consistent
<1>1. s.busy = Owned(s) BY <1>0, OwnedFromActive
<1>2. ASSUME NEW b \in LocalBGs PROVE BGConsistent(s, b)
  <2>1. BGConsistent(r, b) BY <1>0
  <2>2. CASE b \in Cancelled BY <2>1, <2>2 DEF BGConsistent, Outstanding
  <2>3. CASE b \notin Cancelled BY <2>1, <2>3 DEF BGConsistent, Outstanding
  <2> QED BY <2>2, <2>3
<1>3. QuietMode(s)
  <2>1. ASSUME NEW b \in LocalBGs, ~Outstanding(r, b) PROVE ~Outstanding(s, b)
    BY <2>1 DEF Outstanding
  <2> QED BY <1>0, <2>1 DEF QuietMode
<1> QED BY <1>1, <1>2, <1>3 DEF Consistent

\* Flush (flushBG).
LEMMA FlushConsistent ==
  ASSUME NEW r, Consistent(r), NEW bg \in LocalBGs
  PROVE  Consistent(FlushBG(r, bg))
<1> DEFINE s == FlushBG(r, bg)
           last == IF r.active[bg] # None \/ r.completion[bg] # None THEN "DRAINING" ELSE "FLUSHED"
<1>1. CASE r.lifecycle[bg] \in {"ERROR", "FLUSHED"} BY <1>1 DEF FlushBG
<1>2. CASE r.lifecycle[bg] \notin {"ERROR", "FLUSHED"}
  <2>0. r \in RankType BY DEF Consistent
  <2>1. /\ s \in RankType
        /\ s.busy = r.busy /\ s.active = r.active /\ s.completion = r.completion
        /\ s.generation = r.generation /\ s.mode = r.mode
        /\ s.pending = [r.pending EXCEPT ![bg] = None]
        /\ s.lifecycle = [r.lifecycle EXCEPT ![bg] = last]
    BY <1>2, <2>0 DEF FlushBG, RankType, Lifecycles, MaybeOperation
  <2> HIDE DEF s
  <2>2. /\ s.pending[bg] = None /\ s.lifecycle[bg] = last
        /\ \A b \in LocalBGs \ {bg} :
             s.pending[b] = r.pending[b] /\ s.lifecycle[b] = r.lifecycle[b]
    BY <2>0, <2>1 DEF RankType
  <2>3. last \in {"FLUSHED", "ERROR"} => r.active[bg] = None /\ r.completion[bg] = None OBVIOUS
  <2> HIDE DEF last
  <2>4. Consistent(s)
    <3> DEFINE C == {bg}
    <3>1. C \in SUBSET LocalBGs OBVIOUS
    <3>2. \A b \in C :
           /\ s.pending[b] = None
           /\ s.lifecycle[b] \in {"FLUSHED", "ERROR"} =>
                r.active[b] = None /\ r.completion[b] = None
      BY <2>2, <2>3
    <3>3. \A b \in LocalBGs \ C :
           s.pending[b] = r.pending[b] /\ s.lifecycle[b] = r.lifecycle[b]
      BY <2>2
    <3> HIDE DEF C
    <3> QED BY <2>1, <3>1, <3>2, <3>3, CancelConsistent
  <2> QED BY <2>4 DEF s
<1> QED BY <1>1, <1>2

\* Reset (resetBG), as far as the generations of the model go.
LEMMA ResetConsistent ==
  ASSUME NEW r, Consistent(r), NEW bg \in LocalBGs, r.generation[bg] < MaxGeneration
  PROVE  Consistent(ResetBG(r, bg))
<1> DEFINE s == ResetBG(r, bg)
<1>1. CASE Outstanding(r, bg) BY <1>1, FlushConsistent DEF ResetBG
<1>2. CASE ~Outstanding(r, bg)
  <2>0. /\ r \in RankType /\ r.busy = Owned(r) /\ QuietMode(r)
        /\ \A b \in LocalBGs : BGConsistent(r, b)
    BY DEF Consistent
  <2>1. r.generation[bg] + 1 \in Generations
    <3>1. r.generation[bg] \in Nat /\ MaxGeneration \in Nat
      BY <2>0, RankAssumption DEF RankType, Generations
    <3> QED BY <3>1 DEF Generations
  <2>2. /\ s \in RankType
        /\ s.busy = r.busy /\ s.active = r.active /\ s.completion = r.completion
        /\ s.pending = r.pending /\ s.mode = r.mode
        /\ s.generation = [r.generation EXCEPT ![bg] = @ + 1]
        /\ s.lifecycle = [r.lifecycle EXCEPT ![bg] = "IDLE"]
    BY <1>2, <2>0, <2>1 DEF ResetBG, RankType, Lifecycles
  <2> HIDE DEF s
  <2>3. s.busy = Owned(s) BY <2>0, <2>2, OwnedFromActive
  <2>4. ASSUME NEW b \in LocalBGs PROVE BGConsistent(s, b)
    <3>1. BGConsistent(r, b) BY <2>0
    <3>2. CASE b = bg BY <1>2, <2>2, <3>2 DEF BGConsistent, Outstanding
    <3>3. CASE b # bg
      <4>1. s.lifecycle[b] = r.lifecycle[b] /\ s.generation[b] = r.generation[b]
        BY <2>0, <2>2, <3>3 DEF RankType
      <4> QED BY <2>2, <3>1, <4>1 DEF BGConsistent, Outstanding
    <3> QED BY <3>2, <3>3
  <2>5. QuietMode(s) BY <2>0, <2>2 DEF QuietMode, Outstanding
  <2>6. Consistent(s) BY <2>2, <2>3, <2>4, <2>5 DEF Consistent
  <2> QED BY <2>6 DEF s
<1> QED BY <1>1, <1>2

-----------------------------------------------------------------------------
(* One cycle: completion, settling, then draining or one grant.            *)

\* Completion moves every active operation and frees all blocks.
LEMMA CompleteActiveConsistent ==
  ASSUME NEW r, Consistent(r)
  PROVE  /\ Consistent(CompleteActive(r))
         /\ \A b \in LocalBGs : CompleteActive(r).active[b] = None
<1> DEFINE s == CompleteActive(r)
           finished == {b \in LocalBGs : r.active[b] # None}
<1>0. /\ r \in RankType /\ r.busy = Owned(r) /\ QuietMode(r)
      /\ \A b \in LocalBGs : BGConsistent(r, b)
  BY DEF Consistent
<1>1. s.busy = r.busy \ Owned(r) BY <1>0 DEF CompleteActive, Owned, RankType
<1>2. /\ s \in RankType
      /\ s.pending = r.pending /\ s.mode = r.mode
      /\ s.generation = r.generation /\ s.lifecycle = r.lifecycle
      /\ s.active = [b \in LocalBGs |-> None]
      /\ s.completion = [b \in LocalBGs |->
                           IF b \in finished THEN r.active[b] ELSE r.completion[b]]
  BY <1>0 DEF CompleteActive, RankType, MaybeOperation
<1> HIDE DEF s
<1>3. s.busy = Owned(s)
  <2>1. s.busy = {} BY <1>0, <1>1
  <2>2. Owned(s) = {} BY <1>2 DEF Owned
  <2> QED BY <2>1, <2>2
<1>4. ASSUME NEW b \in LocalBGs
      PROVE  BGConsistent(s, b) /\ (Outstanding(s, b) <=> Outstanding(r, b))
  <2>1. BGConsistent(r, b) BY <1>0
  <2>2. /\ s.active[b] = None
        /\ s.completion[b] = IF r.active[b] # None THEN r.active[b] ELSE r.completion[b]
    BY <1>2
  <2> QED BY <1>2, <2>1, <2>2 DEF BGConsistent, Outstanding
<1>5. QuietMode(s) BY <1>0, <1>2, <1>4 DEF QuietMode
<1>6. Consistent(s) /\ \A b \in LocalBGs : s.active[b] = None
  BY <1>2, <1>3, <1>4, <1>5 DEF Consistent
<1> QED BY <1>6 DEF s

\* Settling lifecycles touches only bank groups with nothing outstanding.
LEMMA SettleLifecyclesConsistent ==
  ASSUME NEW r, Consistent(r), \A b \in LocalBGs : r.active[b] = None
  PROVE  /\ Consistent(SettleLifecycles(r))
         /\ \A b \in LocalBGs : SettleLifecycles(r).active[b] = None
<1> DEFINE s == SettleLifecycles(r)
<1>0. /\ r \in RankType /\ r.busy = Owned(r) /\ QuietMode(r)
      /\ \A b \in LocalBGs : BGConsistent(r, b)
  BY DEF Consistent
<1>1. /\ s \in RankType
      /\ s.busy = r.busy /\ s.active = r.active /\ s.completion = r.completion
      /\ s.pending = r.pending /\ s.mode = r.mode /\ s.generation = r.generation
      /\ \A b \in LocalBGs :
           Outstanding(r, b) => s.lifecycle[b] = r.lifecycle[b]
  BY <1>0 DEF SettleLifecycles, RankType, Lifecycles
<1> HIDE DEF s
<1>2. s.busy = Owned(s) BY <1>0, <1>1, OwnedFromActive
<1>3. ASSUME NEW b \in LocalBGs PROVE BGConsistent(s, b)
  <2>1. BGConsistent(r, b) BY <1>0
  <2>2. Outstanding(s, b) <=> Outstanding(r, b) BY <1>1 DEF Outstanding
  <2>3. CASE Outstanding(r, b)
    <3>1. s.lifecycle[b] = r.lifecycle[b] BY <1>1, <2>3
    <3> QED BY <1>1, <2>1, <2>2, <3>1 DEF BGConsistent
  <2>4. CASE ~Outstanding(r, b) BY <1>1, <2>2, <2>4 DEF BGConsistent, Outstanding
  <2> QED BY <2>3, <2>4
<1>4. QuietMode(s) BY <1>0, <1>1 DEF QuietMode, Outstanding
<1>5. Consistent(s) /\ \A b \in LocalBGs : s.active[b] = None
  BY <1>1, <1>2, <1>3, <1>4 DEF Consistent
<1> QED BY <1>5 DEF s

\* A drained rank changes its mode only.
LEMMA SettleModeConsistent ==
  ASSUME NEW r, Consistent(r)
  PROVE  Consistent(SettleMode(r))
<1> DEFINE s == SettleMode(r)
<1>1. CASE \E b \in LocalBGs : Outstanding(r, b) BY <1>1 DEF SettleMode
<1>2. CASE \A b \in LocalBGs : ~Outstanding(r, b)
  <2>0. /\ r \in RankType /\ r.busy = Owned(r)
        /\ \A b \in LocalBGs : BGConsistent(r, b)
    BY DEF Consistent
  <2>1. /\ s \in RankType
        /\ s.busy = r.busy /\ s.active = r.active /\ s.completion = r.completion
        /\ s.pending = r.pending /\ s.lifecycle = r.lifecycle /\ s.generation = r.generation
    BY <1>2, <2>0 DEF SettleMode, RankType, Modes
  <2> HIDE DEF s
  <2>2. s.busy = Owned(s) BY <2>0, <2>1, OwnedFromActive
  <2>3. \A b \in LocalBGs : BGConsistent(s, b) /\ ~Outstanding(s, b)
    BY <1>2, <2>0, <2>1 DEF BGConsistent, Outstanding
  <2>4. Consistent(s) BY <2>1, <2>2, <2>3 DEF Consistent, QuietMode
  <2> QED BY <2>4 DEF s
<1> QED BY <1>1, <1>2

\* A grant when nothing is active makes its blocks the only busy ones.
LEMMA GrantConsistent ==
  ASSUME NEW r, Consistent(r), \A b \in LocalBGs : r.active[b] = None,
         r.mode = "CSC_BG_TARGETED", NEW bg \in LocalBGs, Eligible(r, bg)
  PROVE  Consistent(Grant(r, bg))
<1> DEFINE s == Grant(r, bg)
           op == r.pending[bg]
<1>0. /\ r \in RankType /\ r.busy = Owned(r)
      /\ \A b \in LocalBGs : BGConsistent(r, b)
  BY DEF Consistent
<1>1. op \in Identities /\ op # None BY <1>0 DEF Eligible, RankType, MaybeOperation
<1>2. PhysicalBlocks(bg, op.mask) \subseteq Blocks BY <1>1, BlocksInRange
<1>3. (bg + 1) % NumBGs \in LocalBGs
  <2>1. \A i \in Nat, n \in Nat \ {0} : (i + 1) % n \in 0 .. n - 1 OBVIOUS
  <2>2. bg \in Nat /\ NumBGs \in Nat \ {0} BY RankAssumption DEF LocalBGs
  <2> QED BY <2>1, <2>2 DEF LocalBGs
<1>4. /\ s \in RankType
      /\ s.busy = r.busy \cup PhysicalBlocks(bg, op.mask)
      /\ s.active = [r.active EXCEPT ![bg] = op]
      /\ s.pending = [r.pending EXCEPT ![bg] = None]
      /\ s.completion = r.completion /\ s.generation = r.generation
      /\ s.lifecycle = r.lifecycle /\ s.mode = r.mode
  BY <1>0, <1>1, <1>2, <1>3 DEF Grant, RankType, MaybeOperation
<1> HIDE DEF s
<1>5. s.active[bg] = op /\ \A b \in LocalBGs \ {bg} : s.active[b] = None
  BY <1>0, <1>4 DEF RankType
<1>6. s.busy = Owned(s)
  <2>1. r.busy = {} BY <1>0 DEF Owned
  <2>2. {b \in LocalBGs : s.active[b] # None} = {bg} BY <1>1, <1>5
  <2>3. Owned(s) = PhysicalBlocks(bg, op.mask) BY <1>5, <2>2 DEF Owned
  <2> QED BY <1>4, <2>1, <2>3
<1>7. ASSUME NEW b \in LocalBGs PROVE BGConsistent(s, b)
  <2>1. BGConsistent(r, b) BY <1>0
  <2>2. CASE b = bg
    <3>1. s.pending[b] = None /\ s.active[b] = op BY <1>0, <1>4, <1>5, <2>2 DEF RankType
    <3> QED BY <1>4, <2>1, <2>2, <3>1 DEF BGConsistent, Eligible, Outstanding
  <2>3. CASE b # bg
    <3>1. s.pending[b] = r.pending[b] /\ s.active[b] = r.active[b]
      BY <1>0, <1>4, <2>3 DEF RankType
    <3> QED BY <1>4, <2>1, <3>1 DEF BGConsistent, Outstanding
  <2> QED BY <2>2, <2>3
<1>8. Consistent(s) BY <1>4, <1>6, <1>7 DEF Consistent, QuietMode
<1> QED BY <1>8 DEF s

\* A set of naturals that is not empty has a least member.
LEMMA LeastOffset ==
  ASSUME NEW O \in SUBSET LocalBGs, O # {}
  PROVE  (CHOOSE o \in O : \A other \in O : o <= other) \in O
<1>1. O \subseteq Nat BY RankAssumption DEF LocalBGs
<1>2. PICK n \in O : \A m \in O : <<m, n>> \notin OpToRel(<, Nat)
  BY <1>1, NatLessThanWellFounded, WFMin
<1>3. ASSUME NEW m \in O PROVE n <= m
  <2>1. m \in Nat /\ n \in Nat BY <1>1
  <2>2. ~(m < n) BY <1>2, <2>1 DEF OpToRel
  <2> QED BY <2>1, <2>2
<1> QED BY <1>2, <1>3

\* Arbitration grants an eligible bank group, or nobody.
LEMMA ArbitrateConsistent ==
  ASSUME NEW r, Consistent(r), \A b \in LocalBGs : r.active[b] = None,
         r.mode = "CSC_BG_TARGETED"
  PROVE  Consistent(Arbitrate(r))
<1> DEFINE open == {offset \in LocalBGs : Eligible(r, (r.cursor + offset) % NumBGs)}
           least == CHOOSE o \in open : \A other \in open : o <= other
           winner == (r.cursor + least) % NumBGs
<1>1. CASE open = {} BY <1>1 DEF Arbitrate
<1>2. CASE open # {}
  <2>1. least \in open BY <1>2, LeastOffset
  <2>2. winner \in LocalBGs
    <3>1. \A i, j \in Nat, n \in Nat \ {0} : (i + j) % n \in 0 .. n - 1 OBVIOUS
    <3>2. r.cursor \in Nat /\ least \in Nat /\ NumBGs \in Nat \ {0}
      BY <2>1, RankAssumption DEF Consistent, RankType, LocalBGs
    <3> HIDE DEF least
    <3> QED BY <3>1, <3>2 DEF LocalBGs
  <2>3. Eligible(r, winner) BY <2>1
  <2>4. Arbitrate(r) = Grant(r, winner) BY <1>2 DEF Arbitrate
  <2> HIDE DEF winner
  <2> QED BY <2>2, <2>3, <2>4, GrantConsistent
<1> QED BY <1>1, <1>2

\* A whole cycle (serviceBGTargeted).
LEMMA ServiceConsistent ==
  ASSUME NEW r, Consistent(r), NEW busBusy \in BOOLEAN, NEW next,
         ServiceBGTargeted(r, busBusy, next)
  PROVE  Consistent(next)
<1> DEFINE completed == CompleteActive(r)
           settled == SettleLifecycles(completed)
<1>1. Consistent(completed) /\ \A b \in LocalBGs : completed.active[b] = None
  BY CompleteActiveConsistent
<1>2. Consistent(settled) /\ \A b \in LocalBGs : settled.active[b] = None
  <2> HIDE DEF completed
  <2> QED BY <1>1, SettleLifecyclesConsistent
<1>3. next = DrainOrArbitrate(settled, busBusy) BY DEF ServiceBGTargeted
<1> HIDE DEF completed, settled
<1>4. CASE settled.mode \in {"DRAINING", "ERROR_DRAINING"}
  <2>1. next = SettleMode(settled) BY <1>3, <1>4 DEF DrainOrArbitrate
  <2> QED BY <1>2, <2>1, SettleModeConsistent
<1>5. CASE settled.mode = "CSC_BG_TARGETED" /\ ~busBusy
  <2>1. next = Arbitrate(settled) BY <1>3, <1>5 DEF DrainOrArbitrate
  <2> QED BY <1>2, <1>5, <2>1, ArbitrateConsistent
<1>6. CASE /\ settled.mode \notin {"DRAINING", "ERROR_DRAINING"}
           /\ ~(settled.mode = "CSC_BG_TARGETED" /\ ~busBusy)
  <2>1. next = settled BY <1>3, <1>6 DEF DrainOrArbitrate
  <2> QED BY <1>2, <2>1
<1> QED BY <1>4, <1>5, <1>6

-----------------------------------------------------------------------------
(* Completions, corruptions and modes.                                     *)

\* Retiring a completion empties its slot.
LEMMA RetireConsistent ==
  ASSUME NEW r, Consistent(r), NEW bg \in LocalBGs
  PROVE  Consistent(Retire(r, bg))
<1> DEFINE s == Retire(r, bg)
<1>0. /\ r \in RankType /\ r.busy = Owned(r) /\ QuietMode(r)
      /\ \A b \in LocalBGs : BGConsistent(r, b)
  BY DEF Consistent
<1>1. /\ s \in RankType
      /\ s.busy = r.busy /\ s.active = r.active /\ s.pending = r.pending
      /\ s.completion = [r.completion EXCEPT ![bg] = None]
      /\ s.mode = r.mode /\ s.lifecycle = r.lifecycle /\ s.generation = r.generation
  BY <1>0 DEF Retire, RankType, MaybeOperation
<1> HIDE DEF s
<1>2. s.busy = Owned(s) BY <1>0, <1>1, OwnedFromActive
<1>3. ASSUME NEW b \in LocalBGs
      PROVE  s.completion[b] = None \/ s.completion[b] = r.completion[b]
  BY <1>0, <1>1 DEF RankType
<1>4. ASSUME NEW b \in LocalBGs PROVE BGConsistent(s, b)
  <2>1. BGConsistent(r, b) BY <1>0
  <2> QED BY <1>1, <1>3, <2>1 DEF BGConsistent, Outstanding
<1>5. QuietMode(s) BY <1>0, <1>1, <1>3 DEF QuietMode, Outstanding
<1>6. Consistent(s) BY <1>1, <1>2, <1>4, <1>5 DEF Consistent
<1> QED BY <1>6 DEF s

\* A mismatched completion cancels what waits (beginBGError).
LEMMA BGErrorConsistent ==
  ASSUME NEW r, Consistent(r), NEW bg \in LocalBGs
  PROVE  Consistent(BeginBGError(r, bg))
<1> DEFINE s == BeginBGError(r, bg)
           C == {bg}
<1>0. r \in RankType BY DEF Consistent
<1>1. /\ s \in RankType
      /\ s.busy = r.busy /\ s.active = r.active /\ s.completion = r.completion
      /\ s.generation = r.generation /\ s.mode = r.mode
      /\ s.pending = [r.pending EXCEPT ![bg] = None]
      /\ s.lifecycle = [r.lifecycle EXCEPT ![bg] = "ERROR_DRAINING"]
  BY <1>0 DEF BeginBGError, RankType, Lifecycles, MaybeOperation
<1> HIDE DEF s
<1>2. /\ C \in SUBSET LocalBGs
      /\ \A b \in C :
           /\ s.pending[b] = None
           /\ s.lifecycle[b] \in {"FLUSHED", "ERROR"} =>
                r.active[b] = None /\ r.completion[b] = None
      /\ \A b \in LocalBGs \ C :
           s.pending[b] = r.pending[b] /\ s.lifecycle[b] = r.lifecycle[b]
  BY <1>0, <1>1 DEF RankType
<1> HIDE DEF C
<1>3. Consistent(s) BY <1>1, <1>2, CancelConsistent
<1> QED BY <1>3 DEF s

\* A candidate completion is refused, retired or an error.
LEMMA ValidateConsistent ==
  ASSUME NEW r, Consistent(r), NEW bg \in LocalBGs, NEW candidate
  PROVE  Consistent(ValidateAndRetire(r, bg, candidate))
BY RetireConsistent, BGErrorConsistent DEF ValidateAndRetire

\* A rank-fatal error repairs any busy mask (beginRankFatalError).
LEMMA FatalErrorConsistent ==
  ASSUME NEW r, Consistent(r), NEW corrupt,
         NEW mask \in SUBSET Blocks, corrupt = [r EXCEPT !.busy = mask]
  PROVE  Consistent(BeginRankFatalError(corrupt))
<1> DEFINE s == BeginRankFatalError(corrupt)
           C == LocalBGs
<1>0. r \in RankType /\ r.busy = Owned(r) BY DEF Consistent
<1>1. corrupt.active = r.active BY <1>0 DEF RankType
<1>2. Owned(corrupt) = r.busy BY <1>0, <1>1, OwnedFromActive
<1>3. /\ s \in RankType
      /\ s.busy = r.busy /\ s.active = r.active /\ s.completion = r.completion
      /\ s.generation = r.generation /\ s.mode = "ERROR_DRAINING"
      /\ s.pending = [b \in LocalBGs |-> None]
      /\ s.lifecycle = [b \in LocalBGs |-> "ERROR_DRAINING"]
  BY <1>0, <1>2 DEF BeginRankFatalError, RankType, Modes, Lifecycles, MaybeOperation
<1> HIDE DEF s
<1>4. /\ C \in SUBSET LocalBGs
      /\ \A b \in C :
           /\ s.pending[b] = None
           /\ s.lifecycle[b] \in {"FLUSHED", "ERROR"} =>
                r.active[b] = None /\ r.completion[b] = None
      /\ \A b \in LocalBGs \ C :
           s.pending[b] = r.pending[b] /\ s.lifecycle[b] = r.lifecycle[b]
  BY <1>3
<1> HIDE DEF C
<1>5. Consistent(s) BY <1>3, <1>4, CancelConsistent
<1> QED BY <1>5 DEF s

\* The ownership validator leaves a sound mask alone and repairs another.
LEMMA OwnershipCheckConsistent ==
  ASSUME NEW r, Consistent(r), NEW block \in Blocks
  PROVE  Consistent(ValidateSharedOwnership([r EXCEPT !.busy = @ \cup {block}]))
<1> DEFINE mask == r.busy \cup {block}
           corrupt == [r EXCEPT !.busy = mask]
<1>0. r \in RankType /\ r.busy = Owned(r) BY DEF Consistent
<1>1. mask \in SUBSET Blocks BY <1>0 DEF RankType
<1>2. corrupt.busy = mask /\ corrupt.active = r.active BY <1>0 DEF RankType
<1>3. CASE DisjointOwners(corrupt) /\ corrupt.busy = Owned(corrupt)
  <2>1. Owned(corrupt) = r.busy BY <1>0, <1>2, OwnedFromActive
  <2>2. corrupt = r BY <1>0, <1>2, <1>3, <2>1 DEF RankType
  <2> QED BY <1>3, <2>2 DEF ValidateSharedOwnership
<1>4. CASE ~(DisjointOwners(corrupt) /\ corrupt.busy = Owned(corrupt))
  <2>1. Consistent(BeginRankFatalError(corrupt)) BY <1>1, FatalErrorConsistent
  <2> QED BY <1>4, <2>1 DEF ValidateSharedOwnership
<1> QED BY <1>3, <1>4

\* Mode changes that keep a quiet rank quiet.
LEMMA ModeConsistent ==
  ASSUME NEW r, Consistent(r)
  PROVE  /\ Consistent(RequestTargetedModeExit(r))
         /\ Consistent(LegacyEnter(r))
         /\ Consistent(LegacyLeave(r))
<1>0. /\ r \in RankType /\ r.busy = Owned(r) /\ QuietMode(r)
      /\ \A b \in LocalBGs : BGConsistent(r, b)
  BY DEF Consistent
<1>1. ASSUME NEW mode \in Modes,
             mode \in {"IDLE", "LEGACY_RANK_WIDE", "ERROR"} => r.mode = "IDLE"
      PROVE  Consistent([r EXCEPT !.mode = mode])
  <2> DEFINE s == [r EXCEPT !.mode = mode]
  <2>1. /\ s \in RankType
        /\ s.busy = r.busy /\ s.active = r.active /\ s.completion = r.completion
        /\ s.pending = r.pending /\ s.lifecycle = r.lifecycle /\ s.generation = r.generation
        /\ s.mode = mode
    BY <1>0, <1>1 DEF RankType
  <2> HIDE DEF s
  <2>2. s.busy = Owned(s) BY <1>0, <2>1, OwnedFromActive
  <2>3. \A b \in LocalBGs : BGConsistent(s, b) /\ (Outstanding(s, b) <=> Outstanding(r, b))
    BY <1>0, <2>1 DEF BGConsistent, Outstanding
  <2>4. QuietMode(s) BY <1>0, <1>1, <2>1, <2>3 DEF QuietMode
  <2>5. Consistent(s) BY <2>1, <2>2, <2>3, <2>4 DEF Consistent
  <2> QED BY <2>5 DEF s
<1>2. "DRAINING" \in Modes /\ "LEGACY_RANK_WIDE" \in Modes BY DEF Modes
<1>3. /\ RequestTargetedModeExit(r) \in {r, [r EXCEPT !.mode = "DRAINING"]}
      /\ LegacyLeave(r) \in {r, [r EXCEPT !.mode = "DRAINING"]}
  BY DEF RequestTargetedModeExit, LegacyLeave
<1>4. Consistent(LegacyEnter(r)) BY <1>1, <1>2 DEF LegacyEnter
<1>5. Consistent([r EXCEPT !.mode = "DRAINING"]) BY <1>1, <1>2
<1> QED BY <1>3, <1>4, <1>5

-----------------------------------------------------------------------------
(* The invariant of the machine.                                           *)

\* Every action keeps the rank consistent.
LEMMA NextPreserves == IInv /\ [Next]_vars => IInv'
<1> SUFFICES ASSUME IInv, [Next]_vars PROVE IInv' OBVIOUS
<1>0. Consistent(rank) /\ injections \in 0 .. MaxInjections BY DEF IInv
<1>1. ASSUME NEW bg \in LocalBGs, Submit(bg) PROVE IInv'
  <2>1. PICK op \in Identities :
          ~Stale(rank, bg, op) /\ rank' = SubmitBGTargetedOperation(rank, bg, op)
    BY <1>1 DEF Submit
  <2>2. Consistent(rank') BY <1>0, <2>1, SubmitConsistent
  <2> QED BY <1>0, <1>1, <2>2 DEF IInv, Submit
<1>2. ASSUME NEW bg \in LocalBGs, Poll(bg) PROVE IInv'
  <2>1. Consistent(rank') BY <1>0, <1>2, ValidateConsistent DEF Poll
  <2> QED BY <1>0, <1>2, <2>1 DEF IInv, Poll
<1>3. ASSUME NEW bg \in LocalBGs, Flush(bg) PROVE IInv'
  <2>1. Consistent(rank') BY <1>0, <1>3, FlushConsistent DEF Flush
  <2> QED BY <1>0, <1>3, <2>1 DEF IInv, Flush
<1>4. ASSUME NEW bg \in LocalBGs, Reset(bg) PROVE IInv'
  <2>1. Consistent(rank') BY <1>0, <1>4, ResetConsistent DEF Reset
  <2> QED BY <1>0, <1>4, <2>1 DEF IInv, Reset
<1>5. ASSUME injections < MaxInjections, injections' = injections + 1
      PROVE  injections' \in 0 .. MaxInjections
  BY <1>0, <1>5, RankAssumption
<1>6. ASSUME NEW bg \in LocalBGs, InjectCompletion(bg) PROVE IInv'
  <2>1. Consistent(rank') BY <1>0, <1>6, ValidateConsistent DEF InjectCompletion
  <2> QED BY <1>5, <1>6, <2>1 DEF IInv, InjectCompletion
<1>7. ASSUME NEW busBusy \in BOOLEAN, Service(busBusy) PROVE IInv'
  <2>1. Consistent(rank') BY <1>0, <1>7, ServiceConsistent DEF Service
  <2> QED BY <1>0, <1>7, <2>1 DEF IInv, Service
<1>8. CASE ModeExit
  <2>1. Consistent(rank') BY <1>0, <1>8, ModeConsistent DEF ModeExit
  <2> QED BY <1>0, <1>8, <2>1 DEF IInv, ModeExit
<1>9. CASE ControlPIM
  <2>1. Consistent(rank') BY <1>0, <1>9, ModeConsistent DEF ControlPIM
  <2> QED BY <1>0, <1>9, <2>1 DEF IInv, ControlPIM
<1>10. CASE InjectBusyBit
  <2>1. Consistent(rank') BY <1>0, <1>10, OwnershipCheckConsistent DEF InjectBusyBit
  <2> QED BY <1>5, <1>10, <2>1 DEF IInv, InjectBusyBit
<1>11. CASE UNCHANGED vars
  BY <1>0, <1>11 DEF IInv, vars, Consistent, BGConsistent, QuietMode, Owned, Outstanding
<1> QED BY <1>1, <1>2, <1>3, <1>4, <1>6, <1>7, <1>8, <1>9, <1>10, <1>11 DEF Next

\* The rank is consistent in every reachable state.
THEOREM Invariance == Spec => []IInv
<1>1. Init => IInv BY InitConsistent, RankAssumption DEF Init, IInv
<1>2. IInv /\ [Next]_vars => IInv' BY NextPreserves
<1> QED BY <1>1, <1>2, PTL DEF Spec

\* Every slot, mask, cursor and lifecycle keeps its type.
THEOREM TypeCorrect == Spec => []TypeOK
<1>1. IInv => TypeOK BY DEF IInv, Consistent, RankType, TypeOK
<1> QED BY <1>1, Invariance, PTL

\* The busy mask is exactly what the active operations own, and no completion
\* is about to be overwritten.
THEOREM Ownership == Spec => []OwnershipExact
<1>1. IInv => OwnershipExact BY DEF IInv, Consistent, BGConsistent, OwnershipExact
<1> QED BY <1>1, Invariance, PTL

\* Whatever is outstanding belongs to the generation of its bank group.
THEOREM GenerationsCurrent == Spec => []OutstandingIsCurrent
<1>1. IInv => OutstandingIsCurrent BY DEF IInv, Consistent, BGConsistent, OutstandingIsCurrent
<1> QED BY <1>1, Invariance, PTL

\* A finished bank group and a quiet rank hold no operation, and only a
\* running bank group has one waiting.
THEOREM NoneLeftBehind == Spec => []NothingLeftBehind
<1>1. IInv => NothingLeftBehind
  BY DEF IInv, Consistent, BGConsistent, QuietMode, NothingLeftBehind, Outstanding
<1> QED BY <1>1, Invariance, PTL

-----------------------------------------------------------------------------
(* What the rank promises.  An operation is in one slot, so its phase is   *)
(* the slot it is in.                                                      *)

Holds(slot, id) == slot # None /\ slot.id = id

\* The operation that waits is another one than that being executed or handed over.
WaitingApart(r, bg) ==
  r.pending[bg] # None =>
    /\ ~Holds(r.active[bg], r.pending[bg].id)
    /\ ~Holds(r.completion[bg], r.pending[bg].id)

Apart(r) == \A bg \in LocalBGs : WaitingApart(r, bg)

\* The phase tells the slot.
LEMMA PhaseFacts ==
  ASSUME NEW r, NEW bg \in LocalBGs, NEW id \in OperationIds,
         WaitingApart(r, bg), BGConsistent(r, bg)
  PROVE  /\ OperationPhase(r, bg, id) = OperationPhases(r)[bg][id]
         /\ OperationPhase(r, bg, id) = "executing" <=> Holds(r.active[bg], id)
         /\ OperationPhase(r, bg, id) = "completed" <=> Holds(r.completion[bg], id)
         /\ OperationPhase(r, bg, id) = "waiting" <=> Holds(r.pending[bg], id)
         /\ OperationPhase(r, bg, id) = "idle" <=>
              /\ ~Holds(r.active[bg], id) /\ ~Holds(r.completion[bg], id)
              /\ ~Holds(r.pending[bg], id)
<1>1. OperationPhase(r, bg, id) = OperationPhases(r)[bg][id] BY DEF OperationPhases
<1>2. OperationPhase(r, bg, id) =
        CASE Holds(r.active[bg], id)     -> "executing"
          [] Holds(r.completion[bg], id) -> "completed"
          [] Holds(r.pending[bg], id)    -> "waiting"
          [] OTHER                       -> "idle"
  BY DEF OperationPhase, Holds
<1>3. ~(Holds(r.active[bg], id) /\ Holds(r.completion[bg], id)) BY DEF BGConsistent, Holds
<1>4. /\ ~(Holds(r.pending[bg], id) /\ Holds(r.active[bg], id))
      /\ ~(Holds(r.pending[bg], id) /\ Holds(r.completion[bg], id))
  BY DEF WaitingApart, Holds
<1> QED BY <1>1, <1>2, <1>3, <1>4

\* A rank with the same slots shows the same phases.
LEMMA SamePhases ==
  ASSUME NEW r, NEW t, t.pending = r.pending, t.active = r.active,
         t.completion = r.completion
  PROVE  OperationPhases(t) = OperationPhases(r) /\ (Apart(r) => Apart(t))
<1>1. OperationPhases(t) = OperationPhases(r) BY DEF OperationPhases, OperationPhase
<1>2. Apart(r) => Apart(t) BY DEF Apart, WaitingApart
<1> QED BY <1>1, <1>2

\* One operation of one bank group changes its phase.
LEMMA PhaseChange ==
  ASSUME NEW r, NEW t, NEW bg \in LocalBGs, NEW id \in OperationIds,
         NEW f, DOMAIN f = LocalBGs, \A b \in LocalBGs : DOMAIN f[b] = OperationIds,
         f = [b \in LocalBGs |-> [i \in OperationIds |-> f[b][i]]],
         \A b \in LocalBGs, i \in OperationIds :
           (b # bg \/ i # id) => OperationPhase(t, b, i) = f[b][i]
  PROVE  OperationPhases(t) = [f EXCEPT ![bg][id] = OperationPhase(t, bg, id)]
<1> DEFINE g == [f EXCEPT ![bg][id] = OperationPhase(t, bg, id)]
<1>1. /\ DOMAIN g = LocalBGs
      /\ \A b \in LocalBGs :
           g[b] = IF b = bg THEN [f[bg] EXCEPT ![id] = OperationPhase(t, bg, id)] ELSE f[b]
  OBVIOUS
<1>2. g = [b \in LocalBGs |-> g[b]] OBVIOUS
<1> HIDE DEF g
<1>3. ASSUME NEW b \in LocalBGs
      PROVE  g[b] = [i \in OperationIds |-> OperationPhase(t, b, i)]
  <2>1. CASE b # bg
    <3>1. g[b] = f[b] /\ f[b] = [i \in OperationIds |-> f[b][i]] BY <1>1, <2>1
    <3>2. \A i \in OperationIds : f[b][i] = OperationPhase(t, b, i) BY <2>1
    <3> QED BY <3>1, <3>2
  <2>2. CASE b = bg
    <3>1. g[b] = [f[bg] EXCEPT ![id] = OperationPhase(t, bg, id)] BY <1>1, <2>2
    <3>2. f[bg] = [i \in OperationIds |-> f[bg][i]] OBVIOUS
    <3>3. \A i \in OperationIds : i # id => f[bg][i] = OperationPhase(t, bg, i) OBVIOUS
    <3> QED BY <2>2, <3>1, <3>2, <3>3
  <2> QED BY <2>1, <2>2
<1>4. OperationPhases(t) = g BY <1>2, <1>3 DEF OperationPhases
<1> QED BY <1>4 DEF g

\* The phases form a function on the bank groups and the operations.
LEMMA PhasesShape ==
  ASSUME NEW r
  PROVE  /\ DOMAIN OperationPhases(r) = LocalBGs
         /\ \A b \in LocalBGs : DOMAIN OperationPhases(r)[b] = OperationIds
         /\ OperationPhases(r) =
              [b \in LocalBGs |-> [i \in OperationIds |-> OperationPhases(r)[b][i]]]
         /\ \A b \in LocalBGs, i \in OperationIds :
              OperationPhases(r)[b][i] = OperationPhase(r, b, i)
BY DEF OperationPhases

\* A promise kept from a rank r to a rank t: the abstract step, on the phases and the
\* owner of the two.
PhaseAccepted(r, t, bg, id) ==
  /\ Owner(r) # "legacy" /\ Owner(t) = Owner(r)
  /\ \A i \in OperationIds : OperationPhases(r)[bg][i] # "waiting"
  /\ OperationPhases(r)[bg][id] = "idle"
  /\ OperationPhases(t) = [OperationPhases(r) EXCEPT ![bg][id] = "waiting"]

PhaseHandedOver(r, t, bg, id) ==
  /\ OperationPhases(r)[bg][id] = "completed"
  /\ OperationPhases(t) = [OperationPhases(r) EXCEPT ![bg][id] = "idle"]
  /\ Owner(t) = Owner(r)

WithoutWaiting(r, lost) ==
  [bg \in LocalBGs |-> [id \in OperationIds |->
     IF bg \in lost /\ OperationPhases(r)[bg][id] = "waiting" THEN "idle"
     ELSE OperationPhases(r)[bg][id]]]

Finished(r) ==
  [bg \in LocalBGs |-> [id \in OperationIds |->
     IF OperationPhases(r)[bg][id] = "executing" THEN "completed"
     ELSE OperationPhases(r)[bg][id]]]

PhaseGranted(r, t, bg, id) ==
  /\ Owner(r) # "legacy"
  /\ OperationPhases(r)[bg][id] = "waiting"
  /\ \A other \in OperationIds : Finished(r)[bg][other] # "completed"
  /\ OperationPhases(t) = [Finished(r) EXCEPT ![bg][id] = "executing"]

\* Submission: the new operation waits, in a bank group where none waited.
LEMMA SubmitPromise ==
  ASSUME NEW r, Consistent(r), Apart(r), NEW bg \in LocalBGs, NEW op \in Identities,
         op.id \notin InUse(r, bg)
  PROVE  LET t == SubmitBGTargetedOperation(r, bg, op)
         IN  /\ Apart(t)
             /\ \/ OperationPhases(t) = OperationPhases(r) /\ Owner(t) = Owner(r)
                \/ PhaseAccepted(r, t, bg, op.id)
<1> DEFINE t == SubmitBGTargetedOperation(r, bg, op)
<1>0. /\ r \in RankType /\ op # None /\ op.id \in OperationIds
      /\ WaitingApart(r, bg) /\ BGConsistent(r, bg)
  BY NoneAssumption DEF Consistent, Apart, Identities
<1>1. CASE ~Admits(r, bg)
  <2>1. /\ t.pending = r.pending /\ t.active = r.active /\ t.completion = r.completion
        /\ t.mode = r.mode
    BY <1>0, <1>1 DEF SubmitBGTargetedOperation, Adopt, RankType
  <2> HIDE DEF t
  <2>2. Apart(t) /\ OperationPhases(t) = OperationPhases(r) /\ Owner(t) = Owner(r)
    BY <2>1, SamePhases DEF Owner
  <2> QED BY <2>2 DEF t
<1>2. CASE Admits(r, bg)
  <2>1. /\ t.pending = [r.pending EXCEPT ![bg] = op]
        /\ t.active = r.active /\ t.completion = r.completion
        /\ t.mode = "CSC_BG_TARGETED" /\ r.pending[bg] = None
        /\ r.mode \in {"IDLE", "CSC_BG_TARGETED"}
    BY <1>0, <1>2 DEF SubmitBGTargetedOperation, Adopt, RankType, Admits
  <2> HIDE DEF t
  <2>2. ~Holds(r.active[bg], op.id) /\ ~Holds(r.completion[bg], op.id) BY DEF InUse, Holds
  <2>3. /\ t.pending[bg] = op
        /\ \A b \in LocalBGs : b # bg => t.pending[b] = r.pending[b]
    BY <1>0, <2>1 DEF RankType
  <2>4. Apart(t) BY <2>1, <2>2, <2>3 DEF Apart, WaitingApart
  <2>5. OperationPhases(t) = [OperationPhases(r) EXCEPT ![bg][op.id] = "waiting"]
    <3>1. OperationPhase(t, bg, op.id) = "waiting"
      BY <1>0, <2>1, <2>2, <2>3 DEF OperationPhase, Holds
    <3>2. ASSUME NEW b \in LocalBGs, NEW i \in OperationIds, b # bg \/ i # op.id
          PROVE  OperationPhase(t, b, i) = OperationPhases(r)[b][i]
      <4>1. t.pending[b] = r.pending[b] \/ (~Holds(t.pending[b], i) /\ ~Holds(r.pending[b], i))
        BY <2>1, <2>3, <3>2 DEF Holds
      <4>2. OperationPhase(t, b, i) = OperationPhase(r, b, i)
        BY <2>1, <4>1 DEF OperationPhase, Holds
      <4> QED BY <4>2, PhasesShape
    <3> QED BY <1>0, <3>1, <3>2, PhasesShape, PhaseChange
  <2>6. Owner(r) = "none" /\ Owner(t) = "none" BY <2>1 DEF Owner
  <2>7. \A i \in OperationIds : OperationPhases(r)[bg][i] # "waiting"
    BY <1>0, <2>1, PhaseFacts DEF Holds
  <2>8. OperationPhases(r)[bg][op.id] = "idle" BY <1>0, <2>1, <2>2, PhaseFacts DEF Holds
  <2>9. Apart(t) /\ PhaseAccepted(r, t, bg, op.id)
    BY <2>4, <2>5, <2>6, <2>7, <2>8 DEF PhaseAccepted
  <2> QED BY <2>9 DEF t
<1> QED BY <1>1, <1>2

\* What waits in some bank groups is cancelled: nothing else changes its phase.
LEMMA CancelPromise ==
  ASSUME NEW r, Consistent(r), Apart(r), NEW t, NEW lost \in SUBSET LocalBGs,
         t.active = r.active, t.completion = r.completion,
         \A b \in LocalBGs : t.pending[b] = IF b \in lost THEN None ELSE r.pending[b]
  PROVE  Apart(t) /\ OperationPhases(t) = WithoutWaiting(r, lost)
<1>1. Apart(t) BY DEF Apart, WaitingApart
<1>2. ASSUME NEW b \in LocalBGs, NEW i \in OperationIds
      PROVE  OperationPhase(t, b, i) =
               IF b \in lost /\ OperationPhases(r)[b][i] = "waiting" THEN "idle"
               ELSE OperationPhases(r)[b][i]
  <2>1. WaitingApart(r, b) /\ BGConsistent(r, b) BY DEF Apart, Consistent
  <2>2. /\ OperationPhase(r, b, i) = OperationPhases(r)[b][i]
        /\ OperationPhase(r, b, i) = "waiting" <=> Holds(r.pending[b], i)
        /\ OperationPhase(r, b, i) = "executing" <=> Holds(r.active[b], i)
        /\ OperationPhase(r, b, i) = "completed" <=> Holds(r.completion[b], i)
    BY <2>1, PhaseFacts
  <2>3. CASE b \notin lost
    <3>1. t.pending[b] = r.pending[b] BY <2>3
    <3> QED BY <2>2, <2>3, <3>1 DEF OperationPhase
  <2>4. CASE b \in lost /\ Holds(r.pending[b], i)
    <3>1. ~Holds(r.active[b], i) /\ ~Holds(r.completion[b], i) /\ ~Holds(t.pending[b], i)
      BY <2>1, <2>4 DEF WaitingApart, Holds
    <3>2. OperationPhase(t, b, i) = "idle" BY <3>1 DEF OperationPhase, Holds
    <3> QED BY <2>2, <2>4, <3>2
  <2>5. CASE b \in lost /\ ~Holds(r.pending[b], i)
    <3>1. ~Holds(t.pending[b], i) BY <2>5 DEF Holds
    <3>2. OperationPhase(t, b, i) = OperationPhase(r, b, i)
      BY <2>5, <3>1 DEF OperationPhase, Holds
    <3> QED BY <2>2, <2>5, <3>2
  <2> QED BY <2>3, <2>4, <2>5
<1> QED BY <1>1, <1>2 DEF OperationPhases, WithoutWaiting

\* A flush and an error cancel at most what waits; a reset does no more.
LEMMA FlushPromise ==
  ASSUME NEW r, Consistent(r), Apart(r), NEW bg \in LocalBGs,
         NEW t, t \in {FlushBG(r, bg), ResetBG(r, bg), BeginBGError(r, bg)}
  PROVE  /\ Apart(t) /\ Owner(t) = Owner(r)
         /\ \E lost \in SUBSET LocalBGs : OperationPhases(t) = WithoutWaiting(r, lost)
<1>0. r \in RankType BY DEF Consistent
<1>1. \E lost \in SUBSET LocalBGs :
        /\ t.active = r.active /\ t.completion = r.completion /\ t.mode = r.mode
        /\ \A b \in LocalBGs : t.pending[b] = IF b \in lost THEN None ELSE r.pending[b]
  <2>1. CASE /\ t.active = r.active /\ t.completion = r.completion /\ t.mode = r.mode
             /\ t.pending = r.pending
    <3>1. {} \in SUBSET LocalBGs OBVIOUS
    <3>2. \A b \in LocalBGs : t.pending[b] = IF b \in {} THEN None ELSE r.pending[b] BY <2>1
    <3> QED BY <2>1, <3>1, <3>2
  <2>2. CASE /\ t.active = r.active /\ t.completion = r.completion /\ t.mode = r.mode
             /\ t.pending = [r.pending EXCEPT ![bg] = None]
    <3>1. {bg} \in SUBSET LocalBGs OBVIOUS
    <3>2. \A b \in LocalBGs : t.pending[b] = IF b \in {bg} THEN None ELSE r.pending[b]
      BY <1>0, <2>2 DEF RankType
    <3> QED BY <2>2, <3>1, <3>2
  <2> DEFINE changed == /\ t.active = r.active /\ t.completion = r.completion
                        /\ t.mode = r.mode
                        /\ t.pending \in {r.pending, [r.pending EXCEPT ![bg] = None]}
  <2>3. t = FlushBG(r, bg) => changed BY <1>0 DEF FlushBG, RankType
  <2>4. t = ResetBG(r, bg) => changed BY <1>0, <2>3 DEF ResetBG, RankType
  <2>5. t = BeginBGError(r, bg) => changed BY <1>0 DEF BeginBGError, RankType
  <2> QED BY <2>1, <2>2, <2>3, <2>4, <2>5
<1> QED BY <1>1, CancelPromise DEF Owner

\* A rank-fatal error cancels everything that waits; the legacy mode has nothing
\* waiting to lose.
LEMMA FatalErrorPromise ==
  ASSUME NEW r, Consistent(r), Apart(r), NEW corrupt,
         corrupt.active = r.active, corrupt.completion = r.completion,
         NEW t, t = BeginRankFatalError(corrupt), r \in RankType,
         t.active = r.active, t.completion = r.completion, t.mode = "ERROR_DRAINING",
         t.pending = [b \in LocalBGs |-> None]
  PROVE  /\ Apart(t) /\ Owner(t) = "none"
         /\ \/ \E lost \in SUBSET LocalBGs :
                 OperationPhases(t) = WithoutWaiting(r, lost) /\ Owner(r) = "none"
            \/ OperationPhases(t) = OperationPhases(r)
<1>1. Owner(t) = "none" BY DEF Owner
<1>2. Apart(t) /\ OperationPhases(t) = WithoutWaiting(r, LocalBGs) BY CancelPromise
<1>3. CASE Owner(r) # "none"
  <2>1. \A b \in LocalBGs : r.pending[b] = None
    BY <1>3 DEF Owner, Consistent, QuietMode, Outstanding
  <2>2. r.pending = t.pending BY <2>1 DEF RankType
  <2> QED BY <1>1, <1>2, <2>2, SamePhases
<1> QED BY <1>1, <1>2, <1>3

\* A completion that is retired hands its operation over, and nothing else.
LEMMA RetirePromise ==
  ASSUME NEW r, Consistent(r), Apart(r), NEW bg \in LocalBGs, r.completion[bg] # None
  PROVE  /\ Apart(Retire(r, bg))
         /\ r.completion[bg].id \in OperationIds
         /\ PhaseHandedOver(r, Retire(r, bg), bg, r.completion[bg].id)
<1> DEFINE t == Retire(r, bg)
           id == r.completion[bg].id
<1>0. /\ r \in RankType /\ WaitingApart(r, bg) /\ BGConsistent(r, bg) BY DEF Consistent, Apart
<1>1. /\ t.pending = r.pending /\ t.active = r.active /\ t.mode = r.mode
      /\ t.completion = [r.completion EXCEPT ![bg] = None]
  BY <1>0 DEF Retire, RankType
<1>2. id \in OperationIds BY <1>0 DEF RankType, MaybeOperation, Identities
<1> HIDE DEF t
<1>3. /\ t.completion[bg] = None
      /\ \A b \in LocalBGs : b # bg => t.completion[b] = r.completion[b]
  BY <1>0, <1>1 DEF RankType
<1>4. Apart(t)
  <2>1. \A b \in LocalBGs : t.completion[b] \in {None, r.completion[b]} BY <1>3
  <2> QED BY <1>1, <2>1 DEF Apart, WaitingApart, Holds
<1>5. /\ Holds(r.completion[bg], id) /\ ~Holds(r.active[bg], id) /\ ~Holds(r.pending[bg], id)
  BY <1>0 DEF Holds, WaitingApart, BGConsistent
<1>6. OperationPhases(r)[bg][id] = "completed" BY <1>0, <1>2, <1>5, PhaseFacts
<1>7. OperationPhases(t) = [OperationPhases(r) EXCEPT ![bg][id] = "idle"]
  <2>1. OperationPhase(t, bg, id) = "idle" BY <1>1, <1>3, <1>5 DEF OperationPhase, Holds
  <2>2. ASSUME NEW b \in LocalBGs, NEW i \in OperationIds, b # bg \/ i # id
        PROVE  OperationPhase(t, b, i) = OperationPhases(r)[b][i]
    <3>1. t.completion[b] = r.completion[b]
          \/ (~Holds(t.completion[b], i) /\ ~Holds(r.completion[b], i))
      BY <1>3, <2>2 DEF Holds
    <3>2. OperationPhase(t, b, i) = OperationPhase(r, b, i)
      BY <1>1, <3>1 DEF OperationPhase, Holds
    <3> QED BY <3>2, PhasesShape
  <2> HIDE DEF id
  <2> QED BY <1>2, <2>1, <2>2, PhasesShape, PhaseChange
<1>8. Apart(t) /\ PhaseHandedOver(r, t, bg, id)
  BY <1>1, <1>4, <1>6, <1>7 DEF PhaseHandedOver, Owner
<1> QED BY <1>2, <1>8 DEF t

\* The first phase of a cycle completes exactly what was executing.
LEMMA CompletePromise ==
  ASSUME NEW r, Consistent(r), Apart(r)
  PROVE  LET t == CompleteActive(r)
         IN  Apart(t) /\ OperationPhases(t) = Finished(r) /\ Owner(t) = Owner(r)
<1> DEFINE t == CompleteActive(r)
<1>0. r \in RankType BY DEF Consistent
<1>1. /\ t.pending = r.pending /\ t.mode = r.mode
      /\ \A b \in LocalBGs :
           /\ t.active[b] = None
           /\ t.completion[b] = IF r.active[b] # None THEN r.active[b] ELSE r.completion[b]
  BY <1>0 DEF CompleteActive, RankType
<1> HIDE DEF t
<1>2. Apart(t) BY <1>1 DEF Apart, WaitingApart, Holds
<1>3. ASSUME NEW b \in LocalBGs, NEW i \in OperationIds
      PROVE  OperationPhase(t, b, i) =
               IF OperationPhases(r)[b][i] = "executing" THEN "completed"
               ELSE OperationPhases(r)[b][i]
  <2>1. WaitingApart(r, b) /\ BGConsistent(r, b) BY DEF Apart, Consistent
  <2>2. /\ OperationPhase(r, b, i) = OperationPhases(r)[b][i]
        /\ OperationPhase(r, b, i) = "executing" <=> Holds(r.active[b], i)
    BY <2>1, PhaseFacts
  <2>3. CASE Holds(r.active[b], i)
    <3>1. Holds(t.completion[b], i) BY <1>1, <2>3 DEF Holds
    <3>2. BGConsistent(t, b) /\ WaitingApart(t, b)
      BY <1>2, CompleteActiveConsistent DEF Consistent, Apart, t
    <3>3. OperationPhase(t, b, i) = "completed" BY <3>1, <3>2, PhaseFacts
    <3> QED BY <2>2, <2>3, <3>3
  <2>4. CASE ~Holds(r.active[b], i)
    <3>1. Holds(t.completion[b], i) <=> Holds(r.completion[b], i)
      BY <1>1, <2>1, <2>4 DEF Holds, BGConsistent
    <3>2. OperationPhase(t, b, i) = OperationPhase(r, b, i)
      BY <1>1, <2>4, <3>1 DEF OperationPhase, Holds
    <3> QED BY <2>2, <2>4, <3>2
  <2> QED BY <2>3, <2>4
<1>4. OperationPhases(t) = Finished(r) BY <1>3 DEF OperationPhases, Finished
<1> QED BY <1>1, <1>2, <1>4 DEF t, Owner

\* A grant lets one waiting operation execute, in a bank group with nothing to hand over.
LEMMA GrantPromise ==
  ASSUME NEW r, Consistent(r), Apart(r), NEW bg \in LocalBGs, Eligible(r, bg)
  PROVE  LET t  == Grant(r, bg)
             id == r.pending[bg].id
         IN  /\ Apart(t) /\ Owner(t) = Owner(r) /\ id \in OperationIds
             /\ OperationPhases(r)[bg][id] = "waiting"
             /\ \A other \in OperationIds : OperationPhases(r)[bg][other] # "completed"
             /\ OperationPhases(t) = [OperationPhases(r) EXCEPT ![bg][id] = "executing"]
<1> DEFINE t == Grant(r, bg)
           op == r.pending[bg]
           id == op.id
<1>0. /\ r \in RankType /\ WaitingApart(r, bg) /\ BGConsistent(r, bg)
      /\ op # None /\ r.active[bg] = None /\ r.completion[bg] = None
  BY DEF Consistent, Apart, Eligible
<1>1. /\ t.completion = r.completion /\ t.mode = r.mode
      /\ t.pending = [r.pending EXCEPT ![bg] = None]
      /\ t.active = [r.active EXCEPT ![bg] = op]
  BY <1>0 DEF Grant, RankType
<1>2. id \in OperationIds BY <1>0 DEF RankType, MaybeOperation, Identities
<1> HIDE DEF t, op
<1>3. /\ t.pending[bg] = None /\ t.active[bg] = op /\ t.completion[bg] = None
      /\ \A b \in LocalBGs : b # bg => t.pending[b] = r.pending[b] /\ t.active[b] = r.active[b]
  BY <1>0, <1>1 DEF RankType
<1>4. Apart(t) BY <1>1, <1>3 DEF Apart, WaitingApart, Holds
<1>5. \A i \in OperationIds : OperationPhases(r)[bg][i] = "waiting" <=> Holds(op, i)
  BY <1>0, PhaseFacts DEF op
<1>6. OperationPhases(r)[bg][id] = "waiting" BY <1>0, <1>2, <1>5 DEF Holds
<1>7. \A i \in OperationIds : OperationPhases(r)[bg][i] # "completed"
  BY <1>0, PhaseFacts DEF Holds
<1>8. OperationPhases(t) = [OperationPhases(r) EXCEPT ![bg][id] = "executing"]
  <2>1. OperationPhase(t, bg, id) = "executing" BY <1>0, <1>3 DEF OperationPhase, Holds
  <2>2. ASSUME NEW b \in LocalBGs, NEW i \in OperationIds, b # bg \/ i # id
        PROVE  OperationPhase(t, b, i) = OperationPhases(r)[b][i]
    <3>1. CASE b # bg
      <4>1. OperationPhase(t, b, i) = OperationPhase(r, b, i)
        BY <1>1, <1>3, <3>1 DEF OperationPhase
      <4> QED BY <4>1, PhasesShape
    <3>2. CASE b = bg /\ i # id
      <4>1. /\ ~Holds(op, i) /\ ~Holds(t.active[bg], i) /\ ~Holds(t.completion[bg], i)
            /\ ~Holds(t.pending[bg], i)
            /\ ~Holds(r.active[bg], i) /\ ~Holds(r.completion[bg], i)
            /\ ~Holds(r.pending[bg], i)
        BY <1>0, <1>3, <3>2 DEF Holds, op
      <4>2. OperationPhase(t, b, i) = "idle" /\ OperationPhase(r, b, i) = "idle"
        BY <3>2, <4>1 DEF OperationPhase, Holds
      <4> QED BY <4>2, PhasesShape
    <3> QED BY <2>2, <3>1, <3>2
  <2> HIDE DEF id
  <2> QED BY <1>2, <2>1, <2>2, PhasesShape, PhaseChange
<1>9. Owner(t) = Owner(r) BY <1>1 DEF Owner
<1> QED BY <1>2, <1>4, <1>6, <1>7, <1>8, <1>9 DEF t, op

\* A cycle completes what was executing, and then grants at most one operation.
LEMMA ServicePromise ==
  ASSUME NEW r, Consistent(r), Apart(r), NEW busBusy \in BOOLEAN, NEW t,
         ServiceBGTargeted(r, busBusy, t)
  PROVE  /\ Apart(t) /\ Owner(t) = Owner(r)
         /\ \/ OperationPhases(t) = Finished(r)
            \/ \E bg \in LocalBGs, id \in OperationIds : PhaseGranted(r, t, bg, id)
<1> DEFINE completed == CompleteActive(r)
           settled == SettleLifecycles(completed)
<1>1. /\ Consistent(completed) /\ \A b \in LocalBGs : completed.active[b] = None
      /\ Apart(completed) /\ OperationPhases(completed) = Finished(r)
      /\ Owner(completed) = Owner(r)
  BY CompleteActiveConsistent, CompletePromise
<1>2. t = DrainOrArbitrate(settled, busBusy) BY DEF ServiceBGTargeted
<1> HIDE DEF completed
<1>3. Consistent(settled) /\ \A b \in LocalBGs : settled.active[b] = None
  BY <1>1, SettleLifecyclesConsistent
<1>4. /\ settled.pending = completed.pending /\ settled.active = completed.active
      /\ settled.completion = completed.completion /\ settled.mode = completed.mode
  BY <1>1 DEF SettleLifecycles, Consistent, RankType
<1> HIDE DEF settled
<1>5. /\ Apart(settled) /\ OperationPhases(settled) = Finished(r)
      /\ Owner(settled) = Owner(r)
  BY <1>1, <1>4, SamePhases DEF Owner
<1>6. CASE settled.mode \in {"DRAINING", "ERROR_DRAINING"}
  <2>1. t = SettleMode(settled) BY <1>2, <1>6 DEF DrainOrArbitrate
  <2>2. /\ t.pending = settled.pending /\ t.active = settled.active
        /\ t.completion = settled.completion /\ t.mode # "LEGACY_RANK_WIDE"
    BY <1>3, <1>6, <2>1 DEF SettleMode, Consistent, RankType
  <2> QED BY <1>5, <1>6, <2>2, SamePhases DEF Owner
<1>7. CASE settled.mode = "CSC_BG_TARGETED" /\ ~busBusy
  <2> DEFINE open == {offset \in LocalBGs : Eligible(settled, (settled.cursor + offset) % NumBGs)}
             least == CHOOSE o \in open : \A other \in open : o <= other
             winner == (settled.cursor + least) % NumBGs
  <2>1. t = Arbitrate(settled) BY <1>2, <1>7 DEF DrainOrArbitrate
  <2>2. CASE open = {}
    <3>1. t = settled BY <2>1, <2>2 DEF Arbitrate
    <3> QED BY <1>5, <3>1
  <2>3. CASE open # {}
    <3>1. least \in open BY <2>3, LeastOffset
    <3>2. winner \in LocalBGs
      <4>1. \A i, j \in Nat, n \in Nat \ {0} : (i + j) % n \in 0 .. n - 1 OBVIOUS
      <4>2. settled.cursor \in Nat /\ least \in Nat /\ NumBGs \in Nat \ {0}
        BY <1>3, <3>1, RankAssumption DEF Consistent, RankType, LocalBGs
      <4> HIDE DEF least
      <4> QED BY <4>1, <4>2 DEF LocalBGs
    <3>3. Eligible(settled, winner) BY <3>1
    <3>4. t = Grant(settled, winner) BY <2>1, <2>3 DEF Arbitrate
    <3> DEFINE id == settled.pending[winner].id
    <3> HIDE DEF winner
    <3>5. /\ Apart(t) /\ Owner(t) = Owner(settled) /\ id \in OperationIds
          /\ OperationPhases(settled)[winner][id] = "waiting"
          /\ \A other \in OperationIds : OperationPhases(settled)[winner][other] # "completed"
          /\ OperationPhases(t) = [OperationPhases(settled) EXCEPT ![winner][id] = "executing"]
      BY <1>3, <1>5, <3>2, <3>3, <3>4, GrantPromise
    <3> HIDE DEF id
    <3>6. OperationPhases(r)[winner][id] = "waiting" BY <1>5, <3>2, <3>5 DEF Finished
    <3>7. Owner(r) # "legacy" BY <1>5, <1>7 DEF Owner
    <3>8. PhaseGranted(r, t, winner, id) BY <1>5, <3>5, <3>6, <3>7 DEF PhaseGranted
    <3> QED BY <1>5, <3>2, <3>5, <3>8
  <2> QED BY <2>2, <2>3
<1>8. CASE /\ settled.mode \notin {"DRAINING", "ERROR_DRAINING"}
           /\ ~(settled.mode = "CSC_BG_TARGETED" /\ ~busBusy)
  <2>1. t = settled BY <1>2, <1>8 DEF DrainOrArbitrate
  <2> QED BY <1>5, <2>1
<1> QED BY <1>6, <1>7, <1>8

\* The inductive invariant of the promise.
PromiseInv == IInv /\ Apart(rank)

\* The abstract steps, on the phases and the owner of two ranks.
LEMMA PromiseSteps ==
  /\ \A bg \in LocalBGs, id \in OperationIds :
       /\ PhaseAccepted(rank, rank', bg, id) => Promise!Accept(bg, id)
       /\ PhaseHandedOver(rank, rank', bg, id) => Promise!HandOver(bg, id)
       /\ PhaseGranted(rank, rank', bg, id) /\ Owner(rank') = Owner(rank) => Promise!Cycle
  /\ OperationPhases(rank') = Finished(rank) /\ Owner(rank') = Owner(rank) => Promise!Cycle
  /\ \A lost \in SUBSET LocalBGs :
       OperationPhases(rank') = WithoutWaiting(rank, lost) /\ Owner(rank') = Owner(rank)
         => Promise!Cancel
<1>1. ASSUME NEW bg \in LocalBGs, NEW id \in OperationIds, PhaseAccepted(rank, rank', bg, id)
      PROVE  Promise!Accept(bg, id)
  <2>1. Promise!In(bg, "waiting") = {} BY <1>1 DEF PhaseAccepted, Promise!In
  <2> QED BY <1>1, <2>1 DEF PhaseAccepted, Promise!Accept
<1>2. ASSUME NEW bg \in LocalBGs, NEW id \in OperationIds, PhaseHandedOver(rank, rank', bg, id)
      PROVE  Promise!HandOver(bg, id)
  BY <1>2 DEF PhaseHandedOver, Promise!HandOver
<1>3. ASSUME NEW bg \in LocalBGs, NEW id \in OperationIds, PhaseGranted(rank, rank', bg, id),
             Owner(rank') = Owner(rank)
      PROVE  Promise!Cycle
  BY <1>3 DEF PhaseGranted, Finished, Promise!Cycle
<1>4. ASSUME OperationPhases(rank') = Finished(rank), Owner(rank') = Owner(rank)
      PROVE  Promise!Cycle
  BY <1>4 DEF Finished, Promise!Cycle
<1>5. ASSUME NEW lost \in SUBSET LocalBGs,
             OperationPhases(rank') = WithoutWaiting(rank, lost), Owner(rank') = Owner(rank)
      PROVE  Promise!Cancel
  BY <1>5 DEF WithoutWaiting, Promise!Cancel
<1> QED BY <1>1, <1>2, <1>3, <1>4, <1>5

\* An idle rank shows every operation idle.
LEMMA PromiseInit == Init => PromiseInv /\ Promise!Init
<1> SUFFICES ASSUME Init PROVE PromiseInv /\ Promise!Init OBVIOUS
<1>1. rank = RankInit /\ IInv BY InitConsistent, RankAssumption DEF Init, IInv
<1>2. Apart(rank) BY <1>1 DEF Apart, WaitingApart, RankInit
<1>3. \A b \in LocalBGs, i \in OperationIds : OperationPhase(rank, b, i) = "idle"
  BY <1>1 DEF OperationPhase, RankInit
<1>4. OperationPhases(rank) = [b \in LocalBGs |-> [i \in OperationIds |-> "idle"]]
  BY <1>3 DEF OperationPhases
<1>5. Owner(rank) = "none" BY <1>1 DEF Owner, RankInit
<1> QED BY <1>1, <1>2, <1>4, <1>5 DEF PromiseInv, Promise!Init

\* Every step of the rank is a step of the promise, or changes nothing of it.
LEMMA PromiseStep ==
  PromiseInv /\ [Next]_vars => PromiseInv' /\ [Promise!Next]_(Promise!vars)
<1> SUFFICES ASSUME PromiseInv, [Next]_vars
             PROVE  PromiseInv' /\ [Promise!Next]_(Promise!vars)
  OBVIOUS
<1> DEFINE good == Apart(rank') /\ [Promise!Next]_(Promise!vars)
<1>0. Consistent(rank) /\ Apart(rank) /\ IInv' /\ rank \in RankType
  BY NextPreserves DEF PromiseInv, IInv, Consistent
<1> SUFFICES good BY <1>0 DEF PromiseInv
<1>1. ASSUME rank'.pending = rank.pending, rank'.active = rank.active,
             rank'.completion = rank.completion, Owner(rank') = Owner(rank)
      PROVE  good
  <2>1. Apart(rank') /\ OperationPhases(rank') = OperationPhases(rank) BY <1>0, <1>1, SamePhases
  <2>2. UNCHANGED Promise!vars BY <1>1, <2>1 DEF Promise!vars
  <2> QED BY <2>1, <2>2
<1>2. ASSUME NEW lost \in SUBSET LocalBGs, Apart(rank'),
             OperationPhases(rank') = WithoutWaiting(rank, lost), Owner(rank') = Owner(rank)
      PROVE  good
  BY <1>2, PromiseSteps DEF Promise!Next
<1>3. ASSUME NEW bg \in LocalBGs, NEW candidate, rank' = ValidateAndRetire(rank, bg, candidate)
      PROVE  good
  <2>1. CASE rank' = rank BY <1>1, <2>1
  <2>2. CASE rank' = Retire(rank, bg) /\ rank.completion[bg] # None
    <3>1. /\ Apart(rank') /\ rank.completion[bg].id \in OperationIds
          /\ PhaseHandedOver(rank, rank', bg, rank.completion[bg].id)
      BY <1>0, <2>2, RetirePromise
    <3> QED BY <3>1, PromiseSteps DEF Promise!Next
  <2>3. CASE rank' = BeginBGError(rank, bg)
    <3>1. /\ Apart(rank') /\ Owner(rank') = Owner(rank)
          /\ \E lost \in SUBSET LocalBGs : OperationPhases(rank') = WithoutWaiting(rank, lost)
      BY <1>0, <2>3, FlushPromise
    <3> QED BY <1>2, <3>1
  <2> QED BY <1>3, <2>1, <2>2, <2>3 DEF ValidateAndRetire
<1>4. ASSUME NEW bg \in LocalBGs, Submit(bg) PROVE good
  <2>1. PICK op \in Identities :
          /\ op.id \notin InUse(rank, bg)
          /\ rank' = SubmitBGTargetedOperation(rank, bg, op)
    BY <1>4 DEF Submit
  <2>2. /\ Apart(rank') /\ op.id \in OperationIds
        /\ \/ OperationPhases(rank') = OperationPhases(rank) /\ Owner(rank') = Owner(rank)
           \/ PhaseAccepted(rank, rank', bg, op.id)
    BY <1>0, <2>1, SubmitPromise DEF Identities
  <2>3. CASE OperationPhases(rank') = OperationPhases(rank) /\ Owner(rank') = Owner(rank)
    <3>1. UNCHANGED Promise!vars BY <2>3 DEF Promise!vars
    <3> QED BY <2>2, <3>1
  <2>4. CASE PhaseAccepted(rank, rank', bg, op.id) BY <2>2, <2>4, PromiseSteps DEF Promise!Next
  <2> QED BY <2>2, <2>3, <2>4
<1>5. ASSUME NEW bg \in LocalBGs, Poll(bg) \/ InjectCompletion(bg) PROVE good
  BY <1>3, <1>5 DEF Poll, InjectCompletion
<1>6. ASSUME NEW bg \in LocalBGs, Flush(bg) \/ Reset(bg) PROVE good
  <2>1. rank' \in {FlushBG(rank, bg), ResetBG(rank, bg), BeginBGError(rank, bg)}
    BY <1>6 DEF Flush, Reset
  <2>2. /\ Apart(rank') /\ Owner(rank') = Owner(rank)
        /\ \E lost \in SUBSET LocalBGs : OperationPhases(rank') = WithoutWaiting(rank, lost)
    BY <1>0, <2>1, FlushPromise
  <2> QED BY <1>2, <2>2
<1>7. ASSUME NEW busBusy \in BOOLEAN, Service(busBusy) PROVE good
  <2>1. /\ Apart(rank') /\ Owner(rank') = Owner(rank)
        /\ \/ OperationPhases(rank') = Finished(rank)
           \/ \E bg \in LocalBGs, id \in OperationIds : PhaseGranted(rank, rank', bg, id)
    BY <1>0, <1>7, ServicePromise DEF Service
  <2>2. Promise!Cycle BY <2>1, PromiseSteps
  <2> QED BY <2>1, <2>2 DEF Promise!Next
<1>8. CASE ModeExit
  <2>1. rank' \in {rank, [rank EXCEPT !.mode = "DRAINING"]}
    BY <1>8 DEF ModeExit, RequestTargetedModeExit
  <2>2. Owner(rank') = Owner(rank)
    BY <1>0, <1>8 DEF ModeExit, RequestTargetedModeExit, Owner, RankType
  <2>3. /\ rank'.pending = rank.pending /\ rank'.active = rank.active
        /\ rank'.completion = rank.completion
    BY <1>0, <2>1 DEF RankType
  <2> QED BY <1>1, <2>2, <2>3
<1>9. CASE ControlPIM
  <2>1. /\ rank'.pending = rank.pending /\ rank'.active = rank.active
        /\ rank'.completion = rank.completion
    BY <1>0, <1>9 DEF ControlPIM, LegacyEnter, LegacyLeave, RankType
  <2>2. Apart(rank') /\ OperationPhases(rank') = OperationPhases(rank) BY <1>0, <2>1, SamePhases
  <2>3. CASE rank.mode = "IDLE" /\ rank'.mode = "LEGACY_RANK_WIDE"
    <3>1. \A b \in LocalBGs : ~Outstanding(rank, b) BY <1>0, <2>3 DEF Consistent, QuietMode
    <3>2. \A b \in LocalBGs, i \in OperationIds : OperationPhases(rank)[b][i] = "idle"
      BY <3>1 DEF Outstanding, OperationPhases, OperationPhase
    <3>3. Promise!AcquireLegacy BY <2>2, <2>3, <3>2 DEF Promise!AcquireLegacy, Owner
    <3> QED BY <2>2, <3>3 DEF Promise!Next
  <2>4. CASE rank.mode = "LEGACY_RANK_WIDE" /\ rank'.mode = "DRAINING"
    <3>1. Promise!ReleaseLegacy BY <2>2, <2>4 DEF Promise!ReleaseLegacy, Owner
    <3> QED BY <2>2, <3>1 DEF Promise!Next
  <2>5. CASE rank' = rank BY <1>1, <2>5
  <2> QED BY <1>0, <1>9, <2>3, <2>4, <2>5 DEF ControlPIM, LegacyEnter, LegacyLeave, RankType
<1>10. CASE InjectBusyBit
  <2>1. PICK block \in Blocks :
          rank' = ValidateSharedOwnership([rank EXCEPT !.busy = @ \cup {block}])
    BY <1>10 DEF InjectBusyBit
  <2> DEFINE corrupt == [rank EXCEPT !.busy = @ \cup {block}]
  <2>2. /\ corrupt.active = rank.active /\ corrupt.completion = rank.completion
        /\ corrupt.pending = rank.pending /\ corrupt.mode = rank.mode
    BY <1>0 DEF RankType
  <2>3. rank' \in {corrupt, BeginRankFatalError(corrupt)} BY <2>1 DEF ValidateSharedOwnership
  <2>4. CASE rank' = corrupt BY <1>1, <2>2, <2>4 DEF Owner
  <2>5. CASE rank' = BeginRankFatalError(corrupt)
    <3>1. /\ rank'.active = rank.active /\ rank'.completion = rank.completion
          /\ rank'.mode = "ERROR_DRAINING" /\ rank'.pending = [b \in LocalBGs |-> None]
      BY <1>0, <2>5 DEF BeginRankFatalError, RankType
    <3> HIDE DEF corrupt
    <3>2. /\ Apart(rank') /\ Owner(rank') = "none"
          /\ \/ \E lost \in SUBSET LocalBGs :
                  OperationPhases(rank') = WithoutWaiting(rank, lost) /\ Owner(rank) = "none"
             \/ OperationPhases(rank') = OperationPhases(rank)
      BY <1>0, <2>2, <2>5, <3>1, FatalErrorPromise
    <3>3. CASE OperationPhases(rank') = OperationPhases(rank)
      BY <3>2, <3>3 DEF Promise!Next, Promise!ReleaseLegacy
    <3> QED BY <1>2, <3>2, <3>3
  <2> QED BY <2>3, <2>4, <2>5
<1>11. CASE UNCHANGED vars BY <1>1, <1>11 DEF vars
<1> HIDE DEF good
<1> QED BY <1>4, <1>5, <1>6, <1>7, <1>8, <1>9, <1>10, <1>11 DEF Next

\* The rank implements TargetedExecution, for any number of bank groups, masks and
\* generations: an accepted operation is cancelled before its grant or completes in
\* the cycle after it, once, however submissions, flushes, resets, errors and mode
\* changes interleave; one grant per cycle; never beside the legacy mode.
THEOREM PromiseKept == Spec => ImplementsTargetedExecution
<1> QED BY PromiseInit, PromiseStep, PTL DEF Spec, ImplementsTargetedExecution, Promise!Spec
=============================================================================
