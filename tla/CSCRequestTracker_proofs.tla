---------------------- MODULE CSCRequestTracker_proofs ----------------------
(***************************************************************************)
(* Proofs about CSCRequestTracker, for every set of ids and kinds and any  *)
(* number of wrong completions: type correctness and exact accounting.     *)
(***************************************************************************)
EXTENDS CSCRequestTracker, FiniteSetTheorems, TLAPS

LiveStates == {"WAITING_TO_SUBMIT", "ACCEPTED", "COMPLETED"}
FinalStates == {"RETIRED", "ABANDONED"}

\* A map from some tokens to states.
PartialMaps(states) == UNION {[D -> states] : D \in SUBSET Tokens}

TrackerType ==
  [entries : PartialMaps(LiveStates), history : PartialMaps(FinalStates),
   generation : 1 .. MaxGeneration, failed : BOOLEAN,
   created : Nat, issued : Nat, completed : Nat, abandoned : Nat]

\* The statistics agree with the finitely many live entries.
Balanced(t) ==
  /\ IsFiniteSet(DOMAIN t.entries)
  /\ t.created = t.issued + t.abandoned + WaitingCount(t)
  /\ t.issued = t.completed + AcceptedCount(t)

\* The inductive invariant: ids are taken from the allocated ones and live
\* entries from the current generation, so an honest call never fails.
IInv ==
  /\ tracker \in TrackerType
  /\ Balanced(tracker)
  /\ allocated \subseteq RequestIds
  /\ network = Entries(tracker, "ACCEPTED")
  /\ \A token \in DOMAIN tracker.entries \cup DOMAIN tracker.history : token.id \in allocated
  /\ \A token \in DOMAIN tracker.entries : token.generation = tracker.generation
  /\ \A x, y \in DOMAIN tracker.entries : x.id = y.id => x = y
  /\ injections \in 0 .. MaxInjections
  /\ tracker.failed => injections > 0

-----------------------------------------------------------------------------
(* Maps and counts.                                                        *)

\* What belonging to TrackerType says of the two maps.
LEMMA MapsTyped ==
  ASSUME NEW t \in TrackerType
  PROVE  /\ DOMAIN t.entries \subseteq Tokens
         /\ t.entries \in [DOMAIN t.entries -> LiveStates]
         /\ DOMAIN t.history \subseteq Tokens
         /\ t.history \in [DOMAIN t.history -> FinalStates]
<1>1. t.entries \in PartialMaps(LiveStates) /\ t.history \in PartialMaps(FinalStates)
  BY DEF TrackerType
<1>2. PICK D \in SUBSET Tokens : t.entries \in [D -> LiveStates] BY <1>1 DEF PartialMaps
<1>3. PICK E \in SUBSET Tokens : t.history \in [E -> FinalStates] BY <1>1 DEF PartialMaps
<1> QED BY <1>2, <1>3

\* A function on tokens is a partial map.
LEMMA MapsBuilt ==
  ASSUME NEW D \in SUBSET Tokens, NEW states, NEW f \in [D -> states]
  PROVE  f \in PartialMaps(states)
BY DEF PartialMaps

\* Counting live entries by state.
LEMMA CountsAreNumbers ==
  ASSUME NEW t, IsFiniteSet(DOMAIN t.entries), NEW state
  PROVE  /\ IsFiniteSet(Entries(t, state))
         /\ Cardinality(Entries(t, state)) \in Nat
<1>1. Entries(t, state) \subseteq DOMAIN t.entries BY DEF Entries
<1>2. IsFiniteSet(Entries(t, state)) BY <1>1, FS_Subset
<1> QED BY <1>2, FS_CardinalityType

\* A state nobody is in counts zero, and conversely.
LEMMA EmptyCount ==
  ASSUME NEW t, IsFiniteSet(DOMAIN t.entries), NEW state
  PROVE  Cardinality(Entries(t, state)) = 0 <=> Entries(t, state) = {}
BY CountsAreNumbers, FS_EmptySet

\* One entry more, or one less, in a state.
LEMMA CountChanges ==
  ASSUME NEW t, IsFiniteSet(DOMAIN t.entries), NEW state, NEW token
  PROVE  /\ token \notin Entries(t, state) =>
              Cardinality(Entries(t, state) \cup {token}) = Cardinality(Entries(t, state)) + 1
         /\ token \in Entries(t, state) =>
              Cardinality(Entries(t, state) \ {token}) = Cardinality(Entries(t, state)) - 1
BY CountsAreNumbers, FS_AddElement, FS_RemoveElement

-----------------------------------------------------------------------------
(* Operations.                                                             *)

\* The start, and what a reset leaves.
LEMMA InitBalanced ==
  ASSUME NEW g \in 1 .. MaxGeneration
  PROVE  /\ TrackerInit(g) \in TrackerType /\ Balanced(TrackerInit(g))
         /\ DOMAIN TrackerInit(g).entries = {} /\ DOMAIN TrackerInit(g).history = {}
         /\ TrackerInit(g).generation = g /\ TrackerInit(g).failed = FALSE
<1> DEFINE t == TrackerInit(g)
           w == [token \in {} |-> "WAITING_TO_SUBMIT"]
           r == [token \in {} |-> "RETIRED"]
<1>1. w \in PartialMaps(LiveStates) /\ r \in PartialMaps(FinalStates)
  <2>1. w \in [{} -> LiveStates] /\ r \in [{} -> FinalStates] OBVIOUS
  <2> HIDE DEF w, r
  <2> QED BY <2>1, MapsBuilt
<1>2. /\ DOMAIN t.entries = {} /\ DOMAIN t.history = {}
      /\ t.generation = g /\ t.failed = FALSE
      /\ t.created = 0 /\ t.issued = 0 /\ t.completed = 0 /\ t.abandoned = 0
  BY DEF TrackerInit
<1>3. t \in TrackerType BY <1>1 DEF TrackerInit, TrackerType
<1> HIDE DEF t
<1>4. Balanced(t)
  <2>1. \A state : Entries(t, state) = {} BY <1>2 DEF Entries
  <2> QED BY <1>2, <2>1, FS_EmptySet DEF Balanced, WaitingCount, AcceptedCount
<1>5. /\ t \in TrackerType /\ Balanced(t)
      /\ DOMAIN t.entries = {} /\ DOMAIN t.history = {}
      /\ t.generation = g /\ t.failed = FALSE
  BY <1>2, <1>3, <1>4
<1> QED BY <1>5 DEF t

\* A failed call changes the error flag only.
LEMMA FailBalanced ==
  ASSUME NEW t \in TrackerType, Balanced(t)
  PROVE  LET s == Fail(t).tracker
         IN  /\ s \in TrackerType /\ Balanced(s)
             /\ s.entries = t.entries /\ s.history = t.history
             /\ s.generation = t.generation
<1> DEFINE s == Fail(t).tracker
<1>1. /\ s \in TrackerType
      /\ s.entries = t.entries /\ s.history = t.history
      /\ s.generation = t.generation /\ s.created = t.created
      /\ s.issued = t.issued /\ s.completed = t.completed /\ s.abandoned = t.abandoned
  BY DEF Fail, Result, TrackerType
<1> HIDE DEF s
<1>2. Balanced(s) BY <1>1 DEF Balanced, WaitingCount, AcceptedCount, Entries
<1>3. /\ s \in TrackerType /\ Balanced(s)
      /\ s.entries = t.entries /\ s.history = t.history /\ s.generation = t.generation
  BY <1>1, <1>2
<1> QED BY <1>3 DEF s

\* A new request waits.
LEMMA CreateBalanced ==
  ASSUME NEW t \in TrackerType, Balanced(t), NEW token \in Tokens,
         token.generation = t.generation,
         ~Known(t.entries, token.id), ~Known(t.history, token.id)
  PROVE  LET s == Create(t, token).tracker
         IN  /\ s \in TrackerType /\ Balanced(s)
             /\ DOMAIN s.entries = DOMAIN t.entries \cup {token}
             /\ Entries(s, "ACCEPTED") = Entries(t, "ACCEPTED")
             /\ s.history = t.history /\ s.generation = t.generation /\ s.failed = t.failed
<1> DEFINE s == Create(t, token).tracker
           new == Bind(t.entries, token, "WAITING_TO_SUBMIT")
           D == DOMAIN t.entries \cup {token}
<1>1. token \notin DOMAIN t.entries BY DEF Known
<1>2. D \in SUBSET Tokens /\ new \in [D -> LiveStates] BY MapsTyped DEF Bind, LiveStates
<1>3. new \in PartialMaps(LiveStates)
  <2> HIDE DEF new, D
  <2> QED BY <1>2, MapsBuilt
<1>4. /\ s \in TrackerType
      /\ s.entries = new /\ s.created = t.created + 1
      /\ s.history = t.history /\ s.generation = t.generation /\ s.failed = t.failed
      /\ s.issued = t.issued /\ s.completed = t.completed /\ s.abandoned = t.abandoned
  <2> DEFINE n == t.created + 1
  <2>1. s = [t EXCEPT !.entries = new, !.created = n] BY DEF Create, Result
  <2>2. n \in Nat BY DEF TrackerType
  <2> HIDE DEF s, new, n
  <2>3. /\ s \in TrackerType
        /\ s.entries = new /\ s.created = n
        /\ s.history = t.history /\ s.generation = t.generation /\ s.failed = t.failed
        /\ s.issued = t.issued /\ s.completed = t.completed /\ s.abandoned = t.abandoned
    BY <1>3, <2>1, <2>2 DEF TrackerType
  <2> QED BY <2>3 DEF n
<1> HIDE DEF s
<1>5. /\ DOMAIN s.entries = D
      /\ Entries(s, "WAITING_TO_SUBMIT") = Entries(t, "WAITING_TO_SUBMIT") \cup {token}
      /\ Entries(s, "ACCEPTED") = Entries(t, "ACCEPTED")
  BY <1>1, <1>4, MapsTyped DEF Bind, Entries
<1>6. token \notin Entries(t, "WAITING_TO_SUBMIT") BY <1>1 DEF Entries
<1>7. Balanced(s)
  <2>1. IsFiniteSet(DOMAIN t.entries) BY DEF Balanced
  <2>2. IsFiniteSet(DOMAIN s.entries) BY <1>5, <2>1, FS_AddElement
  <2>3. WaitingCount(s) = WaitingCount(t) + 1 /\ AcceptedCount(s) = AcceptedCount(t)
    BY <1>5, <1>6, <2>1, CountChanges DEF WaitingCount, AcceptedCount
  <2>4. WaitingCount(t) \in Nat /\ AcceptedCount(t) \in Nat
    BY <2>1, CountsAreNumbers DEF WaitingCount, AcceptedCount
  <2>5. {t.created, t.issued, t.completed, t.abandoned} \subseteq Nat BY DEF TrackerType
  <2> QED BY <1>4, <2>2, <2>3, <2>4, <2>5 DEF Balanced
<1>8. /\ s \in TrackerType /\ Balanced(s)
      /\ DOMAIN s.entries = D
      /\ Entries(s, "ACCEPTED") = Entries(t, "ACCEPTED")
      /\ s.history = t.history /\ s.generation = t.generation /\ s.failed = t.failed
  BY <1>4, <1>5, <1>7
<1> QED BY <1>8 DEF s

\* A request that changes state keeps the entries and moves one token.
LEMMA MoveEntry ==
  ASSUME NEW t \in TrackerType, NEW s, NEW token \in DOMAIN t.entries, NEW to \in LiveStates,
         s.entries = [t.entries EXCEPT ![token] = to]
  PROVE  /\ s.entries \in PartialMaps(LiveStates)
         /\ DOMAIN s.entries = DOMAIN t.entries
         /\ \A state : state # to /\ state # t.entries[token] => Entries(s, state) = Entries(t, state)
         /\ Entries(s, to) = Entries(t, to) \cup {token}
         /\ t.entries[token] # to =>
              Entries(s, t.entries[token]) = Entries(t, t.entries[token]) \ {token}
<1>1. /\ DOMAIN t.entries \in SUBSET Tokens
      /\ t.entries \in [DOMAIN t.entries -> LiveStates]
  BY MapsTyped
<1>2. s.entries \in [DOMAIN t.entries -> LiveStates] BY <1>1
<1>3. s.entries \in PartialMaps(LiveStates) BY <1>1, <1>2, MapsBuilt
<1>4. DOMAIN s.entries = DOMAIN t.entries BY <1>1
<1>5. \A x \in DOMAIN t.entries : s.entries[x] = IF x = token THEN to ELSE t.entries[x] BY <1>1
<1> QED BY <1>3, <1>4, <1>5 DEF Entries

\* The memory system takes a waiting request.
LEMMA AcceptBalanced ==
  ASSUME NEW t \in TrackerType, Balanced(t), NEW token \in Entries(t, "WAITING_TO_SUBMIT")
  PROVE  LET s == RecordAccepted(t, token).tracker
         IN  /\ s \in TrackerType /\ Balanced(s)
             /\ DOMAIN s.entries = DOMAIN t.entries
             /\ Entries(s, "ACCEPTED") = Entries(t, "ACCEPTED") \cup {token}
             /\ s.history = t.history /\ s.generation = t.generation /\ s.failed = t.failed
<1> DEFINE s == RecordAccepted(t, token).tracker
           new == [t.entries EXCEPT ![token] = "ACCEPTED"]
<1>1. /\ token \in DOMAIN t.entries /\ t.entries[token] = "WAITING_TO_SUBMIT"
      /\ "ACCEPTED" \in LiveStates /\ IsFiniteSet(DOMAIN t.entries)
  BY DEF Entries, LiveStates, Balanced
<1> DEFINE n == t.issued + 1
<1>2. s = [t EXCEPT !.entries = new, !.issued = n] /\ n \in Nat
  BY DEF RecordAccepted, Result, TrackerType
<1> HIDE DEF s, n
<1>3. s.entries = new BY <1>2 DEF TrackerType
<1>4. /\ new \in PartialMaps(LiveStates)
      /\ DOMAIN s.entries = DOMAIN t.entries
      /\ Entries(s, "ACCEPTED") = Entries(t, "ACCEPTED") \cup {token}
      /\ Entries(s, "WAITING_TO_SUBMIT") = Entries(t, "WAITING_TO_SUBMIT") \ {token}
  BY <1>1, <1>3, MoveEntry
<1> HIDE DEF new
<1>5. /\ s \in TrackerType
      /\ s.history = t.history /\ s.generation = t.generation /\ s.failed = t.failed
      /\ s.created = t.created /\ s.issued = n
      /\ s.completed = t.completed /\ s.abandoned = t.abandoned
  BY <1>2, <1>4 DEF TrackerType
<1>6. Balanced(s)
  <2>1. token \notin Entries(t, "ACCEPTED") BY <1>1 DEF Entries
  <2>2. WaitingCount(s) = WaitingCount(t) - 1 /\ AcceptedCount(s) = AcceptedCount(t) + 1
    BY <1>1, <1>4, <2>1, CountChanges DEF WaitingCount, AcceptedCount
  <2>3. WaitingCount(t) \in Nat /\ AcceptedCount(t) \in Nat
    BY <1>1, CountsAreNumbers DEF WaitingCount, AcceptedCount
  <2>4. {t.created, t.issued, t.completed, t.abandoned} \subseteq Nat BY DEF TrackerType
  <2> QED BY <1>1, <1>4, <1>5, <2>2, <2>3, <2>4 DEF Balanced, n
<1>7. /\ s \in TrackerType /\ Balanced(s)
      /\ DOMAIN s.entries = DOMAIN t.entries
      /\ Entries(s, "ACCEPTED") = Entries(t, "ACCEPTED") \cup {token}
      /\ s.history = t.history /\ s.generation = t.generation /\ s.failed = t.failed
  BY <1>4, <1>5, <1>6
<1> QED BY <1>7 DEF s

\* An accepted request of the current generation completes.
LEMMA CompleteBalanced ==
  ASSUME NEW t \in TrackerType, Balanced(t), NEW token \in Entries(t, "ACCEPTED"),
         token.generation = t.generation
  PROVE  LET s == Complete(t, token).tracker
         IN  /\ s \in TrackerType /\ Balanced(s)
             /\ DOMAIN s.entries = DOMAIN t.entries
             /\ Entries(s, "ACCEPTED") = Entries(t, "ACCEPTED") \ {token}
             /\ s.history = t.history /\ s.generation = t.generation /\ s.failed = t.failed
<1> DEFINE s == Complete(t, token).tracker
           new == [t.entries EXCEPT ![token] = "COMPLETED"]
<1>1. /\ token \in DOMAIN t.entries /\ t.entries[token] = "ACCEPTED"
      /\ "COMPLETED" \in LiveStates /\ IsFiniteSet(DOMAIN t.entries)
  BY DEF Entries, LiveStates, Balanced
<1> DEFINE n == t.completed + 1
<1>2. s = [t EXCEPT !.entries = new, !.completed = n] /\ n \in Nat
  BY DEF Complete, Result, TrackerType
<1> HIDE DEF s, n
<1>3. s.entries = new BY <1>2 DEF TrackerType
<1>4. /\ new \in PartialMaps(LiveStates)
      /\ DOMAIN s.entries = DOMAIN t.entries
      /\ Entries(s, "ACCEPTED") = Entries(t, "ACCEPTED") \ {token}
      /\ Entries(s, "WAITING_TO_SUBMIT") = Entries(t, "WAITING_TO_SUBMIT")
  BY <1>1, <1>3, MoveEntry
<1> HIDE DEF new
<1>5. /\ s \in TrackerType
      /\ s.history = t.history /\ s.generation = t.generation /\ s.failed = t.failed
      /\ s.created = t.created /\ s.issued = t.issued
      /\ s.completed = n /\ s.abandoned = t.abandoned
  BY <1>2, <1>4 DEF TrackerType
<1>6. Balanced(s)
  <2>1. WaitingCount(s) = WaitingCount(t) /\ AcceptedCount(s) = AcceptedCount(t) - 1
    BY <1>1, <1>4, CountChanges DEF WaitingCount, AcceptedCount
  <2>2. WaitingCount(t) \in Nat /\ AcceptedCount(t) \in Nat
    BY <1>1, CountsAreNumbers DEF WaitingCount, AcceptedCount
  <2>3. {t.created, t.issued, t.completed, t.abandoned} \subseteq Nat BY DEF TrackerType
  <2> QED BY <1>1, <1>4, <1>5, <2>1, <2>2, <2>3 DEF Balanced, n
<1>7. /\ s \in TrackerType /\ Balanced(s)
      /\ DOMAIN s.entries = DOMAIN t.entries
      /\ Entries(s, "ACCEPTED") = Entries(t, "ACCEPTED") \ {token}
      /\ s.history = t.history /\ s.generation = t.generation /\ s.failed = t.failed
  BY <1>4, <1>5, <1>6
<1> QED BY <1>7 DEF s

\* Entries that leave go to the history.
LEMMA LeaveEntries ==
  ASSUME NEW t \in TrackerType, Balanced(t), NEW Gone, Gone \subseteq DOMAIN t.entries,
         NEW f, f = Restrict(t.entries, DOMAIN t.entries \ Gone)
  PROVE  /\ f \in PartialMaps(LiveStates)
         /\ DOMAIN f = DOMAIN t.entries \ Gone
         /\ IsFiniteSet(DOMAIN f)
         /\ \A x \in DOMAIN f : f[x] = t.entries[x]
<1> DEFINE D == DOMAIN t.entries \ Gone
<1>1. /\ DOMAIN t.entries \in SUBSET Tokens /\ IsFiniteSet(DOMAIN t.entries)
      /\ t.entries \in [DOMAIN t.entries -> LiveStates]
  BY MapsTyped DEF Balanced
<1>2. f = [x \in D |-> t.entries[x]] BY DEF Restrict
<1>3. D \in SUBSET Tokens /\ f \in [D -> LiveStates] BY <1>1, <1>2
<1>4. f \in PartialMaps(LiveStates)
  <2> HIDE DEF D
  <2> QED BY <1>3, MapsBuilt
<1>5. IsFiniteSet(D) BY <1>1, FS_Subset
<1>6. DOMAIN f = D /\ \A x \in D : f[x] = t.entries[x] BY <1>2
<1> QED BY <1>4, <1>5, <1>6

\* A completed request is retired.
LEMMA RetireBalanced ==
  ASSUME NEW t \in TrackerType, Balanced(t), NEW token \in Entries(t, "COMPLETED")
  PROVE  LET s == Retire(t, token).tracker
         IN  /\ s \in TrackerType /\ Balanced(s)
             /\ DOMAIN s.entries \subseteq DOMAIN t.entries
             /\ DOMAIN s.history = DOMAIN t.history \cup {token}
             /\ Entries(s, "ACCEPTED") = Entries(t, "ACCEPTED")
             /\ s.generation = t.generation /\ s.failed = t.failed
<1> DEFINE s == Retire(t, token).tracker
           live == Restrict(t.entries, DOMAIN t.entries \ {token})
           past == Bind(t.history, token, "RETIRED")
           E == DOMAIN t.history \cup {token}
<1>1. /\ token \in DOMAIN t.entries /\ t.entries[token] = "COMPLETED"
      /\ {token} \in SUBSET DOMAIN t.entries
  BY DEF Entries
<1>2. E \in SUBSET Tokens /\ past \in [E -> FinalStates] /\ DOMAIN past = E
  BY <1>1, MapsTyped DEF Bind, FinalStates
<1>3. past \in PartialMaps(FinalStates)
  <2> HIDE DEF past, E
  <2> QED BY <1>2, MapsBuilt
<1>4. s = [t EXCEPT !.entries = live, !.history = past] BY DEF Retire, Result
<1> HIDE DEF s, past
<1>5. s.entries = live /\ s.history = past BY <1>4 DEF TrackerType
<1>6. /\ live \in PartialMaps(LiveStates)
      /\ DOMAIN live = DOMAIN t.entries \ {token}
      /\ IsFiniteSet(DOMAIN live)
      /\ \A x \in DOMAIN live : live[x] = t.entries[x]
  <2> DEFINE gone == {token}
             f == Restrict(t.entries, DOMAIN t.entries \ gone)
  <2>1. gone \subseteq DOMAIN t.entries BY <1>1
  <2>2. /\ f \in PartialMaps(LiveStates) /\ DOMAIN f = DOMAIN t.entries \ gone
        /\ IsFiniteSet(DOMAIN f) /\ \A x \in DOMAIN f : f[x] = t.entries[x]
    <3>1. f = Restrict(t.entries, DOMAIN t.entries \ gone) OBVIOUS
    <3> HIDE DEF gone, f
    <3> QED BY <2>1, <3>1, LeaveEntries
  <2> QED BY <2>2
<1> HIDE DEF live
<1>7. /\ s \in TrackerType
      /\ s.generation = t.generation /\ s.failed = t.failed
      /\ s.created = t.created /\ s.issued = t.issued
      /\ s.completed = t.completed /\ s.abandoned = t.abandoned
  BY <1>3, <1>4, <1>6 DEF TrackerType
<1>8. /\ Entries(s, "ACCEPTED") = Entries(t, "ACCEPTED")
      /\ Entries(s, "WAITING_TO_SUBMIT") = Entries(t, "WAITING_TO_SUBMIT")
  BY <1>1, <1>5, <1>6 DEF Entries
<1>9. Balanced(s) BY <1>5, <1>6, <1>7, <1>8 DEF Balanced, WaitingCount, AcceptedCount
<1>10. /\ s \in TrackerType /\ Balanced(s)
       /\ DOMAIN s.entries \subseteq DOMAIN t.entries
       /\ DOMAIN s.history = DOMAIN t.history \cup {token}
       /\ Entries(s, "ACCEPTED") = Entries(t, "ACCEPTED")
       /\ s.generation = t.generation /\ s.failed = t.failed
  BY <1>2, <1>5, <1>6, <1>7, <1>8, <1>9
<1> QED BY <1>10 DEF s

\* Everything that still waits is abandoned.
LEMMA AbandonBalanced ==
  ASSUME NEW t \in TrackerType, Balanced(t)
  PROVE  LET s == AbandonWaiting(t)
         IN  /\ s \in TrackerType /\ Balanced(s)
             /\ DOMAIN s.entries \subseteq DOMAIN t.entries
             /\ DOMAIN s.history \subseteq DOMAIN t.history \cup DOMAIN t.entries
             /\ Entries(s, "ACCEPTED") = Entries(t, "ACCEPTED")
             /\ s.generation = t.generation /\ s.failed = t.failed
<1> DEFINE s == AbandonWaiting(t)
           waiting == Entries(t, "WAITING_TO_SUBMIT")
           live == Restrict(t.entries, DOMAIN t.entries \ waiting)
           E == DOMAIN t.history \cup waiting
           past == [token \in E |-> IF token \in waiting THEN "ABANDONED" ELSE t.history[token]]
<1>1. waiting \in SUBSET DOMAIN t.entries BY DEF Entries
<1>2. E \in SUBSET Tokens /\ past \in [E -> FinalStates] /\ DOMAIN past = E
  BY <1>1, MapsTyped DEF FinalStates
<1>3. past \in PartialMaps(FinalStates)
  <2> HIDE DEF past, E
  <2> QED BY <1>2, MapsBuilt
<1> DEFINE n == t.abandoned + Cardinality(waiting)
<1>4. s = [t EXCEPT !.entries = live, !.history = past, !.abandoned = n] BY DEF AbandonWaiting
<1> HIDE DEF s, past
<1>5. s.entries = live /\ s.history = past BY <1>4 DEF TrackerType
<1>6. /\ live \in PartialMaps(LiveStates)
      /\ DOMAIN live = DOMAIN t.entries \ waiting
      /\ IsFiniteSet(DOMAIN live)
      /\ \A x \in DOMAIN live : live[x] = t.entries[x]
  <2>1. live = Restrict(t.entries, DOMAIN t.entries \ waiting) OBVIOUS
  <2>2. waiting \subseteq DOMAIN t.entries BY <1>1
  <2> HIDE DEF waiting, live
  <2> QED BY <2>1, <2>2, LeaveEntries
<1>7. WaitingCount(t) \in Nat /\ Cardinality(waiting) = WaitingCount(t)
  BY CountsAreNumbers DEF Balanced, WaitingCount
<1> HIDE DEF live
<1>8. /\ Entries(s, "ACCEPTED") = Entries(t, "ACCEPTED")
      /\ Entries(s, "WAITING_TO_SUBMIT") = {}
  BY <1>5, <1>6 DEF Entries
<1> HIDE DEF waiting
<1>12. n = t.abandoned + WaitingCount(t) /\ n \in Nat BY <1>7 DEF TrackerType
<1> HIDE DEF n
<1>9. /\ s \in TrackerType
      /\ s.generation = t.generation /\ s.failed = t.failed
      /\ s.created = t.created /\ s.issued = t.issued
      /\ s.completed = t.completed /\ s.abandoned = n
  BY <1>3, <1>4, <1>6, <1>12 DEF TrackerType
<1>10. Balanced(s)
  <2>1. WaitingCount(s) = 0 /\ AcceptedCount(s) = AcceptedCount(t)
    BY <1>8, FS_EmptySet DEF WaitingCount, AcceptedCount
  <2>2. {t.created, t.issued, t.completed, t.abandoned} \subseteq Nat BY DEF TrackerType
  <2> QED BY <1>5, <1>6, <1>7, <1>9, <1>12, <2>1, <2>2 DEF Balanced
<1>11. /\ s \in TrackerType /\ Balanced(s)
       /\ DOMAIN s.entries \subseteq DOMAIN t.entries
       /\ DOMAIN s.history \subseteq DOMAIN t.history \cup DOMAIN t.entries
       /\ Entries(s, "ACCEPTED") = Entries(t, "ACCEPTED")
       /\ s.generation = t.generation /\ s.failed = t.failed
  BY <1>1, <1>2, <1>5, <1>6, <1>8, <1>9, <1>10
<1> QED BY <1>11 DEF s

-----------------------------------------------------------------------------
(* The invariant.                                                          *)

\* Every step of the engine, the memory system and the wrong completions
\* keeps the invariant.
LEMMA NextPreserves ==
  ASSUME TrackerAssumption, IInv, Next
  PROVE  IInv'
<1>0. tracker \in TrackerType /\ Balanced(tracker) BY DEF IInv
<1>1. CASE DoCreate
  <2>1. PICK token \in Tokens :
          /\ token.id \notin allocated /\ token.generation = tracker.generation
          /\ allocated' = allocated \cup {token.id}
          /\ tracker' = Create(tracker, token).tracker
    BY <1>1 DEF DoCreate
  <2>2. ~Known(tracker.entries, token.id) /\ ~Known(tracker.history, token.id)
    BY <2>1 DEF Known, IInv
  <2>3. /\ tracker' \in TrackerType /\ Balanced(tracker')
        /\ DOMAIN tracker'.entries = DOMAIN tracker.entries \cup {token}
        /\ Entries(tracker', "ACCEPTED") = Entries(tracker, "ACCEPTED")
        /\ tracker'.history = tracker.history
        /\ tracker'.generation = tracker.generation /\ tracker'.failed = tracker.failed
    BY <1>0, <2>1, <2>2, CreateBalanced
  <2>4. token.id \in RequestIds BY DEF Tokens
  <2> QED BY <1>1, <2>1, <2>3, <2>4 DEF IInv, DoCreate
<1>2. CASE DoAccept
  <2>1. PICK token \in Entries(tracker, "WAITING_TO_SUBMIT") :
          /\ tracker' = RecordAccepted(tracker, token).tracker
          /\ network' = network \cup {token}
    BY <1>2 DEF DoAccept
  <2>2. /\ tracker' \in TrackerType /\ Balanced(tracker')
        /\ DOMAIN tracker'.entries = DOMAIN tracker.entries
        /\ Entries(tracker', "ACCEPTED") = Entries(tracker, "ACCEPTED") \cup {token}
        /\ tracker'.history = tracker.history
        /\ tracker'.generation = tracker.generation /\ tracker'.failed = tracker.failed
    BY <1>0, <2>1, AcceptBalanced
  <2> QED BY <1>2, <2>1, <2>2 DEF IInv, DoAccept
<1>3. CASE DoComplete
  <2>1. PICK token \in network :
          /\ tracker' = Complete(tracker, token).tracker
          /\ network' = network \ {token}
    BY <1>3 DEF DoComplete
  <2>2. token \in Entries(tracker, "ACCEPTED") /\ token.generation = tracker.generation
    BY <2>1 DEF IInv, Entries
  <2>3. /\ tracker' \in TrackerType /\ Balanced(tracker')
        /\ DOMAIN tracker'.entries = DOMAIN tracker.entries
        /\ Entries(tracker', "ACCEPTED") = Entries(tracker, "ACCEPTED") \ {token}
        /\ tracker'.history = tracker.history
        /\ tracker'.generation = tracker.generation /\ tracker'.failed = tracker.failed
    BY <1>0, <2>1, <2>2, CompleteBalanced
  <2> QED BY <1>3, <2>1, <2>3 DEF IInv, DoComplete
<1>4. CASE DoRetire
  <2>1. PICK token \in Entries(tracker, "COMPLETED") :
          tracker' = Retire(tracker, token).tracker
    BY <1>4 DEF DoRetire
  <2>2. /\ tracker' \in TrackerType /\ Balanced(tracker')
        /\ DOMAIN tracker'.entries \subseteq DOMAIN tracker.entries
        /\ DOMAIN tracker'.history = DOMAIN tracker.history \cup {token}
        /\ Entries(tracker', "ACCEPTED") = Entries(tracker, "ACCEPTED")
        /\ tracker'.generation = tracker.generation /\ tracker'.failed = tracker.failed
    BY <1>0, <2>1, RetireBalanced
  <2>3. token \in DOMAIN tracker.entries BY <2>1 DEF Entries
  <2> QED BY <1>4, <2>2, <2>3 DEF IInv, DoRetire
<1>5. CASE DoAbandonWaiting
  <2>1. /\ tracker' \in TrackerType /\ Balanced(tracker')
        /\ DOMAIN tracker'.entries \subseteq DOMAIN tracker.entries
        /\ DOMAIN tracker'.history \subseteq DOMAIN tracker.history \cup DOMAIN tracker.entries
        /\ Entries(tracker', "ACCEPTED") = Entries(tracker, "ACCEPTED")
        /\ tracker'.generation = tracker.generation /\ tracker'.failed = tracker.failed
    BY <1>0, <1>5, AbandonBalanced DEF DoAbandonWaiting
  <2> QED BY <1>5, <2>1 DEF IInv, DoAbandonWaiting
<1>6. CASE DoReset
  <2>1. PICK generation \in {0} \cup (tracker.generation + 1 .. MaxGeneration) :
          tracker' = Reset(tracker, generation)
    BY <1>6 DEF DoReset
  <2> DEFINE g == IF generation = 0 THEN tracker.generation ELSE generation
  <2>2. g \in 1 .. MaxGeneration BY <1>0 DEF TrackerType, TrackerAssumption
  <2>3. tracker' = TrackerInit(g) BY <2>1 DEF Reset
  <2> HIDE DEF g
  <2>4. /\ tracker' \in TrackerType /\ Balanced(tracker')
        /\ DOMAIN tracker'.entries = {} /\ DOMAIN tracker'.history = {}
        /\ tracker'.failed = FALSE
    BY <2>2, <2>3, InitBalanced
  <2>5. Entries(tracker, "ACCEPTED") = {}
    BY <1>0, <1>6, EmptyCount DEF DoReset, MayReset, AcceptedCount, Balanced
  <2>6. Entries(tracker', "ACCEPTED") = {} BY <2>4 DEF Entries
  <2> QED BY <1>6, <2>4, <2>5, <2>6 DEF IInv, DoReset
<1>7. ASSUME tracker' = Fail(tracker).tracker, injections < MaxInjections,
             injections' = injections + 1, UNCHANGED <<allocated, network>>
      PROVE  IInv'
  <2>1. /\ tracker' \in TrackerType /\ Balanced(tracker')
        /\ tracker'.entries = tracker.entries /\ tracker'.history = tracker.history
        /\ tracker'.generation = tracker.generation
    BY <1>0, <1>7, FailBalanced
  <2>2. Entries(tracker', "ACCEPTED") = Entries(tracker, "ACCEPTED") BY <2>1 DEF Entries
  <2>3. injections' \in 0 .. MaxInjections /\ injections' > 0
    BY <1>7 DEF IInv, TrackerAssumption
  <2> QED BY <1>7, <2>1, <2>2, <2>3 DEF IInv
<1>8. CASE InjectCompletion
  <2>1. PICK token \in Tokens \ network : tracker' = Complete(tracker, token).tracker
    BY <1>8 DEF InjectCompletion
  <2>2. token \notin Entries(tracker, "ACCEPTED") BY <2>1 DEF IInv
  <2>3. tracker' = Fail(tracker).tracker BY <2>1, <2>2 DEF Complete
  <2> QED BY <1>7, <1>8, <2>3 DEF InjectCompletion
<1>9. CASE InjectDuplicate
  <2>1. PICK token \in Tokens :
          /\ Known(tracker.entries, token.id) \/ Known(tracker.history, token.id)
          /\ tracker' = Create(tracker, token).tracker
    BY <1>9 DEF InjectDuplicate
  <2>2. tracker' = Fail(tracker).tracker BY <2>1 DEF Create
  <2> QED BY <1>7, <1>9, <2>2 DEF InjectDuplicate
<1> QED BY <1>1, <1>2, <1>3, <1>4, <1>5, <1>6, <1>8, <1>9 DEF Next

\* The invariant holds throughout, whatever arrives from outside.
THEOREM Invariance == Spec => []IInv
<1>1. Init => IInv
  <2> SUFFICES ASSUME Init PROVE IInv OBVIOUS
  <2>1. 1 \in 1 .. MaxGeneration BY TrackerAssumption DEF TrackerAssumption
  <2>2. /\ tracker \in TrackerType /\ Balanced(tracker)
        /\ DOMAIN tracker.entries = {} /\ DOMAIN tracker.history = {}
        /\ tracker.failed = FALSE
    BY <2>1, InitBalanced DEF Init
  <2>3. Entries(tracker, "ACCEPTED") = {} BY <2>2 DEF Entries
  <2> QED BY <2>2, <2>3, TrackerAssumption DEF Init, IInv, TrackerAssumption
<1>2. IInv /\ [Next]_vars => IInv'
  <2>1. CASE Next BY <2>1, NextPreserves, TrackerAssumption
  <2>2. CASE UNCHANGED vars
    BY <2>2 DEF vars, IInv, Balanced, WaitingCount, AcceptedCount, Entries
  <2> QED BY <2>1, <2>2
<1> QED BY <1>1, <1>2, PTL DEF Spec

\* The tracker's maps, counters and flags keep their types.
THEOREM TypeCorrect == Spec => []TypeOK
<1>1. IInv => TypeOK
  <2> SUFFICES ASSUME IInv PROVE TypeOK OBVIOUS
  <2>1. tracker \in TrackerType BY DEF IInv
  <2>2. Entries(tracker, "ACCEPTED") \subseteq DOMAIN tracker.entries BY DEF Entries
  <2>3. /\ DOMAIN tracker.entries \subseteq Tokens
        /\ \A token \in DOMAIN tracker.entries : tracker.entries[token] \in LiveStates
        /\ DOMAIN tracker.history \subseteq Tokens
        /\ \A token \in DOMAIN tracker.history : tracker.history[token] \in FinalStates
    BY <2>1, MapsTyped
  <2>4. /\ tracker.generation \in 1 .. MaxGeneration /\ tracker.failed \in BOOLEAN
        /\ {tracker.created, tracker.issued, tracker.completed, tracker.abandoned} \subseteq Nat
    BY <2>1 DEF TrackerType
  <2> QED BY <2>2, <2>3, <2>4 DEF TypeOK, IInv, LiveStates, FinalStates
<1> QED BY <1>1, Invariance, PTL

\* The statistics balance in every state, the accepted entries are exactly the
\* requests the memory system owes, and an honest history never fails.
THEOREM AccountingExact == Spec => []AccountingBalances
<1>1. IInv => AccountingBalances BY DEF IInv, Balanced, AccountingBalances
<1> QED BY <1>1, Invariance, PTL

-----------------------------------------------------------------------------
(* Refinement: every request follows RequestLifecycle.                     *)

\* A live request with this id is in this state.
Holds(t, id, state) == \E token \in Entries(t, state) : token.id = id

\* RequestPhase of any tracker, when the ids in known are allocated.
PhaseIn(t, known, id) ==
  CASE id \notin known                     -> "fresh"
    [] Holds(t, id, "WAITING_TO_SUBMIT")   -> "waiting"
    [] Holds(t, id, "ACCEPTED")            -> "accepted"
    [] Holds(t, id, "COMPLETED")           -> "completed"
    [] OTHER                               -> "gone"

PhaseName(state) ==
  CASE state = "WAITING_TO_SUBMIT" -> "waiting"
    [] state = "ACCEPTED"          -> "accepted"
    [] state = "COMPLETED"         -> "completed"

\* The mapped variable, before and after a step.
LEMMA PhaseIs ==
  ASSUME NEW id
  PROVE  /\ RequestPhase(id) = PhaseIn(tracker, allocated, id)
         /\ RequestPhase(id)' = PhaseIn(tracker', allocated', id)
BY DEF RequestPhase, PhaseIn, Holds, Entries

\* What each operation does to the entries.
LEMMA EntriesAfter ==
  ASSUME NEW t \in TrackerType, NEW token
  PROVE  /\ Create(t, token).ok =>
              Create(t, token).tracker.entries = Bind(t.entries, token, "WAITING_TO_SUBMIT")
         /\ token \in Entries(t, "WAITING_TO_SUBMIT") =>
              RecordAccepted(t, token).tracker.entries = [t.entries EXCEPT ![token] = "ACCEPTED"]
         /\ token \in Entries(t, "ACCEPTED") /\ token.generation = t.generation =>
              Complete(t, token).tracker.entries = [t.entries EXCEPT ![token] = "COMPLETED"]
         /\ token \in Entries(t, "COMPLETED") =>
              Retire(t, token).tracker.entries
                = Restrict(t.entries, DOMAIN t.entries \ {token})
<1>1. Create(t, token).ok =>
        Create(t, token).tracker.entries = Bind(t.entries, token, "WAITING_TO_SUBMIT")
  BY DEF Create, Result, Fail, TrackerType
<1>2. token \in Entries(t, "WAITING_TO_SUBMIT") =>
        RecordAccepted(t, token).tracker.entries = [t.entries EXCEPT ![token] = "ACCEPTED"]
  BY DEF RecordAccepted, Result, TrackerType
<1>3. token \in Entries(t, "ACCEPTED") /\ token.generation = t.generation =>
        Complete(t, token).tracker.entries = [t.entries EXCEPT ![token] = "COMPLETED"]
  BY DEF Complete, Result, TrackerType
<1>4. token \in Entries(t, "COMPLETED") =>
        Retire(t, token).tracker.entries = Restrict(t.entries, DOMAIN t.entries \ {token})
  BY DEF Retire, Result, TrackerType
<1> QED BY <1>1, <1>2, <1>3, <1>4

\* A live entry decides the phase of its id.
LEMMA LivePhase ==
  ASSUME NEW t, NEW known, NEW token \in DOMAIN t.entries, token.id \in known,
         t.entries[token] \in LiveStates,
         \A x \in DOMAIN t.entries : x.id = token.id => x = token
  PROVE  PhaseIn(t, known, token.id) = PhaseName(t.entries[token])
<1>1. \A state : Holds(t, token.id, state) <=> t.entries[token] = state BY DEF Holds, Entries
<1> QED BY <1>1 DEF PhaseIn, PhaseName, LiveStates

\* One entry is new or changes its state: no other id notices.
LEMMA OneMoves ==
  ASSUME NEW t, NEW s, NEW known, NEW known2, NEW token,
         DOMAIN s.entries = DOMAIN t.entries \cup {token},
         \A x \in DOMAIN t.entries : x # token => s.entries[x] = t.entries[x],
         \A id : id # token.id => (id \in known2 <=> id \in known)
  PROVE  \A id : id # token.id => PhaseIn(s, known2, id) = PhaseIn(t, known, id)
<1> SUFFICES ASSUME NEW id, id # token.id
             PROVE  PhaseIn(s, known2, id) = PhaseIn(t, known, id)
  OBVIOUS
<1>1. \A state : Holds(s, id, state) <=> Holds(t, id, state) BY DEF Holds, Entries
<1> QED BY <1>1 DEF PhaseIn

\* Some entries leave: their ids are gone and no other id notices.
LEMMA SomeLeave ==
  ASSUME NEW t, NEW s, NEW known, NEW Gone, Gone \subseteq DOMAIN t.entries,
         DOMAIN s.entries = DOMAIN t.entries \ Gone,
         \A x \in DOMAIN s.entries : s.entries[x] = t.entries[x],
         \A x \in DOMAIN t.entries : x.id \in known,
         \A x, y \in DOMAIN t.entries : x.id = y.id => x = y
  PROVE  \A id : PhaseIn(s, known, id)
                   = IF id \in {x.id : x \in Gone} THEN "gone" ELSE PhaseIn(t, known, id)
<1> SUFFICES ASSUME NEW id
             PROVE  PhaseIn(s, known, id)
                      = IF id \in {x.id : x \in Gone} THEN "gone" ELSE PhaseIn(t, known, id)
  OBVIOUS
<1>1. CASE id \in {x.id : x \in Gone}
  <2>1. \A state : ~Holds(s, id, state) BY <1>1 DEF Holds, Entries
  <2>2. id \in known BY <1>1
  <2> QED BY <1>1, <2>1, <2>2 DEF PhaseIn
<1>2. CASE id \notin {x.id : x \in Gone}
  <2>1. \A state : Holds(s, id, state) <=> Holds(t, id, state) BY <1>2 DEF Holds, Entries
  <2> QED BY <1>2, <2>1 DEF PhaseIn
<1> QED BY <1>1, <1>2

\* A step in which one request advances.
LEMMA OneStep ==
  ASSUME NEW id \in RequestIds, NEW next \in {"waiting", "accepted", "completed"},
         <<PhaseIn(tracker, allocated, id), next>> \in Promise!Allowed,
         PhaseIn(tracker', allocated', id) = next,
         \A other : other # id =>
           PhaseIn(tracker', allocated', other) = PhaseIn(tracker, allocated, other)
  PROVE  Promise!Next
<1> DEFINE phase == [i \in RequestIds |-> RequestPhase(i)]
           later == [i \in RequestIds |-> RequestPhase(i)']
<1>1. phase[id] = PhaseIn(tracker, allocated, id) BY PhaseIs
<1>2. later = [phase EXCEPT ![id] = next] BY PhaseIs
<1>3. <<phase[id], next>> \in Promise!Allowed BY <1>1
<1>4. phase' = later OBVIOUS
<1>5. phase' = [phase EXCEPT ![id] = next] BY <1>2, <1>4
<1> QED BY <1>3, <1>5 DEF Promise!Next

\* A step in which waiting and completed requests leave.
LEMMA LeaveStep ==
  ASSUME NEW leaving \in SUBSET RequestIds,
         \A id \in leaving : PhaseIn(tracker, allocated, id) \in {"waiting", "completed"},
         \A id : PhaseIn(tracker', allocated', id)
                   = IF id \in leaving THEN "gone" ELSE PhaseIn(tracker, allocated, id)
  PROVE  Promise!Next
<1> DEFINE phase == [i \in RequestIds |-> RequestPhase(i)]
           later == [i \in RequestIds |-> RequestPhase(i)']
<1>1. leaving \in SUBSET {id \in RequestIds : phase[id] \in {"waiting", "completed"}} BY PhaseIs
<1>2. later = [id \in RequestIds |-> IF id \in leaving THEN "gone" ELSE phase[id]] BY PhaseIs
<1>3. phase' = later OBVIOUS
<1>4. phase' = [id \in RequestIds |-> IF id \in leaving THEN "gone" ELSE phase[id]]
  BY <1>2, <1>3
<1> QED BY <1>1, <1>4 DEF Promise!Next

\* Every step of the tracker is a step of RequestLifecycle or leaves every
\* request where it was.
LEMMA StepRefines ==
  ASSUME TrackerAssumption, IInv, Next
  PROVE  Promise!Next \/ UNCHANGED [id \in RequestIds |-> RequestPhase(id)]
<1>0. /\ tracker \in TrackerType /\ Balanced(tracker)
      /\ \A x \in DOMAIN tracker.entries : x.id \in allocated
      /\ \A x, y \in DOMAIN tracker.entries : x.id = y.id => x = y
      /\ DOMAIN tracker.entries \subseteq Tokens
      /\ \A x \in DOMAIN tracker.entries : tracker.entries[x] \in LiveStates
      /\ tracker.entries \in [DOMAIN tracker.entries -> LiveStates]
  BY MapsTyped DEF IInv
<1>1. \A x \in DOMAIN tracker.entries :
        PhaseIn(tracker, allocated, x.id) = PhaseName(tracker.entries[x])
  BY <1>0, LivePhase
<1>2. CASE DoCreate
  <2>1. PICK token \in Tokens :
          /\ token.id \notin allocated /\ token.generation = tracker.generation
          /\ allocated' = allocated \cup {token.id}
          /\ tracker' = Create(tracker, token).tracker
    BY <1>2 DEF DoCreate
  <2>2. Create(tracker, token).ok BY <2>1 DEF Create, Result, Known, IInv
  <2>3. tracker'.entries = Bind(tracker.entries, token, "WAITING_TO_SUBMIT")
    BY <1>0, <2>1, <2>2, EntriesAfter
  <2>4. /\ DOMAIN tracker'.entries = DOMAIN tracker.entries \cup {token}
        /\ tracker'.entries[token] = "WAITING_TO_SUBMIT"
        /\ \A x \in DOMAIN tracker.entries : x # token => tracker'.entries[x] = tracker.entries[x]
    BY <2>3 DEF Bind
  <2>5. \A x \in DOMAIN tracker'.entries : x.id = token.id => x = token BY <1>0, <2>1, <2>4
  <2>6. PhaseIn(tracker', allocated', token.id) = "waiting"
    BY <2>1, <2>4, <2>5, LivePhase DEF LiveStates, PhaseName
  <2>7. \A id : id # token.id => PhaseIn(tracker', allocated', id) = PhaseIn(tracker, allocated, id)
    BY <2>1, <2>4, OneMoves
  <2>8. PhaseIn(tracker, allocated, token.id) = "fresh"
    <3>1. \A state : ~Holds(tracker, token.id, state) BY <1>0, <2>1 DEF Holds, Entries
    <3> QED BY <2>1, <3>1 DEF PhaseIn
  <2>9. token.id \in RequestIds /\ <<"fresh", "waiting">> \in Promise!Allowed
    BY DEF Tokens, Promise!Allowed
  <2> QED BY <2>6, <2>7, <2>8, <2>9, OneStep
<1>3. ASSUME NEW token \in DOMAIN tracker.entries, NEW to \in {"ACCEPTED", "COMPLETED"},
             <<PhaseName(tracker.entries[token]), PhaseName(to)>> \in Promise!Allowed,
             tracker'.entries = [tracker.entries EXCEPT ![token] = to],
             UNCHANGED allocated
      PROVE  Promise!Next
  <2>1. /\ DOMAIN tracker'.entries = DOMAIN tracker.entries
        /\ tracker'.entries[token] = to
        /\ \A x \in DOMAIN tracker.entries : x # token => tracker'.entries[x] = tracker.entries[x]
    BY <1>0, <1>3
  <2>2. PhaseIn(tracker', allocated', token.id) = PhaseName(to)
    <3>1. token \in DOMAIN tracker'.entries /\ token.id \in allocated' BY <1>0, <1>3, <2>1
    <3>2. \A x \in DOMAIN tracker'.entries : x.id = token.id => x = token BY <1>0, <2>1
    <3>3. tracker'.entries[token] = to /\ to \in LiveStates BY <2>1 DEF LiveStates
    <3> QED BY <3>1, <3>2, <3>3, LivePhase
  <2>3. DOMAIN tracker'.entries = DOMAIN tracker.entries \cup {token} BY <2>1
  <2>4. \A id : id # token.id => PhaseIn(tracker', allocated', id) = PhaseIn(tracker, allocated, id)
    BY <1>3, <2>1, <2>3, OneMoves
  <2>5. PhaseIn(tracker, allocated, token.id) = PhaseName(tracker.entries[token]) BY <1>1
  <2>6. token.id \in RequestIds BY <1>0 DEF Tokens
  <2>7. PhaseName(to) \in {"waiting", "accepted", "completed"} BY DEF PhaseName
  <2> QED BY <1>3, <2>2, <2>4, <2>5, <2>6, <2>7, OneStep
<1>4. ASSUME NEW Gone, Gone \subseteq DOMAIN tracker.entries,
             \A x \in Gone : tracker.entries[x] # "ACCEPTED",
             DOMAIN tracker'.entries = DOMAIN tracker.entries \ Gone,
             \A x \in DOMAIN tracker'.entries : tracker'.entries[x] = tracker.entries[x],
             UNCHANGED allocated
      PROVE  Promise!Next
  <2> DEFINE leaving == {x.id : x \in Gone}
  <2>1. leaving \in SUBSET RequestIds BY <1>0, <1>4 DEF Tokens
  <2>2. \A id \in leaving : PhaseIn(tracker, allocated, id) \in {"waiting", "completed"}
    BY <1>0, <1>1, <1>4 DEF LiveStates, PhaseName
  <2>3. \A id : PhaseIn(tracker', allocated, id)
                  = IF id \in leaving THEN "gone" ELSE PhaseIn(tracker, allocated, id)
    BY <1>0, <1>4, SomeLeave
  <2>4. \A id : PhaseIn(tracker', allocated', id)
                  = IF id \in leaving THEN "gone" ELSE PhaseIn(tracker, allocated, id)
    BY <1>4, <2>3
  <2> HIDE DEF leaving
  <2> QED BY <2>1, <2>2, <2>4, LeaveStep
<1>5. CASE DoAccept
  <2>1. PICK token \in Entries(tracker, "WAITING_TO_SUBMIT") :
          tracker' = RecordAccepted(tracker, token).tracker
    BY <1>5 DEF DoAccept
  <2>2. /\ token \in DOMAIN tracker.entries
        /\ tracker.entries[token] = "WAITING_TO_SUBMIT"
        /\ tracker'.entries = [tracker.entries EXCEPT ![token] = "ACCEPTED"]
    BY <1>0, <2>1, EntriesAfter DEF Entries
  <2>3. <<PhaseName("WAITING_TO_SUBMIT"), PhaseName("ACCEPTED")>> \in Promise!Allowed
    BY DEF PhaseName, Promise!Allowed
  <2> QED BY <1>3, <1>5, <2>2, <2>3 DEF DoAccept
<1>6. CASE DoComplete
  <2>1. PICK token \in network : tracker' = Complete(tracker, token).tracker
    BY <1>6 DEF DoComplete
  <2>2. token \in Entries(tracker, "ACCEPTED") /\ token.generation = tracker.generation
    BY <2>1 DEF IInv, Entries
  <2>3. /\ token \in DOMAIN tracker.entries
        /\ tracker.entries[token] = "ACCEPTED"
        /\ tracker'.entries = [tracker.entries EXCEPT ![token] = "COMPLETED"]
    BY <1>0, <2>1, <2>2, EntriesAfter DEF Entries
  <2>4. <<PhaseName("ACCEPTED"), PhaseName("COMPLETED")>> \in Promise!Allowed
    BY DEF PhaseName, Promise!Allowed
  <2> QED BY <1>3, <1>6, <2>3, <2>4 DEF DoComplete
<1>7. CASE DoRetire
  <2>1. PICK token \in Entries(tracker, "COMPLETED") : tracker' = Retire(tracker, token).tracker
    BY <1>7 DEF DoRetire
  <2> DEFINE Gone == {token}
  <2>2. Gone \subseteq DOMAIN tracker.entries /\ tracker.entries[token] = "COMPLETED"
    BY <2>1 DEF Entries
  <2>3. tracker'.entries = Restrict(tracker.entries, DOMAIN tracker.entries \ Gone)
    BY <1>0, <2>1, EntriesAfter
  <2>4. \A x \in Gone : tracker.entries[x] # "ACCEPTED" BY <2>2
  <2> HIDE DEF Gone
  <2>5. /\ DOMAIN tracker'.entries = DOMAIN tracker.entries \ Gone
        /\ \A x \in DOMAIN tracker'.entries : tracker'.entries[x] = tracker.entries[x]
    BY <2>3 DEF Restrict
  <2> QED BY <1>4, <1>7, <2>2, <2>4, <2>5 DEF DoRetire
<1>8. CASE DoAbandonWaiting
  <2> DEFINE Gone == Entries(tracker, "WAITING_TO_SUBMIT")
  <2>1. Gone \subseteq DOMAIN tracker.entries BY DEF Entries
  <2>2. \A x \in Gone : tracker.entries[x] # "ACCEPTED" BY DEF Entries
  <2>3. tracker'.entries = Restrict(tracker.entries, DOMAIN tracker.entries \ Gone)
    BY <1>0, <1>8 DEF DoAbandonWaiting, AbandonWaiting, TrackerType
  <2> HIDE DEF Gone
  <2>4. /\ DOMAIN tracker'.entries = DOMAIN tracker.entries \ Gone
        /\ \A x \in DOMAIN tracker'.entries : tracker'.entries[x] = tracker.entries[x]
    BY <2>3 DEF Restrict
  <2> QED BY <1>4, <1>8, <2>1, <2>2, <2>4 DEF DoAbandonWaiting
<1>9. CASE DoReset
  <2>1. DOMAIN tracker'.entries = {} BY <1>9 DEF DoReset, Reset, TrackerInit
  <2>2. Entries(tracker, "ACCEPTED") = {}
    BY <1>0, <1>9, EmptyCount DEF DoReset, MayReset, AcceptedCount, Balanced
  <2>3. \A x \in DOMAIN tracker.entries : tracker.entries[x] # "ACCEPTED" BY <2>2 DEF Entries
  <2> DEFINE Gone == DOMAIN tracker.entries
  <2>4. /\ DOMAIN tracker'.entries = DOMAIN tracker.entries \ Gone
        /\ \A x \in DOMAIN tracker'.entries : tracker'.entries[x] = tracker.entries[x]
    BY <2>1
  <2> QED BY <1>4, <1>9, <2>3, <2>4 DEF DoReset
<1>10. ASSUME tracker'.entries = tracker.entries, UNCHANGED allocated
       PROVE  UNCHANGED [id \in RequestIds |-> RequestPhase(id)]
  BY <1>10 DEF RequestPhase
<1>11. Fail(tracker).tracker.entries = tracker.entries BY <1>0 DEF Fail, Result, TrackerType
<1>12. CASE InjectCompletion
  <2>1. PICK token \in Tokens \ network : tracker' = Complete(tracker, token).tracker
    BY <1>12 DEF InjectCompletion
  <2>2. tracker' = Fail(tracker).tracker BY <2>1 DEF Complete, IInv
  <2> QED BY <1>10, <1>11, <1>12, <2>2 DEF InjectCompletion
<1>13. CASE InjectDuplicate
  <2>1. PICK token \in Tokens :
          /\ Known(tracker.entries, token.id) \/ Known(tracker.history, token.id)
          /\ tracker' = Create(tracker, token).tracker
    BY <1>13 DEF InjectDuplicate
  <2>2. tracker' = Fail(tracker).tracker BY <2>1 DEF Create
  <2> QED BY <1>10, <1>11, <1>13, <2>2 DEF InjectDuplicate
<1> QED BY <1>2, <1>5, <1>6, <1>7, <1>8, <1>9, <1>12, <1>13 DEF Next

\* Every request completes at most once, never after it was given up, and no
\* accepted request is forgotten: the tracker implements RequestLifecycle.
THEOREM Refinement == Spec => ImplementsRequestLifecycle
<1>1. Init => Promise!Init
  <2> SUFFICES ASSUME Init PROVE Promise!Init OBVIOUS
  <2>1. DOMAIN tracker.entries = {} /\ allocated = {} BY DEF Init, TrackerInit
  <2>2. \A id : PhaseIn(tracker, allocated, id) = "fresh"
    <3>1. \A id, state : ~Holds(tracker, id, state) BY <2>1 DEF Holds, Entries
    <3> QED BY <2>1, <3>1 DEF PhaseIn
  <2>3. \A id : RequestPhase(id) = "fresh" BY <2>2, PhaseIs
  <2> QED BY <2>3 DEF Promise!Init
<1>2. IInv /\ [Next]_vars => [Promise!Next]_([id \in RequestIds |-> RequestPhase(id)])
  <2>1. CASE Next BY <2>1, StepRefines, TrackerAssumption
  <2>2. CASE UNCHANGED vars BY <2>2 DEF vars, RequestPhase
  <2> QED BY <2>1, <2>2
<1> QED BY <1>1, <1>2, Invariance, PTL DEF Spec, ImplementsRequestLifecycle, Promise!Spec
=============================================================================
