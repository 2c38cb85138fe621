---------------------- MODULE MemoryController_proofs ----------------------
(***************************************************************************)
(* The request side of MemoryController, and its theorems: the ledger of   *)
(* what is owed to the client, the request each piece of the channel       *)
(* stands for, the order of the requests to one place, and what the        *)
(* barriers fence.  The inductive invariant IInv joins it to the timing    *)
(* side.                                                                   *)
(***************************************************************************)
EXTENDS MemoryTiming_proofs

-----------------------------------------------------------------------------
(* The ledger: for every id that is owed an answer, the request g[id] it   *)
(* stands for, in the order of the stamps, and the place loc[id] where the *)
(* channel keeps it; bars are the ids that carry a barrier.                *)

InHeld == 0            \* held
InTransactions == 1    \* transactions
InQueue == 2           \* a queue: not issued up to here
OnBus == 3             \* a read that is the command on the bus
InRank == 4            \* a read that its rank has still to send
InBurst == 5           \* what its rank sends
InReturns == 6         \* returns
InWrites == 7          \* the data of a write, to be sent
OnData == 8            \* the data of a write, being sent
Free == 9              \* nothing is owed

Request == [stamp : Nat, write : BOOLEAN, token : BOOLEAN, place : Places, value : Values]

Ghosts(g, loc, bars) == g \in [Ids -> Request] /\ loc \in [Ids -> 0 .. 9] /\ bars \subseteq Ids

At(loc, k) == {id \in Ids : loc[id] = k}
Waits(loc) == {id \in Ids : loc[id] <= InQueue}
Owed(loc) == {id \in Ids : loc[id] # Free}
Fetched(loc) == {id \in Ids : loc[id] \in InRank .. InReturns}
\* The reads that are owed, from their queue on.
Expected(g, loc) == {id \in Ids : loc[id] \in OnBus .. InReturns \/ (loc[id] = InQueue /\ ~g[id].write)}
\* Those of S that go to rank r.
To(S, r, g) == {id \in S : g[id].place.rank = r}

\* In the order of the stamps; in that order as far as the place is the same.
Sorted(q, g) == \A i, j \in DOMAIN q : i < j => g[q[i].id].stamp < g[q[j].id].stamp
After(x, y, g) == x # y /\ (g[x].place = g[y].place => g[x].stamp < g[y].stamp)
Apart(q, g) == \A i, j \in DOMAIN q : i < j => After(q[i].id, q[j].id, g)
BurstsApart(q, g) == \A i, j \in DOMAIN q : i < j => After(q[i].read.id, q[j].read.id, g)
BurstIds(q) == {q[i].read.id : i \in DOMAIN q}

Ticket(t, g, bars) ==
  /\ t.write = g[t.id].write /\ t.token = g[t.id].token /\ t.place = g[t.id].place
  /\ t.value = g[t.id].value /\ t.bar = (t.id \in bars)
Order(c, g) ==
  /\ (c.kind = "WRITE") = g[c.id].write /\ c.token = g[c.id].token /\ PlaceOf(c) = g[c.id].place
  /\ c.value = g[c.id].value
Matching(x, g) == x.token = g[x.id].token /\ x.place = g[x.id].place

Listed(q, g, bars, S) ==
  (\A i \in DOMAIN q : Ticket(q[i], g, bars)) /\ Sorted(q, g) /\ IdsOf(q) = S
Queued(q, g, bars, S) ==
  /\ \A i \in DOMAIN q : Order(q[i], g) /\ q[i].bar = (q[i].id \in bars)
  /\ Sorted(q, g) /\ IdsOf(q) = S
QueuesLedger(queues, g, bars, S) == \A r \in Ranks : Queued(queues[r], g, bars, To(S, r, g))

\* B are the reads on the bus, W what has still to be issued.
CommandLedger(c, g, B, W) ==
  /\ \A id \in B : c # None /\ c.kind = "READ" /\ c.id = id
  /\ c # None /\ c.kind \in {"READ", "WRITE"} =>
       /\ Order(c, g) /\ c.id \notin W /\ (c.kind = "READ" => c.id \in B)
       /\ \A id \in W : g[id].place = PlaceOf(c) => g[c.id].stamp < g[id].stamp

WritesLedger(w, d, g, M, D) ==
  /\ \A i \in DOMAIN w : w[i].id \in M /\ w[i].value = g[w[i].id].value
  /\ \A i, j \in DOMAIN w : i # j => w[i].id # w[j].id
  /\ d # None => d.id \in D /\ d.value = g[d.id].value

ReadsLedger(q, g, E, F) ==
  /\ \A i \in DOMAIN q : /\ Matching(q[i], g) /\ ~g[q[i].id].write
                         /\ q[i].id \in F => q[i].value = g[q[i].id].value
  /\ Apart(q, g) /\ IdsOf(q) = E

RankLedger(reads, out, g, A, B) ==
  /\ \A i \in DOMAIN reads : Matching(reads[i].read, g)
  /\ BurstsApart(reads, g) /\ BurstIds(reads) = A
  /\ B = IF out = None THEN {} ELSE {out.read.id}
  /\ out # None => Matching(out.read, g)
RanksLedger(ranks, g, A, B) ==
  \A r \in Ranks : RankLedger(ranks[r].reads, ranks[r].out, g, To(A, r, g), To(B, r, g))

ReturnsLedger(q, g, S) == (\A i \in DOMAIN q : Matching(q[i], g)) /\ Apart(q, g) /\ IdsOf(q) = S

\* What has come further is older: of a rank before the issue, of a place from there on.
Ordered(g, loc) ==
  /\ \A x, y \in Ids : loc[x] = InHeld /\ loc[y] = InTransactions => g[y].stamp < g[x].stamp
  /\ \A x, y \in Ids : loc[x] < loc[y] /\ loc[y] = InQueue /\ g[x].place.rank = g[y].place.rank =>
                         g[y].stamp < g[x].stamp
  /\ \A x, y \in Ids : loc[x] < loc[y] /\ loc[y] \in OnBus .. InReturns /\ g[x].place = g[y].place =>
                         g[y].stamp < g[x].stamp

Counted(s, O) == s.onTheFly + Len(s.held) = Cardinality(O)

Ledger(s, g, loc, bars) ==
  /\ Listed(s.held, g, bars, At(loc, InHeld))
  /\ Listed(s.transactions, g, bars, At(loc, InTransactions))
  /\ QueuesLedger(s.queues, g, bars, At(loc, InQueue))
  /\ CommandLedger(s.command, g, At(loc, OnBus), Waits(loc))
  /\ WritesLedger(s.writes, s.data, g, At(loc, InWrites), At(loc, OnData))
  /\ ReadsLedger(s.reads, g, Expected(g, loc), Fetched(loc))
  /\ RanksLedger(s.ranks, g, At(loc, InRank), At(loc, InBurst))
  /\ ReturnsLedger(s.returns, g, At(loc, InReturns))
  /\ Ordered(g, loc) /\ Counted(s, Owed(loc))

-----------------------------------------------------------------------------
(* The values: U are the requests that have not reached their bank, store  *)
(* what the banks hold, mem the memory that the client was promised.       *)

Undone(c, loc) == {id \in Ids : loc[id] <= InQueue \/ (c # None /\ c.id = id)}

WriteTo(z, p, g) == g[z].write /\ g[z].place = p
\* No write of U to the place of y lies between the stamps of x and y.
Quiet(U, x, y, g) ==
  \A z \in U : WriteTo(z, g[y].place, g) => g[z].stamp <= g[x].stamp \/ g[y].stamp <= g[z].stamp

\* A read sees the write before it, the first one what is stored; the last write is
\* what the client remembers, and what is stored where no write is left.
ReadsStore(U, store, g) ==
  \A y \in U : ~g[y].write /\ (\A z \in U : WriteTo(z, g[y].place, g) => g[y].stamp <= g[z].stamp)
                 => g[y].value = store[g[y].place]
ReadsWrite(U, g) ==
  \A x, y \in U : WriteTo(x, g[y].place, g) /\ ~g[y].write /\ g[x].stamp < g[y].stamp /\ Quiet(U, x, y, g)
                    => g[y].value = g[x].value
StoreKept(U, store, mem, g) ==
  \A p \in Places : (\A z \in U : ~WriteTo(z, p, g)) => mem[p] = store[p]
LastWrite(U, mem, g) ==
  \A x \in U : g[x].write /\ (\A z \in U : WriteTo(z, g[x].place, g) => g[z].stamp <= g[x].stamp)
                 => mem[g[x].place] = g[x].value
Chain(U, store, mem, g) ==
  ReadsStore(U, store, g) /\ ReadsWrite(U, g) /\ StoreKept(U, store, mem, g) /\ LastWrite(U, mem, g)

-----------------------------------------------------------------------------
(* The answers to P, the barriers, and what was promised.                  *)

Answered(replies, g, P, O) ==
  O \subseteq P /\ P \subseteq Ids /\ replies = {[id |-> id, value |-> g[id].value] : id \in P \ O}

Sound(s, g, loc, bars, P, mem) ==
  /\ Ghosts(g, loc, bars) /\ Ledger(s, g, loc, bars)
  /\ Chain(Undone(s.command, loc), s.store, mem, g) /\ Answered(s.replies, g, P, Owed(loc))

\* What is issued, of W, leaves behind no older request of its rank that has a barrier
\* or has its place, and none at all if it has a barrier itself.
Passed(g, bars, W, V) ==
  /\ V \subseteq W
  /\ \A x \in W \ V, y \in W : g[y].place.rank = g[x].place.rank /\ g[y].stamp < g[x].stamp =>
                                 y \notin bars /\ x \notin bars

\* A barrier of the rank of x, not issued, at x or after it.
FencedAt(x, y, g, W, bars) ==
  y \in bars /\ y \in W /\ g[y].place.rank = g[x].place.rank /\ (x = y \/ g[x].stamp < g[y].stamp)
Fence(g, W, bars, fenced, behind) ==
  /\ \A x \in fenced : x \in W /\ \E y \in Ids : FencedAt(x, y, g, W, bars)
  /\ \A id \in DOMAIN behind : \A x \in behind[id] :
       /\ x \in W /\ id \in W /\ g[x].place.rank = g[id].place.rank
       /\ \E y \in Ids : FencedAt(x, y, g, W, bars) /\ g[y].stamp < g[id].stamp

Promised(g, loc, c) ==
  /\ DOMAIN c.promised = Owed(loc) /\ DOMAIN c.behind = Owed(loc) /\ DOMAIN c.rankOf = Owed(loc)
  /\ \A id \in Owed(loc) : c.promised[id] = g[id].value /\ c.rankOf[id] = g[id].place.rank

\* A request, and the ids of one that is sorted.
LEMMA GhostFields ==
  ASSUME NEW g \in [Ids -> Request], NEW id \in Ids
  PROVE  /\ g[id].stamp \in Nat /\ g[id].write \in BOOLEAN /\ g[id].token \in BOOLEAN
         /\ g[id].place \in Places /\ g[id].value \in Values
         /\ g[id].place.rank \in Ranks
<1>1. g[id] \in Request OBVIOUS
<1>2. g[id].stamp \in Nat /\ g[id].write \in BOOLEAN /\ g[id].token \in BOOLEAN
      /\ g[id].place \in Places /\ g[id].value \in Values
  BY <1>1 DEF Request
<1> QED BY <1>2, PlaceType

\* A list in the order of the stamps repeats no id.
LEMMA SortedDistinct ==
  ASSUME NEW S, NEW q \in Seq(S), NEW g, \A i \in DOMAIN q : g[q[i].id].stamp \in Nat,
         Sorted(q, g)
  PROVE  \A i, j \in DOMAIN q : i # j => q[i].id # q[j].id
<1> SUFFICES ASSUME NEW i \in DOMAIN q, NEW j \in DOMAIN q, i # j, q[i].id = q[j].id PROVE FALSE
  OBVIOUS
<1>1. i < j \/ j < i OBVIOUS
<1>2. g[q[i].id].stamp < g[q[j].id].stamp \/ g[q[j].id].stamp < g[q[i].id].stamp
  BY <1>1 DEF Sorted
<1> QED BY <1>2

\* The youngest transaction keeps the order at the end of the list.
LEMMA SortedAppend ==
  ASSUME NEW S, NEW q \in Seq(S), NEW y \in S, NEW g, Sorted(q, g),
         \A i \in DOMAIN q : g[q[i].id].stamp < g[y.id].stamp
  PROVE  Sorted(Append(q, y), g)
<1> DEFINE p == Append(q, y)
<1>1. /\ DOMAIN p = DOMAIN q \cup {Len(q) + 1} /\ p[Len(q) + 1] = y
      /\ \A i \in DOMAIN q : p[i] = q[i] /\ i < Len(q) + 1
      /\ DOMAIN q \subseteq Nat /\ Len(q) \in Nat
  BY AppendedMembers
<1> HIDE DEF p
<1>2. ASSUME NEW i \in DOMAIN p, NEW j \in DOMAIN p, i < j
      PROVE  g[p[i].id].stamp < g[p[j].id].stamp
  <2>1. i \in DOMAIN q BY <1>1, <1>2
  <2>2. CASE j \in DOMAIN q BY <2>1, <2>2, <1>1, <1>2 DEF Sorted
  <2>3. CASE j = Len(q) + 1 BY <2>1, <2>3, <1>1
  <2> QED BY <2>2, <2>3, <1>1
<1>3. Sorted(p, g) BY <1>2 DEF Sorted
<1> QED BY <1>3 DEF p

\* Removing a member keeps the order of the others.
LEMMA SortedWithout ==
  ASSUME NEW S, NEW q \in Seq(S), NEW i \in DOMAIN q, NEW g, Sorted(q, g)
  PROVE  Sorted(Without(q, i), g)
<1>1. /\ \A j \in DOMAIN Without(q, i) : /\ Back(i, j) \in DOMAIN q
                                         /\ Without(q, i)[j] = q[Back(i, j)]
      /\ \A j, k \in DOMAIN Without(q, i) : j < k => Back(i, j) < Back(i, k)
  BY WithoutKeeps
<1> QED BY <1>1 DEF Sorted

\* Popping the front keeps the order of the others.
LEMMA SortedTail ==
  ASSUME NEW S, NEW q \in Seq(S), q # <<>>, NEW g, Sorted(q, g)
  PROVE  Sorted(Tail(q), g)
<1>1. /\ \A j \in DOMAIN Tail(q) : j + 1 \in DOMAIN q /\ Tail(q)[j] = q[j + 1]
      /\ Tail(q) \in Seq(S)
  BY TailMembers
<1>2. ASSUME NEW i \in DOMAIN Tail(q), NEW j \in DOMAIN Tail(q), i < j
      PROVE  g[Tail(q)[i].id].stamp < g[Tail(q)[j].id].stamp
  <2>1. i + 1 < j + 1 BY <1>1, <1>2
  <2> QED BY <1>1, <2>1 DEF Sorted
<1> QED BY <1>2 DEF Sorted

\* The same for the sequences that are in order place by place.
LEMMA ApartDistinct ==
  ASSUME NEW S, NEW q \in Seq(S), NEW g, Apart(q, g)
  PROVE  \A i, j \in DOMAIN q : i # j => q[i].id # q[j].id
<1> SUFFICES ASSUME NEW i \in DOMAIN q, NEW j \in DOMAIN q, i # j PROVE q[i].id # q[j].id
  OBVIOUS
<1>1. i < j \/ j < i OBVIOUS
<1> QED BY <1>1 DEF Apart, After

\* A member that comes after the others at its place joins a list ordered place by place.
LEMMA ApartAppend ==
  ASSUME NEW S, NEW q \in Seq(S), NEW y \in S, NEW g, Apart(q, g),
         \A i \in DOMAIN q : After(q[i].id, y.id, g)
  PROVE  Apart(Append(q, y), g)
<1> DEFINE p == Append(q, y)
<1>1. /\ DOMAIN p = DOMAIN q \cup {Len(q) + 1} /\ p[Len(q) + 1] = y
      /\ \A i \in DOMAIN q : p[i] = q[i] /\ i < Len(q) + 1
      /\ DOMAIN q \subseteq Nat /\ Len(q) \in Nat
  BY AppendedMembers
<1> HIDE DEF p
<1>2. ASSUME NEW i \in DOMAIN p, NEW j \in DOMAIN p, i < j
      PROVE  After(p[i].id, p[j].id, g)
  <2>1. i \in DOMAIN q BY <1>1, <1>2
  <2>2. CASE j \in DOMAIN q BY <2>1, <2>2, <1>1, <1>2 DEF Apart
  <2>3. CASE j = Len(q) + 1 BY <2>1, <2>3, <1>1
  <2> QED BY <2>2, <2>3, <1>1
<1>3. Apart(p, g) BY <1>2 DEF Apart
<1> QED BY <1>3 DEF p

\* Removing a member keeps the order place by place.
LEMMA ApartWithout ==
  ASSUME NEW S, NEW q \in Seq(S), NEW i \in DOMAIN q, NEW g, Apart(q, g)
  PROVE  Apart(Without(q, i), g)
<1>1. /\ \A j \in DOMAIN Without(q, i) : /\ Back(i, j) \in DOMAIN q
                                         /\ Without(q, i)[j] = q[Back(i, j)]
      /\ \A j, k \in DOMAIN Without(q, i) : j < k => Back(i, j) < Back(i, k)
  BY WithoutKeeps
<1> QED BY <1>1 DEF Apart

\* Popping the front keeps the order place by place.
LEMMA ApartTail ==
  ASSUME NEW S, NEW q \in Seq(S), q # <<>>, NEW g, Apart(q, g)
  PROVE  Apart(Tail(q), g)
<1>1. /\ \A j \in DOMAIN Tail(q) : j + 1 \in DOMAIN q /\ Tail(q)[j] = q[j + 1]
      /\ Tail(q) \in Seq(S)
  BY TailMembers
<1>2. ASSUME NEW i \in DOMAIN Tail(q), NEW j \in DOMAIN Tail(q), i < j
      PROVE  After(Tail(q)[i].id, Tail(q)[j].id, g)
  <2>1. i + 1 < j + 1 BY <1>1, <1>2
  <2> QED BY <1>1, <2>1 DEF Apart
<1> QED BY <1>2 DEF Apart

-----------------------------------------------------------------------------
(* The queues of requests: one joins, one leaves.                          *)

LEMMA ListedAppend ==
  ASSUME NEW q \in Seq(Transaction), NEW y \in Transaction, NEW g, NEW bars, NEW S,
         Listed(q, g, bars, S), Ticket(y, g, bars), \A id \in S : g[id].stamp < g[y.id].stamp
  PROVE  Listed(Append(q, y), g, bars, S \cup {y.id})
<1>1. /\ DOMAIN Append(q, y) = DOMAIN q \cup {Len(q) + 1} /\ Append(q, y)[Len(q) + 1] = y
      /\ \A i \in DOMAIN q : Append(q, y)[i] = q[i]
  BY AppendedMembers
<1>2. \A i \in DOMAIN Append(q, y) : Ticket(Append(q, y)[i], g, bars) BY <1>1 DEF Listed
<1>3. \A i \in DOMAIN q : q[i].id \in S BY DEF Listed, IdsOf
<1>4. Sorted(Append(q, y), g) BY <1>3, SortedAppend DEF Listed
<1>5. IdsOf(Append(q, y)) = S \cup {y.id} BY AppendIds DEF Listed
<1> QED BY <1>2, <1>4, <1>5 DEF Listed

\* Taking a transaction out of a list of transactions takes its id out of the ledger's set.
LEMMA ListedWithout ==
  ASSUME NEW q \in Seq(Transaction), NEW i \in DOMAIN q, NEW g \in [Ids -> Request], NEW bars,
         NEW S, Listed(q, g, bars, S)
  PROVE  /\ Listed(Without(q, i), g, bars, S \ {q[i].id}) /\ q[i].id \in S
         /\ \A id \in S : id # q[i].id => \E j \in DOMAIN q : j # i /\ q[j].id = id
<1>1. \A j \in DOMAIN q : g[q[j].id].stamp \in Nat
  <2>1. \A j \in DOMAIN q : q[j] \in Transaction OBVIOUS
  <2> QED BY <2>1, TransactionFields, GhostFields
<1>2. \A j \in DOMAIN q : j # i => q[j].id # q[i].id BY <1>1, SortedDistinct DEF Listed
<1>3. IdsOf(Without(q, i)) = S \ {q[i].id} BY <1>2, WithoutIds DEF Listed
<1>4. Sorted(Without(q, i), g) BY SortedWithout DEF Listed
<1>5. \A j \in DOMAIN Without(q, i) : Ticket(Without(q, i)[j], g, bars)
  BY WithoutKeeps DEF Listed
<1>6. \A id \in S : \E j \in DOMAIN q : q[j].id = id BY DEF Listed, IdsOf
<1>7. q[i].id \in S BY DEF Listed, IdsOf
<1> QED BY <1>3, <1>4, <1>5, <1>6, <1>7 DEF Listed

\* The front of a list of transactions is the oldest of them.
LEMMA ListedTail ==
  ASSUME NEW q \in Seq(Transaction), q # <<>>, NEW g \in [Ids -> Request], NEW bars,
         NEW S, Listed(q, g, bars, S)
  PROVE  /\ Listed(Tail(q), g, bars, S \ {q[1].id}) /\ q[1].id \in S
         /\ \A id \in S : id # q[1].id => g[q[1].id].stamp < g[id].stamp
<1>1. \A j \in DOMAIN q : g[q[j].id].stamp \in Nat
  <2>1. \A j \in DOMAIN q : q[j] \in Transaction OBVIOUS
  <2> QED BY <2>1, TransactionFields, GhostFields
<1>2. 1 \in DOMAIN q /\ \A j \in DOMAIN q : j # 1 => 1 < j OBVIOUS
<1>3. \A j \in DOMAIN q : j # 1 => q[j].id # q[1].id BY <1>1, <1>2, SortedDistinct DEF Listed
<1>4. IdsOf(Tail(q)) = S \ {q[1].id} BY <1>3, TailIds DEF Listed
<1>5. Sorted(Tail(q), g) BY SortedTail DEF Listed
<1>6. \A j \in DOMAIN Tail(q) : Ticket(Tail(q)[j], g, bars) BY TailMembers DEF Listed
<1>7. \A id \in S : \E j \in DOMAIN q : q[j].id = id BY DEF Listed, IdsOf
<1>8. q[1].id \in S BY <1>2 DEF Listed, IdsOf
<1>9. \A id \in S : id # q[1].id => g[q[1].id].stamp < g[id].stamp
  BY <1>2, <1>7 DEF Listed, Sorted
<1> QED BY <1>4, <1>5, <1>6, <1>8, <1>9 DEF Listed

\* A command joins the end of the queue of its rank.
LEMMA QueuedAppend ==
  ASSUME NEW q \in Seq(Located), NEW c \in Located, NEW g, NEW bars, NEW S,
         Queued(q, g, bars, S), Order(c, g), c.bar = (c.id \in bars),
         \A id \in S : g[id].stamp < g[c.id].stamp
  PROVE  Queued(Append(q, c), g, bars, S \cup {c.id})
<1>1. /\ DOMAIN Append(q, c) = DOMAIN q \cup {Len(q) + 1} /\ Append(q, c)[Len(q) + 1] = c
      /\ \A i \in DOMAIN q : Append(q, c)[i] = q[i]
  BY AppendedMembers
<1>2. \A i \in DOMAIN Append(q, c) : /\ Order(Append(q, c)[i], g)
                                     /\ Append(q, c)[i].bar = (Append(q, c)[i].id \in bars)
  BY <1>1 DEF Queued
<1>3. \A i \in DOMAIN q : q[i].id \in S BY DEF Queued, IdsOf
<1>4. Sorted(Append(q, c), g) BY <1>3, SortedAppend DEF Queued
<1>5. IdsOf(Append(q, c)) = S \cup {c.id} BY AppendIds DEF Queued
<1> QED BY <1>2, <1>4, <1>5 DEF Queued

\* A command that is issued leaves its queue, and the others stay.
LEMMA QueuedWithout ==
  ASSUME NEW q \in Seq(Located), NEW i \in DOMAIN q, NEW g \in [Ids -> Request], NEW bars,
         NEW S, Queued(q, g, bars, S)
  PROVE  /\ Queued(Without(q, i), g, bars, S \ {q[i].id}) /\ q[i].id \in S
         /\ \A id \in S : id # q[i].id => \E j \in DOMAIN q : j # i /\ q[j].id = id
<1>1. \A j \in DOMAIN q : g[q[j].id].stamp \in Nat
  <2>1. \A j \in DOMAIN q : q[j] \in Located OBVIOUS
  <2>2. \A j \in DOMAIN q : q[j].id \in Ids BY <2>1 DEF Located, ColumnCommand
  <2> QED BY <2>2, GhostFields
<1>2. \A j \in DOMAIN q : j # i => q[j].id # q[i].id BY <1>1, SortedDistinct DEF Queued
<1>3. IdsOf(Without(q, i)) = S \ {q[i].id} BY <1>2, WithoutIds DEF Queued
<1>4. Sorted(Without(q, i), g) BY SortedWithout DEF Queued
<1>5. \A j \in DOMAIN Without(q, i) : /\ Order(Without(q, i)[j], g)
                                      /\ Without(q, i)[j].bar = (Without(q, i)[j].id \in bars)
  BY WithoutKeeps DEF Queued
<1>6. \A id \in S : \E j \in DOMAIN q : q[j].id = id BY DEF Queued, IdsOf
<1>7. q[i].id \in S BY DEF Queued, IdsOf
<1> QED BY <1>3, <1>4, <1>5, <1>6, <1>7 DEF Queued

(* The reads that are owed: one joins, one is answered.                    *)

LEMMA ReadsAppend ==
  ASSUME NEW q \in Seq(Pending), NEW y \in Pending, NEW g, NEW X, NEW F, ReadsLedger(q, g, X, F),
         Matching(y, g), ~g[y.id].write, y.id \notin F, \A id \in X : After(id, y.id, g)
  PROVE  ReadsLedger(Append(q, y), g, X \cup {y.id}, F)
<1>1. /\ DOMAIN Append(q, y) = DOMAIN q \cup {Len(q) + 1} /\ Append(q, y)[Len(q) + 1] = y
      /\ \A i \in DOMAIN q : Append(q, y)[i] = q[i]
  BY AppendedMembers
<1>2. \A i \in DOMAIN Append(q, y) :
        /\ Matching(Append(q, y)[i], g) /\ ~g[Append(q, y)[i].id].write
        /\ Append(q, y)[i].id \in F => Append(q, y)[i].value = g[Append(q, y)[i].id].value
  BY <1>1 DEF ReadsLedger
<1>3. \A i \in DOMAIN q : q[i].id \in X BY DEF ReadsLedger, IdsOf
<1>4. Apart(Append(q, y), g) BY <1>3, ApartAppend DEF ReadsLedger
<1>5. IdsOf(Append(q, y)) = X \cup {y.id} BY AppendIds DEF ReadsLedger
<1> QED BY <1>2, <1>4, <1>5 DEF ReadsLedger

\* A read that is answered leaves the pending reads.
LEMMA ReadsWithout ==
  ASSUME NEW q \in Seq(Pending), NEW i \in DOMAIN q, NEW g, NEW X, NEW F, ReadsLedger(q, g, X, F)
  PROVE  ReadsLedger(Without(q, i), g, X \ {q[i].id}, F \ {q[i].id}) /\ q[i].id \in X
<1>1. \A j \in DOMAIN q : j # i => q[j].id # q[i].id BY ApartDistinct DEF ReadsLedger
<1>2. IdsOf(Without(q, i)) = X \ {q[i].id} BY <1>1, WithoutIds DEF ReadsLedger
<1>3. Apart(Without(q, i), g) BY ApartWithout DEF ReadsLedger
<1>4. \A j \in DOMAIN Without(q, i) :
        /\ Matching(Without(q, i)[j], g) /\ ~g[Without(q, i)[j].id].write
        /\ Without(q, i)[j].id \in F => Without(q, i)[j].value = g[Without(q, i)[j].id].value
  BY WithoutKeeps DEF ReadsLedger
<1>5. q[i].id \in X BY DEF ReadsLedger, IdsOf
<1> QED BY <1>2, <1>3, <1>4, <1>5 DEF ReadsLedger

\* The bursts that have returned: the first one is taken, some join.
LEMMA ReturnsTail ==
  ASSUME NEW q \in Seq(Returned), q # <<>>, NEW g, NEW S, ReturnsLedger(q, g, S)
  PROVE  /\ ReturnsLedger(Tail(q), g, S \ {q[1].id}) /\ q[1].id \in S /\ Matching(q[1], g)
         /\ \A id \in S : id # q[1].id => After(q[1].id, id, g)
<1>2. 1 \in DOMAIN q /\ \A j \in DOMAIN q : j # 1 => 1 < j OBVIOUS
<1>3. \A j \in DOMAIN q : j # 1 => q[j].id # q[1].id BY <1>2, ApartDistinct DEF ReturnsLedger
<1>4. IdsOf(Tail(q)) = S \ {q[1].id} BY <1>3, TailIds DEF ReturnsLedger
<1>5. Apart(Tail(q), g) BY ApartTail DEF ReturnsLedger
<1>6. \A j \in DOMAIN Tail(q) : Matching(Tail(q)[j], g) BY TailMembers DEF ReturnsLedger
<1>7. \A id \in S : \E j \in DOMAIN q : q[j].id = id BY DEF ReturnsLedger, IdsOf
<1>8. q[1].id \in S /\ Matching(q[1], g) BY <1>2 DEF ReturnsLedger, IdsOf
<1>9. \A id \in S : id # q[1].id => After(q[1].id, id, g) BY <1>2, <1>7 DEF ReturnsLedger, Apart
<1> QED BY <1>4, <1>5, <1>6, <1>8, <1>9 DEF ReturnsLedger

\* The members of two joined lists.
LEMMA JoinedMembers ==
  ASSUME NEW S, NEW q \in Seq(S), NEW v \in Seq(S)
  PROVE  LET p == q \o v
         IN  /\ p \in Seq(S)
             /\ \A i \in DOMAIN p : \/ i \in DOMAIN q /\ p[i] = q[i]
                                    \/ i - Len(q) \in DOMAIN v /\ p[i] = v[i - Len(q)] /\ i \notin DOMAIN q
             /\ \A i \in DOMAIN q : i \in DOMAIN p /\ p[i] = q[i]
             /\ \A i \in DOMAIN v : i + Len(q) \in DOMAIN p /\ p[i + Len(q)] = v[i]
  OBVIOUS

\* The bursts of a cycle join the returns, which stay in order place by place.
LEMMA ReturnsJoin ==
  ASSUME NEW q \in Seq(Returned), NEW v \in Seq(Returned), NEW g, NEW S, NEW T,
         ReturnsLedger(q, g, S), \A i \in DOMAIN v : Matching(v[i], g), Apart(v, g), IdsOf(v) = T,
         \A x \in S, y \in T : After(x, y, g)
  PROVE  ReturnsLedger(q \o v, g, S \cup T)
<1> DEFINE p == q \o v
           n == Len(q)
<1>1. /\ \A i \in DOMAIN p : \/ i \in DOMAIN q /\ p[i] = q[i]
                             \/ i - n \in DOMAIN v /\ p[i] = v[i - n] /\ i \notin DOMAIN q
      /\ \A i \in DOMAIN q : i \in DOMAIN p /\ p[i] = q[i]
      /\ \A i \in DOMAIN v : i + n \in DOMAIN p /\ p[i + n] = v[i]
      /\ n \in Nat /\ DOMAIN q = 1 .. n /\ DOMAIN p \subseteq Nat /\ DOMAIN v \subseteq Nat \ {0}
      /\ 0 \notin DOMAIN p
  BY JoinedMembers
<1> HIDE DEF p, n
<1>2. \A i \in DOMAIN q : q[i].id \in S BY DEF ReturnsLedger, IdsOf
<1>3. \A i \in DOMAIN v : v[i].id \in T BY DEF IdsOf
<1>4. \A i \in DOMAIN p : Matching(p[i], g) BY <1>1 DEF ReturnsLedger
<1>5. ASSUME NEW i \in DOMAIN p, NEW j \in DOMAIN p, i < j
      PROVE  After(p[i].id, p[j].id, g)
  <2>1. CASE j \in DOMAIN q
    <3>1. i \in DOMAIN q BY <1>1, <1>5, <2>1
    <3> QED BY <3>1, <2>1, <1>1, <1>5 DEF ReturnsLedger, Apart
  <2>2. CASE i \in DOMAIN q /\ j \notin DOMAIN q
    <3>1. p[i] = q[i] /\ p[j] = v[j - n] /\ j - n \in DOMAIN v BY <2>2, <1>1
    <3> QED BY <3>1, <2>2, <1>2, <1>3
  <2>3. CASE i \notin DOMAIN q /\ j \notin DOMAIN q
    <3>1. p[i] = v[i - n] /\ p[j] = v[j - n] /\ i - n \in DOMAIN v /\ j - n \in DOMAIN v
      BY <2>3, <1>1
    <3>2. i - n < j - n BY <1>1, <1>5
    <3> QED BY <3>1, <3>2 DEF Apart
  <2> QED BY <2>1, <2>2, <2>3
<1>6. Apart(p, g) BY <1>5 DEF Apart
<1>7. IdsOf(p) = S \cup T
  <2>1. ASSUME NEW x \in IdsOf(p) PROVE x \in S \cup T
    <3>1. PICK i \in DOMAIN p : x = p[i].id BY DEF IdsOf
    <3> QED BY <3>1, <1>1, <1>2, <1>3
  <2>2. ASSUME NEW x \in S PROVE x \in IdsOf(p)
    <3>1. PICK i \in DOMAIN q : x = q[i].id BY DEF ReturnsLedger, IdsOf
    <3>2. i \in DOMAIN p /\ x = p[i].id BY <3>1, <1>1
    <3> QED BY <3>2 DEF IdsOf
  <2>3. ASSUME NEW x \in T PROVE x \in IdsOf(p)
    <3>1. PICK i \in DOMAIN v : x = v[i].id BY DEF IdsOf
    <3>2. i + n \in DOMAIN p /\ x = p[i + n].id BY <3>1, <1>1
    <3> QED BY <3>2 DEF IdsOf
  <2> QED BY <2>1, <2>2, <2>3
<1>8. ReturnsLedger(p, g, S \cup T) BY <1>4, <1>6, <1>7 DEF ReturnsLedger
<1> QED BY <1>8 DEF p

-----------------------------------------------------------------------------
(* The bursts of a rank.                                                   *)

LEMMA BurstsAppend ==
  ASSUME NEW v \in Seq(Burst), NEW y \in Burst, NEW out, NEW g, NEW A, NEW B,
         RankLedger(v, out, g, A, B), Matching(y.read, g), \A id \in A : After(id, y.read.id, g)
  PROVE  RankLedger(Append(v, y), out, g, A \cup {y.read.id}, B)
<1> DEFINE p == Append(v, y)
<1>1. /\ DOMAIN p = DOMAIN v \cup {Len(v) + 1} /\ p[Len(v) + 1] = y
      /\ \A i \in DOMAIN v : p[i] = v[i] /\ i < Len(v) + 1
      /\ DOMAIN v \subseteq Nat /\ Len(v) \in Nat
  BY AppendedMembers
<1> HIDE DEF p
<1>2. \A i \in DOMAIN v : v[i].read.id \in A BY DEF RankLedger, BurstIds
<1>3. \A i \in DOMAIN p : Matching(p[i].read, g) BY <1>1 DEF RankLedger
<1>4. ASSUME NEW i \in DOMAIN p, NEW j \in DOMAIN p, i < j
      PROVE  After(p[i].read.id, p[j].read.id, g)
  <2>1. i \in DOMAIN v BY <1>1, <1>4
  <2>2. CASE j \in DOMAIN v BY <2>1, <2>2, <1>1, <1>4 DEF RankLedger, BurstsApart
  <2>3. CASE j = Len(v) + 1 BY <2>1, <2>3, <1>1, <1>2
  <2> QED BY <2>2, <2>3, <1>1
<1>5. BurstIds(p) = A \cup {y.read.id}
  <2>1. \A x \in BurstIds(p) : x \in A \cup {y.read.id} BY <1>1, <1>2 DEF BurstIds
  <2>2. \A x \in A : \E i \in DOMAIN v : x = v[i].read.id BY DEF RankLedger, BurstIds
  <2>3. \A x \in A : x \in BurstIds(p) BY <2>2, <1>1 DEF BurstIds
  <2>4. y.read.id \in BurstIds(p) BY <1>1 DEF BurstIds
  <2> QED BY <2>1, <2>3, <2>4
<1>6. BurstsApart(p, g) BY <1>4 DEF BurstsApart
<1>7. RankLedger(p, out, g, A \cup {y.read.id}, B) BY <1>3, <1>5, <1>6 DEF RankLedger
<1> QED BY <1>7 DEF p

\* The oldest read of a rank becomes the burst it sends.
LEMMA BurstsTail ==
  ASSUME NEW v \in Seq(Burst), v # <<>>, NEW out, NEW g, NEW A, NEW B, RankLedger(v, out, g, A, B),
         NEW n \in Int
  PROVE  /\ RankLedger(Tail(v), [read |-> v[1].read, left |-> n], g, A \ {v[1].read.id}, {v[1].read.id})
         /\ v[1].read.id \in A
         /\ \A id \in A : id # v[1].read.id => After(v[1].read.id, id, g)
<1> DEFINE x == v[1].read.id
           o == [read |-> v[1].read, left |-> n]
<1>1. /\ 1 \in DOMAIN v /\ DOMAIN v \subseteq Nat \ {0}
      /\ \A j \in DOMAIN Tail(v) : j + 1 \in DOMAIN v /\ Tail(v)[j] = v[j + 1]
      /\ \A j \in DOMAIN v : j # 1 => j - 1 \in DOMAIN Tail(v) /\ Tail(v)[j - 1] = v[j]
      /\ DOMAIN Tail(v) \subseteq Nat \ {0}
  BY TailMembers
<1>2. \A i \in DOMAIN v : v[i].read.id \in A BY DEF RankLedger, BurstIds
<1>3. \A id \in A : \E i \in DOMAIN v : id = v[i].read.id BY DEF RankLedger, BurstIds
<1>4. \A j \in DOMAIN v : j # 1 => After(x, v[j].read.id, g)
  <2>1. \A j \in DOMAIN v : j # 1 => 1 < j BY <1>1
  <2> QED BY <1>1, <2>1 DEF RankLedger, BurstsApart
<1>5. \A j \in DOMAIN Tail(v) : Matching(Tail(v)[j].read, g) BY <1>1 DEF RankLedger
<1>6. ASSUME NEW i \in DOMAIN Tail(v), NEW j \in DOMAIN Tail(v), i < j
      PROVE  After(Tail(v)[i].read.id, Tail(v)[j].read.id, g)
  <2>1. i + 1 < j + 1 BY <1>1, <1>6
  <2> QED BY <1>1, <2>1 DEF RankLedger, BurstsApart
<1>7. BurstIds(Tail(v)) = A \ {x}
  <2>1. ASSUME NEW z \in BurstIds(Tail(v)) PROVE z \in A \ {x}
    <3>1. PICK j \in DOMAIN Tail(v) : z = Tail(v)[j].read.id BY DEF BurstIds
    <3>2. j + 1 \in DOMAIN v /\ z = v[j + 1].read.id /\ j + 1 # 1 BY <3>1, <1>1
    <3> QED BY <3>2, <1>2, <1>4 DEF After
  <2>2. ASSUME NEW z \in A \ {x} PROVE z \in BurstIds(Tail(v))
    <3>1. PICK j \in DOMAIN v : z = v[j].read.id BY <1>3
    <3>2. j - 1 \in DOMAIN Tail(v) /\ Tail(v)[j - 1] = v[j] BY <3>1, <1>1, <2>2
    <3> QED BY <3>1, <3>2 DEF BurstIds
  <2> QED BY <2>1, <2>2
<1>8. BurstsApart(Tail(v), g) BY <1>6 DEF BurstsApart
<1>9. /\ o.read = v[1].read /\ o # None
  <2>1. v[1] \in Burst BY <1>1
  <2>2. o \in Burst BY <2>1 DEF Burst
  <2> QED BY <2>2, NoneApart
<1>10. Matching(v[1].read, g) BY <1>1 DEF RankLedger
<1>11. RankLedger(Tail(v), o, g, A \ {x}, {x}) BY <1>5, <1>7, <1>8, <1>9, <1>10 DEF RankLedger
<1> QED BY <1>11, <1>1, <1>2, <1>3, <1>4

\* The same bursts, closer by a cycle.
LEMMA BurstsSame ==
  ASSUME NEW v \in Seq(Burst), NEW out, NEW g, NEW A, NEW B, RankLedger(v, out, g, A, B),
         NEW v2, DOMAIN v2 = DOMAIN v, \A i \in DOMAIN v : v2[i].read = v[i].read
  PROVE  RankLedger(v2, out, g, A, B)
<1>1. BurstIds(v2) = BurstIds(v) BY DEF BurstIds
<1> QED BY <1>1 DEF RankLedger, BurstsApart

(* What the places of the ids come to when x goes from a to b.             *)

Moved(loc, x, b) == [loc EXCEPT ![x] = b]

\* When one request moves on, only the set it leaves and the set it enters change.
LEMMA MovedSets ==
  ASSUME NEW loc \in [Ids -> 0 .. 9], NEW x \in Ids, NEW b \in 0 .. 9, loc[x] # b
  PROVE  LET m == Moved(loc, x, b)
         IN  /\ m \in [Ids -> 0 .. 9] /\ m[x] = b /\ \A id \in Ids : id # x => m[id] = loc[id]
             /\ \A k \in 0 .. 9 : k = loc[x] => At(m, k) = At(loc, k) \ {x}
             /\ At(m, b) = At(loc, b) \cup {x}
             /\ x \in At(loc, loc[x]) /\ x \notin At(loc, b)
             /\ \A k \in 0 .. 9 : k # loc[x] /\ k # b => At(m, k) = At(loc, k)
<1> DEFINE m == Moved(loc, x, b)
<1>1. m \in [Ids -> 0 .. 9] /\ m[x] = b /\ \A id \in Ids : id # x => m[id] = loc[id]
  BY DEF Moved
<1> HIDE DEF m
<1>2. \A k \in 0 .. 9 : k = loc[x] => At(m, k) = At(loc, k) \ {x} BY <1>1 DEF At
<1>5. At(m, b) = At(loc, b) \cup {x} BY <1>1 DEF At
<1>3. \A k \in 0 .. 9 : k # loc[x] /\ k # b => At(m, k) = At(loc, k) BY <1>1 DEF At
<1>4. x \in At(loc, loc[x]) /\ x \notin At(loc, b) BY DEF At
<1> QED BY <1>1, <1>2, <1>3, <1>4, <1>5 DEF m

\* A set of ids is finite.
LEMMA IdsFinite ==
  ASSUME NEW S \in SUBSET Ids
  PROVE  IsFiniteSet(S) /\ Cardinality(S) \in Nat
<1>1. IsFiniteSet(Ids) BY FS_Interval, ConstantTypes DEF Ids
<1>2. IsFiniteSet(S) BY <1>1, FS_Subset
<1> QED BY <1>2, FS_CardinalityType

\* A list with a member added is not empty.
LEMMA AppendNotEmpty ==
  ASSUME NEW S, NEW q \in Seq(S), NEW y \in S
  PROVE  Append(q, y) # <<>>
<1>1. Len(Append(q, y)) = Len(q) + 1 /\ Len(q) \in Nat /\ Len(<<>>) = 0 OBVIOUS
<1> QED BY <1>1

\* Removing a member removes one.
LEMMA OneFewer ==
  ASSUME NEW S \in SUBSET Ids, NEW x \in S
  PROVE  Cardinality(S \ {x}) = Cardinality(S) - 1
BY IdsFinite, FS_RemoveElement

\* Adding a new member adds one.
LEMMA OneMore ==
  ASSUME NEW S \in SUBSET Ids, NEW x, x \notin S
  PROVE  Cardinality(S \cup {x}) = Cardinality(S) + 1
BY IdsFinite, FS_AddElement

-----------------------------------------------------------------------------
(* The phases of an update that move nothing.                              *)

SameLedger(s, t) ==
  /\ t.held = s.held /\ t.transactions = s.transactions /\ t.onTheFly = s.onTheFly
  /\ t.queues = s.queues /\ t.command = s.command /\ t.data = s.data /\ t.writes = s.writes
  /\ t.reads = s.reads /\ t.returns = s.returns /\ t.store = s.store /\ t.replies = s.replies
  /\ \A r \in Ranks : t.ranks[r].reads = s.ranks[r].reads /\ t.ranks[r].out = s.ranks[r].out

\* The ledger depends on no other field than those SameLedger compares.
LEMMA SoundKept ==
  ASSUME NEW s, NEW t, SameLedger(s, t), NEW g, NEW loc, NEW bars, NEW P, NEW mem,
         Sound(s, g, loc, bars, P, mem)
  PROVE  Sound(t, g, loc, bars, P, mem)
<1>1. RanksLedger(t.ranks, g, At(loc, InRank), At(loc, InBurst))
  BY DEF Sound, Ledger, RanksLedger, SameLedger
<1>2. Counted(t, Owed(loc)) BY DEF Sound, Ledger, Counted, SameLedger
<1>3. Ledger(t, g, loc, bars) BY <1>1, <1>2 DEF Sound, Ledger, SameLedger
<1> QED BY <1>3 DEF Sound, SameLedger

\* A held transaction comes into the transaction queue.
LEMMA MoveHeldSound ==
  ASSUME NEW s, Typed(s), NEW g, NEW loc, NEW bars, NEW P, NEW mem, Sound(s, g, loc, bars, P, mem),
         NEW t, t = MoveHeld(s)
  PROVE  /\ \E m : Sound(t, g, m, bars, P, mem) /\ Waits(m) = Waits(loc)
         /\ t.held # <<>> => t.transactions # <<>>
<1> DEFINE moves == s.held # <<>> /\ Len(s.transactions) < TransQueueDepth
           x == s.held[1].id
           m == Moved(loc, x, InTransactions)
<1>1. /\ IsChannel(s) /\ s.held \in Seq(Transaction) /\ s.transactions \in Seq(Transaction)
      /\ Len(s.transactions) <= TransQueueDepth
  BY DEF Typed, QueuesTyped
<1>2. /\ t.held = IF moves THEN Tail(s.held) ELSE s.held
      /\ t.transactions = IF moves THEN Append(s.transactions, Head(s.held)) ELSE s.transactions
      /\ t.onTheFly = IF moves THEN s.onTheFly + 1 ELSE s.onTheFly
      /\ t.queues = s.queues /\ t.command = s.command
      /\ t.data = s.data /\ t.writes = s.writes /\ t.reads = s.reads /\ t.returns = s.returns
      /\ t.ranks = s.ranks /\ t.store = s.store /\ t.replies = s.replies
  BY <1>1, MoveHeldFields
<1>3. t.held # <<>> => t.transactions # <<>>
  <2>1. CASE moves
    <3>1. \A q \in Seq(Transaction), y \in Transaction : Append(q, y) # <<>> BY AppendNotEmpty
    <3>2. Head(s.held) \in Transaction BY <2>1, <1>1
    <3> QED BY <1>1, <1>2, <2>1, <3>1, <3>2
  <2>2. CASE ~moves /\ s.held # <<>>
    <3>1. Len(s.transactions) # 0 BY <2>2, <1>1, ConstantTypes
    <3> QED BY <3>1, <1>1, <1>2, <2>2
  <2> QED BY <2>1, <2>2, <1>2
<1>4. CASE ~moves
  <2>1. SameLedger(s, t) BY <1>2, <1>4 DEF SameLedger
  <2>2. Sound(t, g, loc, bars, P, mem) BY <2>1, SoundKept
  <2> QED BY <2>2, <1>3
<1>5. CASE moves
  <2> DEFINE y == s.held[1]
             S0 == At(loc, InHeld)
             S1 == At(loc, InTransactions)
  <2>1. /\ Ghosts(g, loc, bars) /\ g \in [Ids -> Request] /\ loc \in [Ids -> 0 .. 9]
        /\ Listed(s.held, g, bars, S0) /\ Listed(s.transactions, g, bars, S1)
        /\ QueuesLedger(s.queues, g, bars, At(loc, InQueue))
        /\ CommandLedger(s.command, g, At(loc, OnBus), Waits(loc))
        /\ WritesLedger(s.writes, s.data, g, At(loc, InWrites), At(loc, OnData))
        /\ ReadsLedger(s.reads, g, Expected(g, loc), Fetched(loc))
        /\ RanksLedger(s.ranks, g, At(loc, InRank), At(loc, InBurst))
        /\ ReturnsLedger(s.returns, g, At(loc, InReturns))
        /\ Ordered(g, loc) /\ Counted(s, Owed(loc))
        /\ Chain(Undone(s.command, loc), s.store, mem, g) /\ Answered(s.replies, g, P, Owed(loc))
    BY DEF Sound, Ledger, Ghosts
  <2>2. /\ y \in Transaction /\ Head(s.held) = y /\ 1 \in DOMAIN s.held /\ Ticket(y, g, bars)
        /\ Tail(s.held) \in Seq(Transaction) /\ Len(Tail(s.held)) = Len(s.held) - 1
        /\ Len(s.held) \in Nat
    BY <1>1, <1>5, <2>1 DEF Listed
  <2>3. x \in Ids /\ loc[x] = 0 /\ Listed(Tail(s.held), g, bars, S0 \ {x})
        /\ \A id \in S0 : id # x => g[x].stamp < g[id].stamp
    <3>1. Listed(Tail(s.held), g, bars, S0 \ {x}) /\ x \in S0
          /\ \A id \in S0 : id # x => g[x].stamp < g[id].stamp
      BY <1>1, <1>5, <2>1, ListedTail
    <3> QED BY <3>1 DEF At, InHeld
  <2>4. /\ m \in [Ids -> 0 .. 9] /\ m[x] = 1 /\ \A id \in Ids : id # x => m[id] = loc[id]
        /\ At(m, 0) = At(loc, 0) \ {x} /\ At(m, 1) = At(loc, 1) \cup {x}
        /\ \A k \in 0 .. 9 : k # 0 /\ k # 1 => At(m, k) = At(loc, k)
    <3>1. loc \in [Ids -> 0 .. 9] /\ x \in Ids /\ loc[x] = 0 /\ m = Moved(loc, x, 1)
      BY <2>1, <2>3 DEF InTransactions
    <3> HIDE DEF m, x
    <3> QED BY <3>1, MovedSets
  <2> HIDE DEF m, x, y
  <2>5. /\ Waits(m) = Waits(loc) /\ Owed(m) = Owed(loc) /\ Fetched(m) = Fetched(loc)
        /\ Expected(g, m) = Expected(g, loc) /\ Undone(s.command, m) = Undone(s.command, loc)
    BY <2>3, <2>4 DEF Waits, Owed, Fetched, Expected, Undone, InQueue, Free, InRank, InReturns, OnBus
  <2>6. Listed(t.held, g, bars, At(m, InHeld)) BY <1>2, <1>5, <2>3, <2>4 DEF InHeld
  <2>7. Listed(t.transactions, g, bars, At(m, InTransactions))
    <3>1. \A id \in S1 : g[id].stamp < g[x].stamp
      BY <2>1, <2>3 DEF Ordered, At, InHeld, InTransactions
    <3>2. Listed(Append(s.transactions, y), g, bars, S1 \cup {y.id})
      BY <1>1, <2>1, <2>2, <3>1, ListedAppend DEF x, y
    <3> QED BY <3>2, <1>2, <1>5, <2>2, <2>4 DEF InTransactions, x, y
  <2>8. Ordered(g, m)
    <3>1. ASSUME NEW u \in Ids, NEW v \in Ids, m[u] = InHeld, m[v] = InTransactions
          PROVE  g[v].stamp < g[u].stamp
      <4>1. u # x /\ loc[u] = 0 BY <3>1, <2>4 DEF InHeld
      <4>2. CASE v = x BY <4>1, <4>2, <2>3 DEF At, InHeld
      <4>3. CASE v # x BY <4>1, <4>3, <3>1, <2>1, <2>4 DEF Ordered, InHeld, InTransactions
      <4> QED BY <4>2, <4>3
    <3>2. \A u, v \in Ids : m[u] < m[v] /\ m[v] \in 2 .. 6 => loc[u] < loc[v] /\ loc[v] = m[v]
      BY <2>3, <2>4
    <3> QED BY <3>1, <3>2, <2>1 DEF Ordered, InQueue, OnBus, InReturns
  <2>9. Counted(t, Owed(m))
    <3>1. s.onTheFly \in Int BY DEF Typed, DataTyped
    <3> QED BY <1>2, <1>5, <2>1, <2>2, <2>5, <3>1 DEF Counted
  <2>10. Ledger(t, g, m, bars)
    BY <1>2, <2>1, <2>4, <2>5, <2>6, <2>7, <2>8, <2>9
    DEF Ledger, InQueue, OnBus, InWrites, OnData, InRank, InBurst, InReturns
  <2>11. Sound(t, g, m, bars, P, mem) BY <1>2, <2>1, <2>4, <2>5, <2>10 DEF Sound, Ghosts
  <2> QED BY <1>3, <2>5, <2>11
<1> QED BY <1>4, <1>5

\* The parts of the ledger invariant.
LEMMA SoundParts ==
  ASSUME NEW s, NEW g, NEW loc, NEW bars, NEW P, NEW mem, Sound(s, g, loc, bars, P, mem)
  PROVE  /\ g \in [Ids -> Request] /\ loc \in [Ids -> 0 .. 9] /\ bars \subseteq Ids
         /\ Listed(s.held, g, bars, At(loc, 0)) /\ Listed(s.transactions, g, bars, At(loc, 1))
         /\ QueuesLedger(s.queues, g, bars, At(loc, 2))
         /\ CommandLedger(s.command, g, At(loc, 3), Waits(loc))
         /\ WritesLedger(s.writes, s.data, g, At(loc, 7), At(loc, 8))
         /\ ReadsLedger(s.reads, g, Expected(g, loc), Fetched(loc))
         /\ RanksLedger(s.ranks, g, At(loc, 4), At(loc, 5))
         /\ ReturnsLedger(s.returns, g, At(loc, 6))
         /\ Ordered(g, loc) /\ Counted(s, Owed(loc))
         /\ Chain(Undone(s.command, loc), s.store, mem, g) /\ Answered(s.replies, g, P, Owed(loc))
BY DEF Sound, Ledger, Ghosts, InHeld, InTransactions, InQueue, OnBus, InWrites, OnData, InRank,
       InBurst, InReturns

\* The ledger invariant from its parts.
LEMMA SoundFrom ==
  ASSUME NEW s, NEW g, NEW loc, NEW bars, NEW P, NEW mem,
         g \in [Ids -> Request], loc \in [Ids -> 0 .. 9], bars \subseteq Ids,
         Listed(s.held, g, bars, At(loc, 0)), Listed(s.transactions, g, bars, At(loc, 1)),
         QueuesLedger(s.queues, g, bars, At(loc, 2)),
         CommandLedger(s.command, g, At(loc, 3), Waits(loc)),
         WritesLedger(s.writes, s.data, g, At(loc, 7), At(loc, 8)),
         ReadsLedger(s.reads, g, Expected(g, loc), Fetched(loc)),
         RanksLedger(s.ranks, g, At(loc, 4), At(loc, 5)),
         ReturnsLedger(s.returns, g, At(loc, 6)),
         Ordered(g, loc), Counted(s, Owed(loc)),
         Chain(Undone(s.command, loc), s.store, mem, g), Answered(s.replies, g, P, Owed(loc))
  PROVE  Sound(s, g, loc, bars, P, mem)
BY DEF Sound, Ledger, Ghosts, InHeld, InTransactions, InQueue, OnBus, InWrites, OnData, InRank,
       InBurst, InReturns

-----------------------------------------------------------------------------
(* The chain of values when a command reaches its bank.                    *)

LEMMA ChainRead ==
  ASSUME NEW U, NEW store, NEW mem, NEW g, Chain(U, store, mem, g), NEW x \in U, ~g[x].write
  PROVE  Chain(U \ {x}, store, mem, g)
<1> DEFINE V == U \ {x}
<1>1. \A z, p : WriteTo(z, p, g) => z # x BY DEF WriteTo
<1>2. \A z, p : z \in U /\ WriteTo(z, p, g) => z \in V BY <1>1
<1> HIDE DEF V
<1>3. V \subseteq U BY DEF V
<1>4. ReadsStore(V, store, g) BY <1>2, <1>3 DEF Chain, ReadsStore
<1>5. ReadsWrite(V, g) BY <1>2, <1>3 DEF Chain, ReadsWrite, Quiet
<1>6. StoreKept(V, store, mem, g) BY <1>2, <1>3 DEF Chain, StoreKept
<1>7. LastWrite(V, mem, g) BY <1>2, <1>3 DEF Chain, LastWrite
<1>8. Chain(V, store, mem, g) BY <1>4, <1>5, <1>6, <1>7 DEF Chain
<1> QED BY <1>8 DEF V

\* Storing the oldest write of its place keeps what the outstanding requests will read and write.
LEMMA ChainWrite ==
  ASSUME NEW U \in SUBSET Ids, NEW store \in [Places -> Values], NEW mem, NEW g \in [Ids -> Request],
         Chain(U, store, mem, g), NEW x \in U, g[x].write,
         \A z \in U : z # x /\ g[z].place = g[x].place => g[x].stamp < g[z].stamp
  PROVE  Chain(U \ {x}, [store EXCEPT ![g[x].place] = g[x].value], mem, g)
<1> DEFINE V == U \ {x}
           p == g[x].place
           new == [store EXCEPT ![p] = g[x].value]
<1>1. /\ \A z \in U : g[z].stamp \in Nat
      /\ p \in Places
  BY GhostFields
<1>2. /\ new[p] = g[x].value
      /\ \A q \in Places : q # p => new[q] = store[q]
  BY <1>1
<1>3. V \subseteq U /\ x \notin V /\ \A z \in U : z = x \/ z \in V OBVIOUS
<1>4. \A z \in V : g[z].place = p => g[x].stamp < g[z].stamp OBVIOUS
<1>5. \A z \in U : g[z].place \in Places BY GhostFields
<1>6. WriteTo(x, p, g) /\ \A q : q # p => ~WriteTo(x, q, g) BY DEF WriteTo
<1> HIDE DEF V, p, new
<1>7. ReadsStore(V, new, g)
  <2> SUFFICES ASSUME NEW y \in V, ~g[y].write,
                      \A z \in V : WriteTo(z, g[y].place, g) => g[y].stamp <= g[z].stamp
               PROVE  g[y].value = new[g[y].place]
    BY DEF ReadsStore
  <2>1. CASE g[y].place = p
    <3>1. WriteTo(x, g[y].place, g) /\ g[x].stamp < g[y].stamp BY <2>1, <1>4, <1>6
    <3>2. \A z \in U : WriteTo(z, g[y].place, g) => g[z].stamp <= g[x].stamp \/ g[y].stamp <= g[z].stamp
      BY <1>1, <1>3
    <3>3. Quiet(U, x, y, g) BY <3>2 DEF Quiet
    <3>4. g[y].value = g[x].value BY <3>1, <3>3, <1>3 DEF Chain, ReadsWrite
    <3> QED BY <3>4, <2>1, <1>2
  <2>2. CASE g[y].place # p
    <3>1. \A z \in U : WriteTo(z, g[y].place, g) => g[y].stamp <= g[z].stamp BY <2>2, <1>3, <1>6
    <3>2. g[y].value = store[g[y].place] BY <3>1, <1>3 DEF Chain, ReadsStore
    <3> QED BY <3>2, <2>2, <1>2, <1>3, <1>5
  <2> QED BY <2>1, <2>2
<1>8. ReadsWrite(V, g)
  <2> SUFFICES ASSUME NEW u \in V, NEW y \in V, WriteTo(u, g[y].place, g), ~g[y].write,
                      g[u].stamp < g[y].stamp, Quiet(V, u, y, g)
               PROVE  g[y].value = g[u].value
    BY DEF ReadsWrite
  <2>1. WriteTo(x, g[y].place, g) => g[x].stamp <= g[u].stamp
    <3> SUFFICES ASSUME WriteTo(x, g[y].place, g) PROVE g[x].stamp <= g[u].stamp OBVIOUS
    <3>1. g[u].place = p BY DEF WriteTo, p
    <3> QED BY <3>1, <1>1, <1>3, <1>4
  <2>2. Quiet(U, u, y, g) BY <2>1, <1>3 DEF Quiet
  <2> QED BY <2>2, <1>3 DEF Chain, ReadsWrite
<1>9. StoreKept(V, new, mem, g)
  <2> SUFFICES ASSUME NEW q \in Places, \A z \in V : ~WriteTo(z, q, g) PROVE mem[q] = new[q]
    BY DEF StoreKept
  <2>1. CASE q = p
    <3>1. \A z \in U : WriteTo(z, g[x].place, g) => z = x BY <2>1, <1>3 DEF p
    <3>2. mem[g[x].place] = g[x].value BY <3>1, <1>1 DEF Chain, LastWrite
    <3> QED BY <3>2, <2>1, <1>2 DEF p
  <2>2. CASE q # p
    <3>1. \A z \in U : ~WriteTo(z, q, g) BY <2>2, <1>3, <1>6
    <3> QED BY <3>1, <2>2, <1>2 DEF Chain, StoreKept
  <2> QED BY <2>1, <2>2
<1>10. LastWrite(V, mem, g)
  <2> SUFFICES ASSUME NEW u \in V, g[u].write,
                      \A z \in V : WriteTo(z, g[u].place, g) => g[z].stamp <= g[u].stamp
               PROVE  mem[g[u].place] = g[u].value
    BY DEF LastWrite
  <2>1. WriteTo(x, g[u].place, g) => g[x].stamp <= g[u].stamp BY <1>1, <1>3, <1>4 DEF WriteTo, p
  <2>2. \A z \in U : WriteTo(z, g[u].place, g) => g[z].stamp <= g[u].stamp BY <2>1, <1>3
  <2> QED BY <2>2, <1>3 DEF Chain, LastWrite
<1>11. Chain(V, new, mem, g) BY <1>7, <1>8, <1>9, <1>10 DEF Chain
<1> QED BY <1>11 DEF V, p, new

\* A read that reaches its bank fills its entry.
LEMMA ReadsFilled ==
  ASSUME NEW s, s.reads \in Seq(Pending), s.store \in [Places -> Values], NEW g, NEW X, NEW F,
         ReadsLedger(s.reads, g, X, F), NEW c, PlaceOf(c) \in Places,
         s.store[PlaceOf(c)] = g[c.id].value
  PROVE  ReadsLedger(Filled(s, c), g, X, F \cup {c.id})
<1> DEFINE q == s.reads
           p == Filled(s, c)
<1>1. /\ DOMAIN p = DOMAIN q
      /\ \A i \in DOMAIN q : /\ p[i].id = q[i].id /\ p[i].token = q[i].token /\ p[i].place = q[i].place
                             /\ p[i].value = IF q[i].id = c.id THEN s.store[PlaceOf(c)] ELSE q[i].value
  BY FilledTyped
<1>2. /\ \A i \in DOMAIN q : /\ Matching(q[i], g) /\ ~g[q[i].id].write
                             /\ q[i].id \in F => q[i].value = g[q[i].id].value
      /\ Apart(q, g) /\ IdsOf(q) = X
  BY DEF ReadsLedger
<1> HIDE DEF p, q
<1>3. \A i \in DOMAIN p : /\ Matching(p[i], g) /\ ~g[p[i].id].write
                          /\ p[i].id \in F \cup {c.id} => p[i].value = g[p[i].id].value
  <2> SUFFICES ASSUME NEW i \in DOMAIN p
               PROVE  /\ Matching(p[i], g) /\ ~g[p[i].id].write
                      /\ p[i].id \in F \cup {c.id} => p[i].value = g[p[i].id].value
    OBVIOUS
  <2>1. i \in DOMAIN q /\ p[i].id = q[i].id /\ p[i].token = q[i].token /\ p[i].place = q[i].place
    BY <1>1
  <2>2. Matching(p[i], g) /\ ~g[p[i].id].write BY <1>2, <2>1 DEF Matching
  <2>3. CASE q[i].id = c.id BY <2>1, <2>2, <2>3, <1>1
  <2>4. CASE q[i].id # c.id BY <2>1, <2>2, <2>4, <1>1, <1>2
  <2> QED BY <2>3, <2>4
<1>4. Apart(p, g) BY <1>1, <1>2 DEF Apart
<1>5. IdsOf(p) = X BY <1>1, <1>2 DEF IdsOf
<1>6. ReadsLedger(p, g, X, F \cup {c.id}) BY <1>3, <1>4, <1>5 DEF ReadsLedger
<1> QED BY <1>6 DEF p, q

\* The burst of a read joins those of its rank.
LEMMA BurstJoins ==
  ASSUME NEW a \in [Ranks -> RankState], NEW z, NEW g \in [Ids -> Request], NEW loc \in [Ids -> 0 .. 9],
         NEW c \in Command, c.kind = "READ", Order(c, g), c.id \in At(loc, 3),
         NEW m, m = Moved(loc, c.id, 4), Ordered(g, loc),
         RanksLedger(a, g, At(loc, 4), At(loc, 5)),
         \A r \in Ranks : /\ z[r].out = a[r].out
                          /\ z[r].reads = IF r = c.rank THEN Append(a[r].reads, BurstOf(c)) ELSE a[r].reads
  PROVE  RanksLedger(z, g, At(m, 4), At(m, 5))
<1> DEFINE x == c.id
           y == BurstOf(c)
<1>1. /\ x \in Ids /\ loc[x] = 3 /\ PlaceOf(c) = g[x].place /\ g[x].place.rank = c.rank
      /\ y \in Burst /\ y.read.id = x /\ y.read.token = c.token /\ y.read.place = PlaceOf(c)
      /\ c.rank \in Ranks
  BY ColumnCommandFields DEF At, Order, BurstOf
<1>2. Matching(y.read, g) BY <1>1 DEF Matching, Order
<1>3. /\ At(m, 4) = At(loc, 4) \cup {x} /\ At(m, 5) = At(loc, 5) BY <1>1, MovedSets
<1>4. \A id \in At(loc, 4) : After(id, x, g) BY <1>1 DEF After, Ordered, At, OnBus, InReturns
<1> HIDE DEF x, y
<1>5. ASSUME NEW r \in Ranks
      PROVE  RankLedger(z[r].reads, z[r].out, g, To(At(m, 4), r, g), To(At(m, 5), r, g))
  <2> DEFINE A == To(At(loc, 4), r, g)
             B == To(At(loc, 5), r, g)
  <2>1. RankLedger(a[r].reads, a[r].out, g, A, B) /\ a[r].reads \in Seq(Burst)
    BY DEF RanksLedger, RankState
  <2>2. CASE r = c.rank
    <3>1. To(At(m, 4), r, g) = A \cup {x} BY <1>1, <1>3, <2>2 DEF To
    <3>2. \A id \in A : After(id, y.read.id, g) BY <1>1, <1>4 DEF To
    <3>3. RankLedger(Append(a[r].reads, y), a[r].out, g, A \cup {y.read.id}, B)
      <4> HIDE DEF A, B
      <4> QED BY <1>1, <1>2, <2>1, <3>2, BurstsAppend
    <3>4. z[r].reads = Append(a[r].reads, y) /\ z[r].out = a[r].out BY <2>2 DEF y
    <3> QED BY <1>1, <1>3, <3>1, <3>3, <3>4
  <2>3. CASE r # c.rank
    <3>1. To(At(m, 4), r, g) = A BY <1>1, <1>3, <2>3 DEF To
    <3> QED BY <1>3, <2>1, <2>3, <3>1
  <2> QED BY <2>2, <2>3
<1> QED BY <1>5 DEF RanksLedger

\* A read that reaches its rank records what the requests before it at its place left.
LEMMA ReadDelivered ==
  ASSUME NEW s, Typed(s), NEW g, NEW loc, NEW bars, NEW P, NEW mem, Sound(s, g, loc, bars, P, mem),
         s.command # None, s.command.kind = "READ", NEW t, t = DeliverCommand(s)
  PROVE  \E m : Sound(t, g, m, bars, P, mem) /\ Waits(m) = Waits(loc)
<1> DEFINE c == s.command
           x == c.id
           m == Moved(loc, x, 4)
           U == Undone(c, loc)
<1>1. /\ IsChannel(s) /\ c \in Command /\ c # None /\ c.kind = "READ" /\ c.rank \in Ranks
      /\ PlaceOf(c) \in Places /\ x \in Ids
      /\ s.ranks \in [Ranks -> RankState] /\ s.reads \in Seq(Pending)
      /\ s.store \in [Places -> Values]
  BY ColumnCommandFields DEF Typed, QueuesTyped, DataTyped
<1>2. /\ t.command = None /\ t.reads = Filled(s, c) /\ t.store = s.store
      /\ t.held = s.held /\ t.transactions = s.transactions /\ t.onTheFly = s.onTheFly
      /\ t.queues = s.queues /\ t.data = s.data /\ t.writes = s.writes /\ t.returns = s.returns
      /\ t.replies = s.replies
  BY <1>1, DeliverCommandFields
<1>3. \A r \in Ranks :
        /\ t.ranks[r].out = s.ranks[r].out
        /\ t.ranks[r].reads = IF r = c.rank THEN Append(s.ranks[r].reads, BurstOf(c))
                              ELSE s.ranks[r].reads
  BY <1>1, DeliverCommandRanks
<1>4. /\ g \in [Ids -> Request] /\ loc \in [Ids -> 0 .. 9] /\ bars \subseteq Ids
      /\ Listed(s.held, g, bars, At(loc, 0)) /\ Listed(s.transactions, g, bars, At(loc, 1))
      /\ QueuesLedger(s.queues, g, bars, At(loc, 2))
      /\ CommandLedger(c, g, At(loc, 3), Waits(loc))
      /\ WritesLedger(s.writes, s.data, g, At(loc, 7), At(loc, 8))
      /\ ReadsLedger(s.reads, g, Expected(g, loc), Fetched(loc))
      /\ RanksLedger(s.ranks, g, At(loc, 4), At(loc, 5))
      /\ ReturnsLedger(s.returns, g, At(loc, 6))
      /\ Ordered(g, loc) /\ Counted(s, Owed(loc))
      /\ Chain(U, s.store, mem, g) /\ Answered(s.replies, g, P, Owed(loc))
  BY SoundParts
<1>5. /\ Order(c, g) /\ x \notin Waits(loc) /\ x \in At(loc, 3) /\ ~g[x].write
      /\ \A id \in Waits(loc) : g[id].place = PlaceOf(c) => g[x].stamp < g[id].stamp
      /\ \A id \in At(loc, 3) : id = x
      /\ g[x].place = PlaceOf(c)
  <2>1. ("READ" = "WRITE") = FALSE OBVIOUS
  <2> QED BY <1>1, <1>4, <2>1 DEF CommandLedger, Order
<1>6. loc[x] = 3 BY <1>5 DEF At
<1>7. /\ m \in [Ids -> 0 .. 9] /\ m[x] = 4 /\ \A id \in Ids : id # x => m[id] = loc[id]
      /\ At(m, 3) = At(loc, 3) \ {x}
      /\ \A k \in 0 .. 9 : k # 3 /\ k # 4 => At(m, k) = At(loc, k)
  BY <1>1, <1>4, <1>6, MovedSets
<1>8. RanksLedger(t.ranks, g, At(m, 4), At(m, 5))
  <2> DEFINE a == s.ranks
             z == t.ranks
  <2>1. /\ a \in [Ranks -> RankState] /\ g \in [Ids -> Request] /\ loc \in [Ids -> 0 .. 9]
        /\ c \in Command /\ c.kind = "READ" /\ Order(c, g) /\ c.id \in At(loc, 3)
        /\ m = Moved(loc, c.id, 4) /\ Ordered(g, loc)
        /\ RanksLedger(a, g, At(loc, 4), At(loc, 5))
        /\ \A r \in Ranks : /\ z[r].out = a[r].out
                            /\ z[r].reads = IF r = c.rank THEN Append(a[r].reads, BurstOf(c)) ELSE a[r].reads
    BY <1>1, <1>3, <1>4, <1>5
  <2>2. RanksLedger(z, g, At(m, 4), At(m, 5))
    <3> HIDE DEF a, z, c, m
    <3> QED BY <2>1, BurstJoins
  <2> QED BY <2>2
<1> HIDE DEF m, x, c, U
<1>9. /\ Waits(m) = Waits(loc) /\ Owed(m) = Owed(loc) /\ Fetched(m) = Fetched(loc) \cup {x}
      /\ Expected(g, m) = Expected(g, loc)
  <2>1. Waits(m) = Waits(loc) /\ Owed(m) = Owed(loc)
    BY <1>1, <1>6, <1>7 DEF Waits, Owed, InQueue, Free
  <2>2. Fetched(m) = Fetched(loc) \cup {x} BY <1>1, <1>6, <1>7 DEF Fetched, InRank, InReturns
  <2>3. Expected(g, m) = Expected(g, loc)
    BY <1>1, <1>6, <1>7 DEF Expected, InQueue, OnBus, InReturns
  <2> QED BY <2>1, <2>2, <2>3
<1>10. x \in U /\ U \subseteq Ids /\ Undone(None, m) = U \ {x}
  <2>1. U = Waits(loc) \cup {x} BY <1>1 DEF U, Undone, Waits, x
  <2>2. Undone(None, m) = Waits(m) BY DEF Undone, Waits
  <2> QED BY <1>1, <1>5, <1>9, <2>1, <2>2 DEF Waits
<1>11. g[x].value = s.store[PlaceOf(c)]
  <2>1. \A z \in U : g[z].place = g[x].place => g[x].stamp <= g[z].stamp
    <3>1. \A z \in U : g[z].stamp \in Nat BY <1>4, <1>10, GhostFields
    <3>2. \A z \in U : z = x \/ z \in Waits(loc) BY <1>1 DEF U, Undone, Waits, x
    <3> QED BY <3>1, <3>2, <1>5, <1>10
  <2>2. \A z \in U : WriteTo(z, g[x].place, g) => g[x].stamp <= g[z].stamp BY <2>1 DEF WriteTo
  <2> QED BY <2>2, <1>4, <1>5, <1>10 DEF Chain, ReadsStore
<1>12. ReadsLedger(t.reads, g, Expected(g, m), Fetched(m))
  <2>1. ReadsLedger(Filled(s, c), g, Expected(g, loc), Fetched(loc) \cup {c.id})
    BY <1>1, <1>4, <1>11, ReadsFilled DEF x
  <2> QED BY <2>1, <1>2, <1>9 DEF x
<1>13. Chain(Undone(t.command, m), t.store, mem, g) BY <1>2, <1>4, <1>5, <1>10, ChainRead
<1>14. CommandLedger(t.command, g, At(m, 3), Waits(m)) BY <1>2, <1>5, <1>7 DEF CommandLedger
<1>15. Ordered(g, m)
  <2>1. \A u, v \in Ids : m[u] = 0 /\ m[v] = 1 => loc[u] = 0 /\ loc[v] = 1 BY <1>7
  <2>2. \A u, v \in Ids : m[u] < m[v] /\ m[v] = 2 => loc[u] < loc[v] /\ loc[v] = 2 BY <1>7
  <2>3. ASSUME NEW u \in Ids, NEW v \in Ids, m[u] < m[v], m[v] \in 3 .. 6, g[u].place = g[v].place
        PROVE  g[v].stamp < g[u].stamp
    <3>1. CASE v = x
      <4>1. u # x /\ loc[u] < 4 BY <2>3, <3>1, <1>7
      <4>2. loc[u] # 3 BY <4>1, <1>5 DEF At
      <4>3. u \in Waits(loc) BY <4>1, <4>2, <1>4 DEF Waits, InQueue
      <4> QED BY <4>3, <3>1, <2>3, <1>5
    <3>2. CASE v # x
      <4>1. loc[u] < loc[v] /\ loc[v] \in 3 .. 6 BY <2>3, <3>2, <1>6, <1>7
      <4> QED BY <4>1, <2>3, <1>4 DEF Ordered, OnBus, InReturns
    <3> QED BY <3>1, <3>2
  <2> QED BY <2>1, <2>2, <2>3, <1>4 DEF Ordered, InHeld, InTransactions, InQueue, OnBus, InReturns
<1>16. Counted(t, Owed(m)) BY <1>2, <1>4, <1>9 DEF Counted
<1>17. Sound(t, g, m, bars, P, mem)
  <2>1. Listed(t.held, g, bars, At(m, 0)) /\ Listed(t.transactions, g, bars, At(m, 1))
    BY <1>2, <1>4, <1>7
  <2>2. QueuesLedger(t.queues, g, bars, At(m, 2)) /\ ReturnsLedger(t.returns, g, At(m, 6))
    BY <1>2, <1>4, <1>7
  <2>3. WritesLedger(t.writes, t.data, g, At(m, 7), At(m, 8)) BY <1>2, <1>4, <1>7
  <2>4. Answered(t.replies, g, P, Owed(m)) BY <1>2, <1>4, <1>9
  <2> QED BY <1>4, <1>7, <1>8, <1>12, <1>13, <1>14, <1>15, <1>16, <2>1, <2>2, <2>3, <2>4, SoundFrom
<1> QED BY <1>9, <1>17

\* A write reaches its bank: its place in the ledger stays.
LEMMA WriteDelivered ==
  ASSUME NEW s, Typed(s), NEW g, NEW loc, NEW bars, NEW P, NEW mem, Sound(s, g, loc, bars, P, mem),
         s.command # None, s.command.kind = "WRITE", NEW t, t = DeliverCommand(s)
  PROVE  Sound(t, g, loc, bars, P, mem)
<1> DEFINE c == s.command
           x == c.id
           U == Undone(c, loc)
<1>1. /\ IsChannel(s) /\ c \in Command /\ c # None /\ c.kind = "WRITE" /\ c.rank \in Ranks
      /\ PlaceOf(c) \in Places /\ x \in Ids
      /\ s.ranks \in [Ranks -> RankState] /\ s.store \in [Places -> Values]
  BY ColumnCommandFields DEF Typed, QueuesTyped, DataTyped
<1>2. /\ t.command = None /\ t.reads = s.reads
      /\ t.store = [s.store EXCEPT ![PlaceOf(c)] = c.value]
      /\ t.held = s.held /\ t.transactions = s.transactions /\ t.onTheFly = s.onTheFly
      /\ t.queues = s.queues /\ t.data = s.data /\ t.writes = s.writes /\ t.returns = s.returns
      /\ t.replies = s.replies
  BY <1>1, DeliverCommandFields
<1>3. \A r \in Ranks : t.ranks[r].out = s.ranks[r].out /\ t.ranks[r].reads = s.ranks[r].reads
  BY <1>1, DeliverCommandRanks
<1>4. /\ g \in [Ids -> Request] /\ loc \in [Ids -> 0 .. 9] /\ bars \subseteq Ids
      /\ Listed(s.held, g, bars, At(loc, 0)) /\ Listed(s.transactions, g, bars, At(loc, 1))
      /\ QueuesLedger(s.queues, g, bars, At(loc, 2))
      /\ CommandLedger(c, g, At(loc, 3), Waits(loc))
      /\ WritesLedger(s.writes, s.data, g, At(loc, 7), At(loc, 8))
      /\ ReadsLedger(s.reads, g, Expected(g, loc), Fetched(loc))
      /\ RanksLedger(s.ranks, g, At(loc, 4), At(loc, 5))
      /\ ReturnsLedger(s.returns, g, At(loc, 6))
      /\ Ordered(g, loc) /\ Counted(s, Owed(loc))
      /\ Chain(U, s.store, mem, g) /\ Answered(s.replies, g, P, Owed(loc))
  BY SoundParts
<1>5. /\ Order(c, g) /\ x \notin Waits(loc) /\ g[x].write
      /\ \A id \in Waits(loc) : g[id].place = PlaceOf(c) => g[x].stamp < g[id].stamp
      /\ At(loc, 3) = {}
      /\ g[x].place = PlaceOf(c) /\ g[x].value = c.value
  BY <1>1, <1>4 DEF CommandLedger, Order
<1>6. RanksLedger(t.ranks, g, At(loc, 4), At(loc, 5)) BY <1>3, <1>4 DEF RanksLedger
<1> HIDE DEF x, c, U
<1>7. x \in U /\ U \subseteq Ids /\ Undone(None, loc) = U \ {x}
      /\ \A z \in U : z = x \/ z \in Waits(loc)
  <2>1. U = Waits(loc) \cup {x} BY <1>1 DEF U, Undone, Waits, x
  <2>2. Undone(None, loc) = Waits(loc) BY DEF Undone, Waits
  <2> QED BY <1>1, <1>5, <2>1, <2>2 DEF Waits
<1>8. Chain(Undone(t.command, loc), t.store, mem, g)
  <2>1. t.store = [s.store EXCEPT ![g[x].place] = g[x].value] BY <1>2, <1>5
  <2>2. \A z \in U : z # x /\ g[z].place = g[x].place => g[x].stamp < g[z].stamp BY <1>5, <1>7
  <2>3. Chain(U \ {x}, [s.store EXCEPT ![g[x].place] = g[x].value], mem, g)
    BY <1>1, <1>4, <1>5, <1>7, <2>2, ChainWrite
  <2> QED BY <1>2, <1>7, <2>1, <2>3
<1>9. CommandLedger(t.command, g, At(loc, 3), Waits(loc)) BY <1>2, <1>5 DEF CommandLedger
<1>10. Counted(t, Owed(loc)) BY <1>2, <1>4 DEF Counted
<1> QED BY <1>2, <1>4, <1>6, <1>8, <1>9, <1>10, SoundFrom

\* A command for a bank only.
LEMMA BareDelivered ==
  ASSUME NEW s, Typed(s), NEW g, NEW loc, NEW bars, NEW P, NEW mem, Sound(s, g, loc, bars, P, mem),
         s.command # None, s.command \in BareCommand, NEW t, t = DeliverCommand(s)
  PROVE  Sound(t, g, loc, bars, P, mem)
<1> DEFINE c == s.command
<1>1. /\ IsChannel(s) /\ c \in Command /\ c # None /\ c.rank \in Ranks /\ c.id = None
      /\ c.kind # "READ" /\ c.kind # "WRITE"
      /\ s.ranks \in [Ranks -> RankState]
  BY DEF Typed, QueuesTyped, DataTyped, BareCommand
<1>2. /\ t.command = None /\ t.reads = s.reads /\ t.store = s.store
      /\ t.held = s.held /\ t.transactions = s.transactions /\ t.onTheFly = s.onTheFly
      /\ t.queues = s.queues /\ t.data = s.data /\ t.writes = s.writes /\ t.returns = s.returns
      /\ t.replies = s.replies
  BY <1>1, DeliverCommandFields
<1>3. \A r \in Ranks : t.ranks[r].out = s.ranks[r].out /\ t.ranks[r].reads = s.ranks[r].reads
  BY <1>1, DeliverCommandRanks
<1>4. /\ g \in [Ids -> Request] /\ loc \in [Ids -> 0 .. 9] /\ bars \subseteq Ids
      /\ Listed(s.held, g, bars, At(loc, 0)) /\ Listed(s.transactions, g, bars, At(loc, 1))
      /\ QueuesLedger(s.queues, g, bars, At(loc, 2))
      /\ CommandLedger(c, g, At(loc, 3), Waits(loc))
      /\ WritesLedger(s.writes, s.data, g, At(loc, 7), At(loc, 8))
      /\ ReadsLedger(s.reads, g, Expected(g, loc), Fetched(loc))
      /\ RanksLedger(s.ranks, g, At(loc, 4), At(loc, 5))
      /\ ReturnsLedger(s.returns, g, At(loc, 6))
      /\ Ordered(g, loc) /\ Counted(s, Owed(loc))
      /\ Chain(Undone(c, loc), s.store, mem, g) /\ Answered(s.replies, g, P, Owed(loc))
  BY SoundParts
<1>5. At(loc, 3) = {} BY <1>1, <1>4 DEF CommandLedger
<1>6. RanksLedger(t.ranks, g, At(loc, 4), At(loc, 5)) BY <1>3, <1>4 DEF RanksLedger
<1>7. Undone(None, loc) = Undone(c, loc) BY <1>1, NoneApart DEF Undone
<1>9. CommandLedger(t.command, g, At(loc, 3), Waits(loc)) BY <1>2, <1>5 DEF CommandLedger
<1>10. Counted(t, Owed(loc)) BY <1>2, <1>4 DEF Counted
<1> HIDE DEF c
<1> QED BY <1>2, <1>4, <1>6, <1>7, <1>9, <1>10, SoundFrom

\* Delivering the command on the bus keeps the ledger.
LEMMA DeliverCommandSound ==
  ASSUME NEW s, Typed(s), NEW g, NEW loc, NEW bars, NEW P, NEW mem, Sound(s, g, loc, bars, P, mem),
         NEW t, t = DeliverCommand(s)
  PROVE  \E m : Sound(t, g, m, bars, P, mem) /\ Waits(m) = Waits(loc)
<1>1. s.command \in Command \cup {None} BY DEF Typed, QueuesTyped
<1>2. CASE s.command = None BY <1>2, NoCommandToDeliver
<1>3. CASE s.command # None /\ s.command \in BareCommand
  <2>1. Sound(t, g, loc, bars, P, mem) BY <1>3, BareDelivered
  <2> QED BY <2>1
<1>4. CASE s.command # None /\ s.command \in Located
  <2>1. s.command.kind \in {"READ", "WRITE"} BY <1>4 DEF Located, ColumnCommand
  <2>2. CASE s.command.kind = "READ" BY <1>4, <2>2, ReadDelivered
  <2>3. CASE s.command.kind = "WRITE"
    <3>1. Sound(t, g, loc, bars, P, mem) BY <1>4, <2>3, WriteDelivered
    <3> QED BY <3>1
  <2> QED BY <2>1, <2>2, <2>3
<1> QED BY <1>1, <1>2, <1>3, <1>4 DEF Command

-----------------------------------------------------------------------------
(* The data of a write is on the bus; its end is the answer.               *)

LEMMA AnsweredOneMore ==
  ASSUME NEW replies, NEW g, NEW P, NEW O, NEW x \in O, Answered(replies, g, P, O)
  PROVE  Answered(replies \cup {[id |-> x, value |-> g[x].value]}, g, P, O \ {x})
BY DEF Answered

\* Delivering write data answers the write it belongs to, once.
LEMMA DeliverDataSound ==
  ASSUME NEW s, Typed(s), NEW g, NEW loc, NEW bars, NEW P, NEW mem, Sound(s, g, loc, bars, P, mem),
         NEW t, t = DeliverData(s)
  PROVE  \E m : Sound(t, g, m, bars, P, mem) /\ Waits(m) = Waits(loc)
<1> DEFINE d == s.data
           ends == d # None /\ ~(d.left > 1)
           x == d.id
           m == Moved(loc, x, 9)
<1>1. /\ IsChannel(s) /\ d \in WriteData \cup {None} /\ s.onTheFly \in Int
      /\ s.held \in Seq(Transaction)
  BY DEF Typed, QueuesTyped, DataTyped
<1>2. /\ t.data = IF d = None \/ ends THEN None ELSE [d EXCEPT !.left = @ - 1]
      /\ t.onTheFly = IF ends THEN s.onTheFly - 1 ELSE s.onTheFly
      /\ t.replies = IF ends THEN s.replies \cup {[id |-> x, value |-> d.value]} ELSE s.replies
      /\ t.held = s.held /\ t.transactions = s.transactions
      /\ t.queues = s.queues /\ t.command = s.command
      /\ t.writes = s.writes /\ t.reads = s.reads /\ t.returns = s.returns
      /\ t.ranks = s.ranks /\ t.store = s.store
  BY <1>1, DeliverDataFields
<1>4. /\ g \in [Ids -> Request] /\ loc \in [Ids -> 0 .. 9] /\ bars \subseteq Ids
      /\ Listed(s.held, g, bars, At(loc, 0)) /\ Listed(s.transactions, g, bars, At(loc, 1))
      /\ QueuesLedger(s.queues, g, bars, At(loc, 2))
      /\ CommandLedger(s.command, g, At(loc, 3), Waits(loc))
      /\ WritesLedger(s.writes, s.data, g, At(loc, 7), At(loc, 8))
      /\ ReadsLedger(s.reads, g, Expected(g, loc), Fetched(loc))
      /\ RanksLedger(s.ranks, g, At(loc, 4), At(loc, 5))
      /\ ReturnsLedger(s.returns, g, At(loc, 6))
      /\ Ordered(g, loc) /\ Counted(s, Owed(loc))
      /\ Chain(Undone(s.command, loc), s.store, mem, g) /\ Answered(s.replies, g, P, Owed(loc))
  BY SoundParts
<1>5. CASE ~ends
  <2>1. /\ t.data = None \/ (t.data.id = d.id /\ t.data.value = d.value /\ d # None)
        /\ t.onTheFly = s.onTheFly /\ t.replies = s.replies
    BY <1>1, <1>2, <1>5 DEF WriteData
  <2>2. WritesLedger(t.writes, t.data, g, At(loc, 7), At(loc, 8))
    BY <1>2, <1>4, <2>1 DEF WritesLedger
  <2>3. Counted(t, Owed(loc)) BY <1>2, <1>4, <2>1 DEF Counted
  <2>4. Sound(t, g, loc, bars, P, mem) BY <1>2, <1>4, <2>1, <2>2, <2>3, SoundFrom
  <2> QED BY <2>4
<1>6. CASE ends
  <2>1. x \in Ids /\ loc[x] = 8 /\ d.value = g[x].value BY <1>1, <1>4, <1>6 DEF WritesLedger, At
  <2>2. /\ m \in [Ids -> 0 .. 9] /\ m[x] = 9 /\ \A id \in Ids : id # x => m[id] = loc[id]
        /\ \A k \in 0 .. 9 : k # 8 /\ k # 9 => At(m, k) = At(loc, k)
    BY <1>4, <2>1, MovedSets
  <2> HIDE DEF m, x
  <2>3. /\ Waits(m) = Waits(loc) /\ Owed(m) = Owed(loc) \ {x} /\ Fetched(m) = Fetched(loc)
        /\ Expected(g, m) = Expected(g, loc) /\ Undone(s.command, m) = Undone(s.command, loc)
        /\ x \in Owed(loc)
    BY <2>1, <2>2 DEF Waits, Owed, Fetched, Expected, InQueue, Free, InRank, InReturns, OnBus, Undone
  <2>4. Answered(t.replies, g, P, Owed(m)) BY <1>2, <1>4, <1>6, <2>1, <2>3, AnsweredOneMore
  <2>5. Counted(t, Owed(m))
    <3>1. Owed(loc) \subseteq Ids BY DEF Owed
    <3>2. Cardinality(Owed(m)) = Cardinality(Owed(loc)) - 1 /\ Cardinality(Owed(loc)) \in Nat
      BY <2>3, <3>1, OneFewer, IdsFinite
    <3>3. t.onTheFly = s.onTheFly - 1 /\ t.held = s.held BY <1>2, <1>6
    <3>4. s.onTheFly + Len(s.held) = Cardinality(Owed(loc)) BY <1>4 DEF Counted
    <3>5. s.onTheFly \in Int /\ Len(s.held) \in Nat BY <1>1 DEF Typed, QueuesTyped, DataTyped
    <3> QED BY <3>2, <3>3, <3>4, <3>5 DEF Counted
  <2>6. WritesLedger(t.writes, t.data, g, At(m, 7), At(m, 8))
    BY <1>2, <1>4, <1>6, <2>2 DEF WritesLedger
  <2>7. Ordered(g, m)
    <3>1. \A u, v \in Ids : m[u] = 0 /\ m[v] = 1 => loc[u] = 0 /\ loc[v] = 1 BY <2>2
    <3>2. \A u, v \in Ids : m[u] < m[v] /\ m[v] \in 2 .. 6 => loc[u] < loc[v] /\ loc[v] = m[v]
      BY <2>1, <2>2
    <3> QED BY <3>1, <3>2, <1>4 DEF Ordered, InHeld, InTransactions, InQueue, OnBus, InReturns
  <2>8. Sound(t, g, m, bars, P, mem)
    <3>1. Listed(t.held, g, bars, At(m, 0)) /\ Listed(t.transactions, g, bars, At(m, 1))
          /\ QueuesLedger(t.queues, g, bars, At(m, 2)) /\ ReturnsLedger(t.returns, g, At(m, 6))
          /\ CommandLedger(t.command, g, At(m, 3), Waits(m))
          /\ RanksLedger(t.ranks, g, At(m, 4), At(m, 5))
      BY <1>2, <1>4, <2>2, <2>3
    <3>2. ReadsLedger(t.reads, g, Expected(g, m), Fetched(m))
          /\ Chain(Undone(t.command, m), t.store, mem, g)
      BY <1>2, <1>4, <2>3
    <3> QED BY <1>4, <2>2, <2>4, <2>5, <2>6, <2>7, <3>1, <3>2, SoundFrom
  <2> QED BY <2>3, <2>8
<1> QED BY <1>5, <1>6

\* The oldest write whose time has come takes the bus, which is free (see WritesSent).
LEMMA SendDataSound ==
  ASSUME NEW s, Typed(s), NEW g, NEW loc, NEW bars, NEW P, NEW mem, Sound(s, g, loc, bars, P, mem),
         s.writes # <<>> /\ s.writes[1].left = 1 => s.data = None,
         NEW t, t = SendData(s)
  PROVE  \E m : Sound(t, g, m, bars, P, mem) /\ Waits(m) = Waits(loc)
<1> DEFINE w == s.writes
           a == Aged(w)
           ready == a # <<>> /\ Head(a).left = 0
           x == w[1].id
           m == Moved(loc, x, 8)
<1>1. /\ IsChannel(s) /\ w \in Seq(WriteData) /\ s.data \in WriteData \cup {None}
  BY DEF Typed, DataTyped
<1>2. /\ t.data = IF ready THEN [Head(a) EXCEPT !.left = Timing.BL2] ELSE s.data
      /\ t.writes = IF ready THEN Tail(a) ELSE a
      /\ t.held = s.held /\ t.transactions = s.transactions /\ t.onTheFly = s.onTheFly
      /\ t.queues = s.queues /\ t.command = s.command
      /\ t.reads = s.reads /\ t.returns = s.returns
      /\ t.ranks = s.ranks /\ t.store = s.store /\ t.replies = s.replies
  BY <1>1, SendDataFields
<1>3. /\ a \in Seq(WriteData) /\ DOMAIN a = DOMAIN w /\ Len(a) = Len(w)
      /\ \A i \in DOMAIN w : a[i].id = w[i].id /\ a[i].value = w[i].value /\ a[i].left = w[i].left - 1
                             /\ w[i].left \in Int /\ w[i].id \in Ids
  <2>1. \A i \in DOMAIN w : w[i] \in WriteData BY <1>1
  <2>2. \A i \in DOMAIN w : w[i].left \in Int /\ w[i].id \in Ids BY <2>1 DEF WriteData
  <2> QED BY <1>1, <2>2, WritesAged
<1>4. /\ g \in [Ids -> Request] /\ loc \in [Ids -> 0 .. 9] /\ bars \subseteq Ids
      /\ Listed(s.held, g, bars, At(loc, 0)) /\ Listed(s.transactions, g, bars, At(loc, 1))
      /\ QueuesLedger(s.queues, g, bars, At(loc, 2))
      /\ CommandLedger(s.command, g, At(loc, 3), Waits(loc))
      /\ WritesLedger(w, s.data, g, At(loc, 7), At(loc, 8))
      /\ ReadsLedger(s.reads, g, Expected(g, loc), Fetched(loc))
      /\ RanksLedger(s.ranks, g, At(loc, 4), At(loc, 5))
      /\ ReturnsLedger(s.returns, g, At(loc, 6))
      /\ Ordered(g, loc) /\ Counted(s, Owed(loc))
      /\ Chain(Undone(s.command, loc), s.store, mem, g) /\ Answered(s.replies, g, P, Owed(loc))
  BY SoundParts
<1>5. CASE ~ready
  <2>1. WritesLedger(t.writes, t.data, g, At(loc, 7), At(loc, 8))
    <3>1. t.writes = a /\ t.data = s.data BY <1>2, <1>5
    <3> HIDE DEF a, w
    <3> QED BY <3>1, <1>3, <1>4 DEF WritesLedger
  <2>3. Counted(t, Owed(loc)) BY <1>2, <1>4 DEF Counted
  <2>4. Sound(t, g, loc, bars, P, mem) BY <1>2, <1>4, <2>1, <2>3, SoundFrom
  <2> QED BY <2>4
<1>6. CASE ready
  <2>1. /\ 1 \in DOMAIN a /\ Head(a) = a[1] /\ Tail(a) \in Seq(WriteData) /\ a[1] \in WriteData
        /\ \A j \in DOMAIN Tail(a) : j + 1 \in DOMAIN a /\ Tail(a)[j] = a[j + 1]
        /\ DOMAIN Tail(a) \subseteq Nat \ {0}
    BY <1>3, <1>6, TailMembers
  <2>2. /\ s.data = None /\ x \in Ids /\ loc[x] = 7 /\ t.data.id = x /\ t.data.value = g[x].value
    <3>1. w # <<>> /\ w[1].left = 1 BY <1>3, <1>6, <2>1
    <3>2. x \in At(loc, 7) /\ w[1].value = g[x].value BY <1>3, <1>4, <2>1 DEF WritesLedger
    <3>3. t.data.id = x /\ t.data.value = w[1].value BY <1>2, <1>3, <1>6, <2>1 DEF WriteData
    <3> QED BY <3>1, <3>2, <3>3 DEF At
  <2>3. /\ m \in [Ids -> 0 .. 9] /\ m[x] = 8 /\ \A id \in Ids : id # x => m[id] = loc[id]
        /\ \A k \in 0 .. 9 : k # 7 /\ k # 8 => At(m, k) = At(loc, k)
        /\ At(m, 7) = At(loc, 7) \ {x} /\ x \in At(m, 8)
    BY <1>4, <2>2, MovedSets
  <2>4. WritesLedger(t.writes, t.data, g, At(m, 7), At(m, 8))
    <3>1. \A j \in DOMAIN t.writes : /\ j + 1 \in DOMAIN w /\ j + 1 # 1 /\ 1 \in DOMAIN w
                                     /\ t.writes[j].id = w[j + 1].id /\ t.writes[j].value = w[j + 1].value
      BY <1>2, <1>3, <1>6, <2>1
    <3>2. \A i, j \in DOMAIN t.writes : i # j => i + 1 # j + 1 BY <1>2, <1>6, <2>1
    <3> HIDE DEF w, a, m, ready
    <3>3. \A j \in DOMAIN t.writes : /\ t.writes[j].id \in At(m, 7)
                                     /\ t.writes[j].value = g[t.writes[j].id].value
      <4>1. \A i \in DOMAIN w : w[i].id \in At(loc, 7) /\ w[i].value = g[w[i].id].value
        BY <1>4 DEF WritesLedger
      <4>2. \A i \in DOMAIN w : 1 \in DOMAIN w /\ i # 1 => w[i].id # x
        BY <1>4 DEF WritesLedger, x
      <4> QED BY <3>1, <4>1, <4>2, <2>3
    <3>4. \A i, j \in DOMAIN t.writes : i # j => t.writes[i].id # t.writes[j].id
      <4>1. \A i, j \in DOMAIN w : i # j => w[i].id # w[j].id BY <1>4 DEF WritesLedger
      <4> QED BY <3>1, <3>2, <4>1
    <3> QED BY <3>3, <3>4, <2>2, <2>3 DEF WritesLedger
  <2> HIDE DEF m, x
  <2>5. /\ Waits(m) = Waits(loc) /\ Owed(m) = Owed(loc) /\ Fetched(m) = Fetched(loc)
        /\ Expected(g, m) = Expected(g, loc) /\ Undone(s.command, m) = Undone(s.command, loc)
    BY <2>2, <2>3 DEF Waits, Owed, Fetched, Expected, InQueue, Free, InRank, InReturns, OnBus, Undone
  <2>6. Counted(t, Owed(m)) BY <1>2, <1>4, <2>5 DEF Counted
  <2>7. Ordered(g, m)
    <3>1. \A u, v \in Ids : m[u] = 0 /\ m[v] = 1 => loc[u] = 0 /\ loc[v] = 1 BY <2>3
    <3>2. \A u, v \in Ids : m[u] < m[v] /\ m[v] \in 2 .. 6 => loc[u] < loc[v] /\ loc[v] = m[v]
      BY <2>2, <2>3
    <3> QED BY <3>1, <3>2, <1>4 DEF Ordered, InHeld, InTransactions, InQueue, OnBus, InReturns
  <2>8. Sound(t, g, m, bars, P, mem)
    <3>1. Listed(t.held, g, bars, At(m, 0)) /\ Listed(t.transactions, g, bars, At(m, 1))
          /\ QueuesLedger(t.queues, g, bars, At(m, 2)) /\ ReturnsLedger(t.returns, g, At(m, 6))
          /\ CommandLedger(t.command, g, At(m, 3), Waits(m))
          /\ RanksLedger(t.ranks, g, At(m, 4), At(m, 5))
      BY <1>2, <1>4, <2>3, <2>5
    <3>2. ReadsLedger(t.reads, g, Expected(g, m), Fetched(m))
          /\ Chain(Undone(t.command, m), t.store, mem, g) /\ Answered(t.replies, g, P, Owed(m))
      BY <1>2, <1>4, <2>5
    <3> QED BY <1>4, <2>3, <2>4, <2>6, <2>7, <3>1, <3>2, SoundFrom
  <2> QED BY <2>5, <2>8
<1> QED BY <1>5, <1>6

(* The ranks send what they owe.                                           *)

LEMMA RankUpdated ==
  ASSUME NEW k \in RankState, NEW g, NEW A, NEW B, RankLedger(k.reads, k.out, g, A, B),
         BurstStarts(k) /\ k.out # None => BurstEnds(k)
  PROVE  LET t == UpdateRank(k)
             x == k.reads[1].read.id
         IN  /\ RankLedger(t.reads, t.out, g, IF BurstStarts(k) THEN A \ {x} ELSE A,
                           IF BurstStarts(k) THEN {x} ELSE IF BurstEnds(k) THEN {} ELSE B)
             /\ BurstStarts(k) => /\ x \in A /\ k.reads # <<>>
                                  /\ \A id \in A : id # x => After(x, id, g)
<1> DEFINE t == UpdateRank(k)
           a == Aged(k.reads)
           x == k.reads[1].read.id
<1>1. /\ t.reads = IF BurstStarts(k) THEN Tail(a) ELSE a
      /\ BurstStarts(k) => t.out = [read |-> Head(k.reads).read, left |-> Timing.BL2]
      /\ ~BurstStarts(k) => t.out = IF k.out = None \/ BurstEnds(k) THEN None ELSE Goes(k.out)
  BY UpdateRankFields
<1>2. k.reads \in Seq(Burst) /\ k.out \in Burst \cup {None} BY DEF RankState
<1>3. /\ a \in Seq(Burst) /\ Len(a) = Len(k.reads) /\ DOMAIN a = DOMAIN k.reads
      /\ \A i \in DOMAIN k.reads : a[i].read = k.reads[i].read
  BY <1>2, BurstsAged
<1>4. RankLedger(a, k.out, g, A, B) BY <1>2, <1>3, BurstsSame
<1> HIDE DEF t, a
<1>5. CASE BurstStarts(k)
  <2>1. k.reads # <<>> /\ a # <<>> /\ 1 \in DOMAIN k.reads /\ Head(k.reads) = k.reads[1]
    BY <1>2, <1>3, <1>5 DEF BurstStarts
  <2>2. a[1].read = k.reads[1].read /\ Timing.BL2 \in Int
    <3>1. a[1].read = k.reads[1].read BY <1>3, <2>1
    <3>2. Timing.BL2 \in Int BY TimingTypes
    <3> QED BY <3>1, <3>2
  <2>3. /\ RankLedger(Tail(a), [read |-> a[1].read, left |-> Timing.BL2], g, A \ {x}, {x})
        /\ x \in A /\ \A id \in A : id # x => After(x, id, g)
    BY <1>3, <1>4, <2>1, <2>2, BurstsTail
  <2>4. RankLedger(t.reads, t.out, g, A \ {x}, {x}) BY <1>1, <1>5, <2>1, <2>2, <2>3
  <2> QED BY <1>5, <2>1, <2>3, <2>4 DEF t
<1>6. CASE ~BurstStarts(k) /\ BurstEnds(k)
  <2>1. RankLedger(a, None, g, A, {}) BY <1>4 DEF RankLedger
  <2>2. t.reads = a /\ t.out = None BY <1>1, <1>6
  <2> QED BY <1>6, <2>1, <2>2 DEF t
<1>7. CASE ~BurstStarts(k) /\ ~BurstEnds(k)
  <2>1. t.reads = a /\ t.out = IF k.out = None THEN None ELSE Goes(k.out) BY <1>1, <1>7
  <2>2. k.out # None => Goes(k.out) # None /\ Goes(k.out).read = k.out.read
    <3>1. k.out # None => Goes(k.out) \in Burst /\ Goes(k.out).read = k.out.read
      BY <1>2 DEF Goes, Burst
    <3> QED BY <3>1, NoneApart
  <2>3. RankLedger(t.reads, t.out, g, A, B) BY <1>4, <2>1, <2>2 DEF RankLedger
  <2> QED BY <1>7, <2>3 DEF t
<1> QED BY <1>5, <1>6, <1>7

\* Where the ids are afterwards.
Sent(s, g, loc) ==
  [id \in Ids |-> LET k == s.ranks[g[id].place.rank]
                  IN  IF loc[id] = 5 /\ BurstEnds(k) THEN 6
                      ELSE IF loc[id] = 4 /\ BurstStarts(k) /\ id = k.reads[1].read.id THEN 5
                      ELSE loc[id]]

\* The bursts that end belong to the requests whose rank is sending them.
LEMMA ReturningSound ==
  ASSUME NEW s, s.ranks \in [Ranks -> RankState], NEW g \in [Ids -> Request],
         NEW loc \in [Ids -> 0 .. 9], RanksLedger(s.ranks, g, At(loc, 4), At(loc, 5)),
         \A r \in Ranks : s.ranks[r].out # None => s.ranks[r].out.read.place.rank = r
  PROVE  LET v == Returning(s)
         IN  /\ \A i \in DOMAIN v : Matching(v[i], g)
             /\ Apart(v, g)
             /\ IdsOf(v) = {id \in At(loc, 5) : BurstEnds(s.ranks[g[id].place.rank])}
<1> DEFINE v == Returning(s)
           T == {id \in At(loc, 5) : BurstEnds(s.ranks[g[id].place.rank])}
<1>1. /\ \A i \in DOMAIN v : \E r \in Ending(s) : v[i] = s.ranks[r].out.read
      /\ \A r \in Ending(s) : \E i \in DOMAIN v : v[i] = s.ranks[r].out.read
      /\ EachOnce(v, s)
  BY ReturningLists
<1>6. v \in Seq(Returned) BY ReturningLists
<1> HIDE DEF v
<1>7. DOMAIN v \subseteq Nat BY <1>6
<1>2. \A r \in Ending(s) : /\ r \in Ranks /\ s.ranks[r].out # None /\ BurstEnds(s.ranks[r])
                           /\ Matching(s.ranks[r].out.read, g)
                           /\ g[s.ranks[r].out.read.id].place.rank = r
                           /\ s.ranks[r].out.read.id \in T
  <2> SUFFICES ASSUME NEW r \in Ending(s)
               PROVE  /\ r \in Ranks /\ s.ranks[r].out # None /\ BurstEnds(s.ranks[r])
                      /\ Matching(s.ranks[r].out.read, g)
                      /\ g[s.ranks[r].out.read.id].place.rank = r
                      /\ s.ranks[r].out.read.id \in T
    OBVIOUS
  <2>1. r \in Ranks /\ BurstEnds(s.ranks[r]) /\ s.ranks[r].out # None BY DEF Ending, BurstEnds
  <2>2. /\ Matching(s.ranks[r].out.read, g)
        /\ s.ranks[r].out.read.id \in To(At(loc, 5), r, g)
    BY <2>1 DEF RanksLedger, RankLedger
  <2>3. g[s.ranks[r].out.read.id].place.rank = r /\ s.ranks[r].out.read.id \in At(loc, 5)
    BY <2>2 DEF To
  <2> QED BY <2>1, <2>2, <2>3
<1>3. \A i \in DOMAIN v : Matching(v[i], g) BY <1>1, <1>2
<1>4. Apart(v, g)
  <2>1. PICK order \in [DOMAIN v -> Ending(s)] :
          /\ \A i \in DOMAIN v : v[i] = s.ranks[order[i]].out.read
          /\ \A i, j \in DOMAIN v : i # j => order[i] # order[j]
    BY <1>1 DEF EachOnce
  <2>2. \A i \in DOMAIN v : g[v[i].id].place.rank = order[i] BY <2>1, <1>2
  <2>4. ASSUME NEW i \in DOMAIN v, NEW j \in DOMAIN v, i < j PROVE After(v[i].id, v[j].id, g)
    <3>1. order[i] # order[j] BY <2>1, <1>7, <2>4
    <3>2. g[v[i].id].place.rank # g[v[j].id].place.rank BY <2>2, <3>1
    <3> QED BY <3>2 DEF After
  <2> QED BY <2>4 DEF Apart
<1>5. IdsOf(v) = T
  <2>1. ASSUME NEW x \in IdsOf(v) PROVE x \in T
    <3>1. PICK i \in DOMAIN v : x = v[i].id BY DEF IdsOf
    <3>2. PICK r \in Ending(s) : v[i] = s.ranks[r].out.read BY <1>1
    <3> HIDE DEF T
    <3> QED BY <3>1, <3>2, <1>2
  <2>2. ASSUME NEW x \in T PROVE x \in IdsOf(v)
    <3> DEFINE r == g[x].place.rank
    <3>1. x \in Ids /\ x \in At(loc, 5) /\ r \in Ranks /\ BurstEnds(s.ranks[r])
      BY <2>2, GhostFields DEF At
    <3>2. r \in Ending(s) /\ s.ranks[r].out # None BY <3>1 DEF Ending, BurstEnds
    <3>3. x \in To(At(loc, 5), r, g) BY <3>1 DEF To
    <3>4. To(At(loc, 5), r, g) = {s.ranks[r].out.read.id}
      BY <3>1, <3>2 DEF RanksLedger, RankLedger
    <3>5. x = s.ranks[r].out.read.id BY <3>3, <3>4
    <3> HIDE DEF r
    <3>6. \E i \in DOMAIN v : v[i].id = x BY <1>1, <3>2, <3>5
    <3> QED BY <3>6 DEF IdsOf
  <2> QED BY <2>1, <2>2
<1> QED BY <1>3, <1>4, <1>5 DEF v

\* A cycle of the ranks moves the requests whose burst starts or ends, and no other.
LEMMA SentSets ==
  ASSUME NEW s, s.ranks \in [Ranks -> RankState], NEW g \in [Ids -> Request],
         NEW loc \in [Ids -> 0 .. 9], RanksLedger(s.ranks, g, At(loc, 4), At(loc, 5)),
         \A r \in Ranks : BurstStarts(s.ranks[r]) /\ s.ranks[r].out # None => BurstEnds(s.ranks[r]),
         NEW m, m = Sent(s, g, loc)
  PROVE  /\ m \in [Ids -> 0 .. 9]
         /\ \A k \in 0 .. 9 : k \notin {4, 5, 6} => At(m, k) = At(loc, k)
         /\ At(m, 6) = At(loc, 6) \cup {id \in At(loc, 5) : BurstEnds(s.ranks[g[id].place.rank])}
         /\ RanksLedger([r \in Ranks |-> UpdateRank(s.ranks[r])], g, At(m, 4), At(m, 5))
         /\ \A id \in Ids : m[id] = loc[id] \/ (loc[id] = 5 /\ m[id] = 6) \/ (loc[id] = 4 /\ m[id] = 5)
         /\ \A u, v \in Ids : loc[v] = 4 /\ m[v] = 5 /\ loc[u] = 4 /\ m[u] = 4 /\ g[u].place = g[v].place =>
                                g[v].stamp < g[u].stamp
         /\ \A u, v \in Ids : loc[v] = 5 /\ m[v] = 6 /\ loc[u] = 5 /\ g[u].place = g[v].place => m[u] = 6
<1> DEFINE K(id) == s.ranks[g[id].place.rank]
<1>1. \A id \in Ids : m[id] = IF loc[id] = 5 /\ BurstEnds(K(id)) THEN 6
                              ELSE IF loc[id] = 4 /\ BurstStarts(K(id)) /\ id = K(id).reads[1].read.id
                              THEN 5 ELSE loc[id]
  BY DEF Sent
<1>2. m \in [Ids -> 0 .. 9]
  <2>1. \A id \in Ids : m[id] \in 0 .. 9 BY <1>1
  <2>2. m = [id \in Ids |-> m[id]] BY DEF Sent
  <2> QED BY <2>1, <2>2
<1>3. \A id \in Ids : m[id] = loc[id] \/ (loc[id] = 5 /\ m[id] = 6) \/ (loc[id] = 4 /\ m[id] = 5)
  BY <1>1
<1>4. \A k \in 0 .. 9 : k \notin {4, 5, 6} => At(m, k) = At(loc, k) BY <1>3 DEF At
<1>5. At(m, 6) = At(loc, 6) \cup {id \in At(loc, 5) : BurstEnds(K(id))} BY <1>1 DEF At
<1>6. \A r \in Ranks :
        LET k == s.ranks[r]
            t == UpdateRank(k)
            x == k.reads[1].read.id
            A == To(At(loc, 4), r, g)
            B == To(At(loc, 5), r, g)
        IN  /\ RankLedger(t.reads, t.out, g, IF BurstStarts(k) THEN A \ {x} ELSE A,
                          IF BurstStarts(k) THEN {x} ELSE IF BurstEnds(k) THEN {} ELSE B)
            /\ BurstStarts(k) => /\ x \in A /\ \A id \in A : id # x => After(x, id, g)
  <2> SUFFICES ASSUME NEW r \in Ranks
               PROVE  LET k == s.ranks[r]
                          t == UpdateRank(k)
                          x == k.reads[1].read.id
                          A == To(At(loc, 4), r, g)
                          B == To(At(loc, 5), r, g)
                      IN  /\ RankLedger(t.reads, t.out, g, IF BurstStarts(k) THEN A \ {x} ELSE A,
                                        IF BurstStarts(k) THEN {x} ELSE IF BurstEnds(k) THEN {} ELSE B)
                          /\ BurstStarts(k) => /\ x \in A /\ \A id \in A : id # x => After(x, id, g)
    OBVIOUS
  <2> DEFINE k == s.ranks[r]
             A == To(At(loc, 4), r, g)
             B == To(At(loc, 5), r, g)
  <2>1. /\ k \in RankState /\ RankLedger(k.reads, k.out, g, A, B)
        /\ BurstStarts(k) /\ k.out # None => BurstEnds(k)
    BY DEF RanksLedger
  <2> HIDE DEF k, A, B
  <2>2. LET t == UpdateRank(k)
            x == k.reads[1].read.id
        IN  /\ RankLedger(t.reads, t.out, g, IF BurstStarts(k) THEN A \ {x} ELSE A,
                          IF BurstStarts(k) THEN {x} ELSE IF BurstEnds(k) THEN {} ELSE B)
            /\ BurstStarts(k) => /\ x \in A /\ \A id \in A : id # x => After(x, id, g)
    BY <2>1, RankUpdated
  <2> QED BY <2>2 DEF k, A, B
<1>7. ASSUME NEW r \in Ranks
      PROVE  RankLedger(UpdateRank(s.ranks[r]).reads, UpdateRank(s.ranks[r]).out, g,
                        To(At(m, 4), r, g), To(At(m, 5), r, g))
  <2> DEFINE k == s.ranks[r]
             x == k.reads[1].read.id
             A == To(At(loc, 4), r, g)
             B == To(At(loc, 5), r, g)
  <2>1. \A id \in Ids : g[id].place.rank = r => K(id) = k OBVIOUS
  <2>2. BurstStarts(k) => x \in A BY <1>6
  <2>3. B = IF k.out = None THEN {} ELSE {k.out.read.id} BY DEF RanksLedger, RankLedger
  <2>4. BurstStarts(k) /\ k.out # None => BurstEnds(k) OBVIOUS
  <2>5. /\ \A id \in Ids : g[id].place.rank = r =>
             m[id] = IF loc[id] = 5 /\ BurstEnds(k) THEN 6
                     ELSE IF loc[id] = 4 /\ BurstStarts(k) /\ id = x THEN 5 ELSE loc[id]
    BY <1>1, <2>1
  <2>9. A = {id \in Ids : loc[id] = 4 /\ g[id].place.rank = r}
        /\ B = {id \in Ids : loc[id] = 5 /\ g[id].place.rank = r}
    BY DEF To, At
  <2> HIDE DEF k, x, A, B, K
  <2>6. To(At(m, 4), r, g) = IF BurstStarts(k) THEN A \ {x} ELSE A
    <3>1. To(At(m, 4), r, g) = {id \in Ids : m[id] = 4 /\ g[id].place.rank = r} BY DEF To, At
    <3> QED BY <3>1, <2>5, <2>9
  <2>7. To(At(m, 5), r, g) = IF BurstStarts(k) THEN {x} ELSE IF BurstEnds(k) THEN {} ELSE B
    <3>1. To(At(m, 5), r, g) = {id \in Ids : m[id] = 5 /\ g[id].place.rank = r} BY DEF To, At
    <3>2. CASE BurstStarts(k)
      <4>1. x \in Ids /\ loc[x] = 4 /\ g[x].place.rank = r BY <3>2, <2>2, <2>9
      <4>2. ~BurstEnds(k) => B = {} BY <3>2, <2>3, <2>4
      <4> QED BY <3>1, <3>2, <4>1, <4>2, <2>5, <2>9
    <3>3. CASE ~BurstStarts(k) BY <3>1, <3>3, <2>5, <2>9
    <3> QED BY <3>2, <3>3
  <2>8. RankLedger(UpdateRank(k).reads, UpdateRank(k).out, g,
                   IF BurstStarts(k) THEN A \ {x} ELSE A,
                   IF BurstStarts(k) THEN {x} ELSE IF BurstEnds(k) THEN {} ELSE B)
    BY <1>6 DEF k, A, B, x
  <2> QED BY <2>6, <2>7, <2>8 DEF k
<1>8. RanksLedger([r \in Ranks |-> UpdateRank(s.ranks[r])], g, At(m, 4), At(m, 5))
  BY <1>7 DEF RanksLedger
<1>9. ASSUME NEW u \in Ids, NEW v \in Ids, loc[v] = 4, m[v] = 5, loc[u] = 4, m[u] = 4,
             g[u].place = g[v].place
      PROVE  g[v].stamp < g[u].stamp
  <2> DEFINE r == g[v].place.rank
             k == s.ranks[r]
             x == k.reads[1].read.id
  <2>1. r \in Ranks /\ K(v) = k /\ K(u) = k BY <1>9, GhostFields
  <2>2. BurstStarts(k) /\ v = x /\ u # x
    <3>1. /\ m[v] = IF loc[v] = 5 /\ BurstEnds(k) THEN 6
                    ELSE IF loc[v] = 4 /\ BurstStarts(k) /\ v = x THEN 5 ELSE loc[v]
          /\ m[u] = IF loc[u] = 5 /\ BurstEnds(k) THEN 6
                    ELSE IF loc[u] = 4 /\ BurstStarts(k) /\ u = x THEN 5 ELSE loc[u]
      BY <1>1, <2>1
    <3> HIDE DEF k, x
    <3>2. BurstStarts(k) /\ v = x BY <3>1, <1>9
    <3> QED BY <3>1, <3>2, <1>9
  <2>3. u \in To(At(loc, 4), r, g) BY <1>9 DEF To, At
  <2>4. After(x, u, g) BY <1>6, <2>1, <2>2, <2>3
  <2> QED BY <2>2, <2>4, <1>9 DEF After
<1>10. \A u, v \in Ids : loc[v] = 5 /\ m[v] = 6 /\ loc[u] = 5 /\ g[u].place = g[v].place => m[u] = 6
  BY <1>1
<1> QED BY <1>2, <1>3, <1>4, <1>5, <1>8, <1>9, <1>10

\* Rank::update keeps the ledger.
LEMMA UpdateRanksSound ==
  ASSUME NEW s, Typed(s), NEW g, NEW loc, NEW bars, NEW P, NEW mem, Sound(s, g, loc, bars, P, mem),
         \A r \in Ranks : BurstStarts(s.ranks[r]) /\ s.ranks[r].out # None => BurstEnds(s.ranks[r]),
         NEW t, t = UpdateRanks(s)
  PROVE  \E m : Sound(t, g, m, bars, P, mem) /\ Waits(m) = Waits(loc)
<1> DEFINE m == Sent(s, g, loc)
           v == Returning(s)
           T == {id \in At(loc, 5) : BurstEnds(s.ranks[g[id].place.rank])}
<1>1. /\ IsChannel(s) /\ s.ranks \in [Ranks -> RankState] /\ s.returns \in Seq(Returned)
      /\ \A r \in Ranks : s.ranks[r].out # None => s.ranks[r].out.read.place.rank = r
  BY DEF Typed, DataTyped
<1>2. /\ t.returns = s.returns \o v
      /\ t.ranks = [r \in Ranks |-> UpdateRank(s.ranks[r])]
      /\ t.held = s.held /\ t.transactions = s.transactions /\ t.onTheFly = s.onTheFly
      /\ t.queues = s.queues /\ t.command = s.command
      /\ t.data = s.data /\ t.writes = s.writes /\ t.reads = s.reads
      /\ t.store = s.store /\ t.replies = s.replies
  BY <1>1, UpdateRanksFields
<1>4. /\ g \in [Ids -> Request] /\ loc \in [Ids -> 0 .. 9] /\ bars \subseteq Ids
      /\ Listed(s.held, g, bars, At(loc, 0)) /\ Listed(s.transactions, g, bars, At(loc, 1))
      /\ QueuesLedger(s.queues, g, bars, At(loc, 2))
      /\ CommandLedger(s.command, g, At(loc, 3), Waits(loc))
      /\ WritesLedger(s.writes, s.data, g, At(loc, 7), At(loc, 8))
      /\ ReadsLedger(s.reads, g, Expected(g, loc), Fetched(loc))
      /\ RanksLedger(s.ranks, g, At(loc, 4), At(loc, 5))
      /\ ReturnsLedger(s.returns, g, At(loc, 6))
      /\ Ordered(g, loc) /\ Counted(s, Owed(loc))
      /\ Chain(Undone(s.command, loc), s.store, mem, g) /\ Answered(s.replies, g, P, Owed(loc))
  BY SoundParts
<1>5. v \in Seq(Returned) BY <1>1, ReturningLists
<1>6. (\A i \in DOMAIN v : Matching(v[i], g)) /\ Apart(v, g) /\ IdsOf(v) = T
  BY <1>1, <1>4, ReturningSound
<1>7. /\ m \in [Ids -> 0 .. 9]
      /\ \A k \in 0 .. 9 : k \notin {4, 5, 6} => At(m, k) = At(loc, k)
      /\ At(m, 6) = At(loc, 6) \cup T
      /\ RanksLedger([r \in Ranks |-> UpdateRank(s.ranks[r])], g, At(m, 4), At(m, 5))
      /\ \A id \in Ids : m[id] = loc[id] \/ (loc[id] = 5 /\ m[id] = 6) \/ (loc[id] = 4 /\ m[id] = 5)
      /\ \A x, y \in Ids : loc[y] = 4 /\ m[y] = 5 /\ loc[x] = 4 /\ m[x] = 4 /\ g[x].place = g[y].place =>
                             g[y].stamp < g[x].stamp
      /\ \A x, y \in Ids : loc[y] = 5 /\ m[y] = 6 /\ loc[x] = 5 /\ g[x].place = g[y].place => m[x] = 6
  BY <1>1, <1>4, SentSets
<1>8. \A x \in At(loc, 6), y \in T : After(x, y, g)
  BY <1>4 DEF At, After, Ordered, OnBus, InReturns
<1> HIDE DEF m, v, T
<1>9. ReturnsLedger(t.returns, g, At(m, 6))
  <2>1. ReturnsLedger(s.returns \o v, g, At(loc, 6) \cup T)
    BY <1>1, <1>4, <1>5, <1>6, <1>8, ReturnsJoin
  <2> QED BY <2>1, <1>2, <1>7
<1>10. /\ Waits(m) = Waits(loc) /\ Owed(m) = Owed(loc) /\ Fetched(m) = Fetched(loc)
       /\ Expected(g, m) = Expected(g, loc) /\ Undone(s.command, m) = Undone(s.command, loc)
  BY <1>7 DEF Waits, Owed, Fetched, Expected, Undone, InQueue, Free, InRank, InReturns, OnBus
<1>11. Counted(t, Owed(m)) BY <1>2, <1>4, <1>10 DEF Counted
<1>12. Ordered(g, m)
  <2>1. \A x, y \in Ids : m[x] = 0 /\ m[y] = 1 => loc[x] = 0 /\ loc[y] = 1 BY <1>7
  <2>2. \A x, y \in Ids : m[x] < m[y] /\ m[y] = 2 => loc[x] < loc[y] /\ loc[y] = 2 BY <1>4, <1>7
  <2>3. ASSUME NEW x \in Ids, NEW y \in Ids, m[x] < m[y], m[y] \in 3 .. 6, g[x].place = g[y].place
        PROVE  g[y].stamp < g[x].stamp
    <3>1. CASE loc[x] < loc[y]
      <4>1. loc[y] \in 3 .. 6 BY <2>3, <1>7
      <4> QED BY <3>1, <4>1, <2>3, <1>4 DEF Ordered, OnBus, InReturns
    <3>2. CASE ~(loc[x] < loc[y])
      <4>1. loc[x] \in 0 .. 9 /\ loc[y] \in 0 .. 9 BY <1>4
      <4>2. \/ loc[y] = 4 /\ m[y] = 5 /\ loc[x] = 4 /\ m[x] = 4
            \/ loc[y] = 5 /\ m[y] = 6 /\ loc[x] = 5 /\ m[x] = 5
        BY <3>2, <4>1, <2>3, <1>7
      <4> QED BY <4>2, <2>3, <1>7
    <3> QED BY <3>1, <3>2
  <2> QED BY <2>1, <2>2, <2>3, <1>4 DEF Ordered, InHeld, InTransactions, InQueue, OnBus, InReturns
<1>13. Sound(t, g, m, bars, P, mem)
  <2>1. Listed(t.held, g, bars, At(m, 0)) /\ Listed(t.transactions, g, bars, At(m, 1))
        /\ QueuesLedger(t.queues, g, bars, At(m, 2))
        /\ CommandLedger(t.command, g, At(m, 3), Waits(m))
        /\ WritesLedger(t.writes, t.data, g, At(m, 7), At(m, 8))
    BY <1>2, <1>4, <1>7, <1>10
  <2>2. ReadsLedger(t.reads, g, Expected(g, m), Fetched(m))
        /\ Chain(Undone(t.command, m), t.store, mem, g) /\ Answered(t.replies, g, P, Owed(m))
    BY <1>2, <1>4, <1>10
  <2>3. RanksLedger(t.ranks, g, At(m, 4), At(m, 5)) BY <1>2, <1>7
  <2> QED BY <1>4, <1>7, <1>9, <1>11, <1>12, <2>1, <2>2, <2>3, SoundFrom
<1> QED BY <1>10, <1>13

-----------------------------------------------------------------------------
(* A column command is issued.                                             *)

\* The command at place i of the queue of rank r may go: what that says of the ledger.
Leads(s, g, loc, bars, r, i) ==
  LET c == s.queues[r][i]
      x == c.id
  IN  /\ x \in Ids /\ loc[x] = 2 /\ g[x].place.rank = r /\ c.rank = r /\ Order(c, g)
      /\ c.kind \in {"READ", "WRITE"} /\ c \in Located /\ c # None
      /\ \A y \in Waits(loc) : g[y].place.rank = r /\ g[y].stamp < g[x].stamp =>
                                 y \notin bars /\ x \notin bars /\ g[y].place # g[x].place
      /\ \A y \in Waits(loc) : y # x /\ g[y].place = g[x].place => g[x].stamp < g[y].stamp

\* A command that depends on nothing before it in its queue is the oldest request of its place, and
\* no barrier before it waits.
LEMMA IssuableFirst ==
  ASSUME NEW s, Typed(s), NEW g \in [Ids -> Request], NEW loc \in [Ids -> 0 .. 9], NEW bars,
         QueuesLedger(s.queues, g, bars, At(loc, 2)), Ordered(g, loc),
         NEW r \in Ranks, NEW i \in DOMAIN s.queues[r],
         i = 1 \/ ~s.queues[r][i].bar, ~Depends(s.queues[r], i)
  PROVE  Leads(s, g, loc, bars, r, i)
<1> DEFINE q == s.queues[r]
           c == q[i]
           x == c.id
           S == To(At(loc, 2), r, g)
<1>1. /\ q \in Seq(Located) /\ DOMAIN q \subseteq Nat
      /\ \A j \in DOMAIN q : /\ q[j] \in Located /\ q[j].rank = r /\ q[j].kind \in {"READ", "WRITE"}
                             /\ q[j].id \in Ids
  <2>1. /\ q \in Seq(Located) /\ DOMAIN q \subseteq Nat
        /\ \A j \in DOMAIN q : q[j] \in Located /\ q[j].rank = r /\ q[j].kind \in {"READ", "WRITE"}
    BY QueueMembers DEF Typed
  <2>2. \A j \in DOMAIN q : q[j].id \in Ids BY <2>1 DEF Located, ColumnCommand
  <2> QED BY <2>1, <2>2
<1>2. /\ \A j \in DOMAIN q : Order(q[j], g) /\ q[j].bar = (q[j].id \in bars)
      /\ \A j, k \in DOMAIN q : j < k => g[q[j].id].stamp < g[q[k].id].stamp
      /\ \A id \in S : \E j \in DOMAIN q : q[j].id = id
      /\ \A j \in DOMAIN q : q[j].id \in S
  BY DEF QueuesLedger, Queued, Sorted, IdsOf
<1>3. /\ x \in Ids /\ loc[x] = 2 /\ g[x].place.rank = r BY <1>2 DEF To, At
<1>4. \A j \in DOMAIN q : j < i => ~q[j].bar /\ ~SamePlace(c, q[j]) BY <1>1 DEF Depends
<1>5. \A y \in Waits(loc) : g[y].place.rank = r /\ y \notin S => g[x].stamp < g[y].stamp
  <2> SUFFICES ASSUME NEW y \in Waits(loc), g[y].place.rank = r, y \notin S
               PROVE  g[x].stamp < g[y].stamp
    OBVIOUS
  <2>1. y \in Ids /\ loc[y] < 2 BY DEF Waits, To, At, InQueue
  <2> QED BY <2>1, <1>3 DEF Ordered, InQueue
<1>6. \A y \in Ids : g[y].stamp \in Nat BY GhostFields
<1>7. i \in Nat /\ i >= 1 /\ c \in Located /\ c.kind \in {"READ", "WRITE"} /\ c.rank = r /\ Order(c, g)
  BY <1>1, <1>2
<1> HIDE DEF S
<1>8. \A y \in Ids, j \in DOMAIN q : q[j].id = y /\ g[y].stamp < g[x].stamp => j < i
  <2> SUFFICES ASSUME NEW j \in DOMAIN q, g[q[j].id].stamp < g[x].stamp PROVE j < i OBVIOUS
  <2>1. g[q[j].id].stamp \in Nat /\ g[x].stamp \in Nat BY <1>1, <1>6
  <2>2. ~(i < j) /\ i # j BY <2>1, <1>2
  <2> QED BY <2>2, <1>1, <1>7
<1>9. \A y \in Waits(loc) : y \in Ids BY DEF Waits
<1>10. \A j \in DOMAIN q : g[q[j].id].place = g[x].place => SamePlace(c, q[j])
  <2> SUFFICES ASSUME NEW j \in DOMAIN q, g[q[j].id].place = g[x].place PROVE SamePlace(c, q[j])
    OBVIOUS
  <2>1. PlaceOf(q[j]) = PlaceOf(c) BY <1>2, <1>7 DEF Order
  <2> QED BY <2>1 DEF PlaceOf, SamePlace
<1>11. ASSUME NEW y \in Waits(loc), g[y].place.rank = r, g[y].stamp < g[x].stamp
       PROVE  y \notin bars /\ x \notin bars /\ g[y].place # g[x].place
  <2>1. y \in S BY <1>3, <1>5, <1>6, <1>9, <1>11
  <2>2. PICK j \in DOMAIN q : q[j].id = y BY <1>2, <2>1
  <2>3. j < i /\ j >= 1 BY <1>1, <1>8, <1>9, <1>11, <2>2
  <2>4. y \notin bars BY <1>2, <1>4, <2>2, <2>3
  <2>5. x \notin bars
    <3>1. i # 1 BY <2>3, <1>1, <1>7
    <3>2. ~c.bar BY <3>1
    <3> QED BY <3>2, <1>2
  <2>6. g[y].place # g[x].place BY <1>4, <1>10, <2>2, <2>3
  <2> QED BY <2>4, <2>5, <2>6
<1>12. ASSUME NEW y \in Waits(loc), y # x, g[y].place = g[x].place
       PROVE  g[x].stamp < g[y].stamp
  <2>1. g[y].place.rank = r BY <1>3, <1>12
  <2>2. ~(g[y].stamp < g[x].stamp) BY <1>11, <1>12, <2>1
  <2>3. CASE y \in S
    <3>1. PICK j \in DOMAIN q : q[j].id = y BY <1>2, <2>3
    <3>2. j # i BY <3>1, <1>12
    <3>3. j < i \/ i < j BY <3>2, <1>1, <1>7
    <3> QED BY <3>1, <3>3, <1>2, <2>2
  <2>4. CASE y \notin S BY <2>1, <2>4, <1>5
  <2> QED BY <2>3, <2>4
<1>13. c # None BY <1>7, NoneApart
<1> QED BY <1>3, <1>7, <1>11, <1>12, <1>13 DEF Leads

\* One more write has its data to send.
LEMMA WriteQueued ==
  ASSUME NEW w \in Seq(WriteData), NEW d, NEW g, NEW M, NEW D, WritesLedger(w, d, g, M, D),
         NEW y \in WriteData, y.id \notin M, y.value = g[y.id].value
  PROVE  WritesLedger(Append(w, y), d, g, M \cup {y.id}, D)
<1>1. /\ \A i \in DOMAIN w : w[i].id \in M /\ w[i].value = g[w[i].id].value
      /\ \A i, j \in DOMAIN w : i # j => w[i].id # w[j].id
      /\ d # None => d.id \in D /\ d.value = g[d.id].value
  BY DEF WritesLedger
<1> DEFINE p == Append(w, y)
<1>2. \A i \in DOMAIN p : \/ i \in DOMAIN w /\ p[i] = w[i]
                          \/ i \notin DOMAIN w /\ i = Len(w) + 1 /\ p[i] = y
  <2>1. /\ p \in Seq(WriteData) /\ Len(p) = Len(w) + 1 /\ p[Len(w) + 1] = y
        /\ \A i \in 1 .. Len(w) : p[i] = w[i]
    BY AppendProperties
  <2>2. DOMAIN p = 1 .. Len(w) + 1 /\ DOMAIN w = 1 .. Len(w) /\ Len(w) \in Nat
    BY <2>1, LenProperties
  <2> HIDE DEF p
  <2>3. \A i \in 1 .. Len(w) + 1 : i \in 1 .. Len(w) \/ (i \notin 1 .. Len(w) /\ i = Len(w) + 1)
    BY <2>2
  <2> QED BY <2>1, <2>2, <2>3
<1> HIDE DEF p
<1>3. \A i \in DOMAIN p : p[i].id \in M \cup {y.id} /\ p[i].value = g[p[i].id].value
  BY <1>1, <1>2
<1>4. \A i, j \in DOMAIN p : i # j => p[i].id # p[j].id BY <1>1, <1>2
<1> QED BY <1>1, <1>3, <1>4 DEF WritesLedger, p

\* What issuing a column command leaves of the ledger's queues.
LEMMA QueueLeft ==
  ASSUME NEW queues \in [Ranks -> Seq(Located)], NEW g \in [Ids -> Request], NEW bars, NEW S,
         QueuesLedger(queues, g, bars, S), NEW r \in Ranks, NEW i \in DOMAIN queues[r],
         NEW x, x = queues[r][i].id, x \in Ids, g[x].place.rank = r
  PROVE  QueuesLedger([queues EXCEPT ![r] = Without(queues[r], i)], g, bars, S \ {x})
<1> DEFINE z == [queues EXCEPT ![r] = Without(queues[r], i)]
<1>1. \A k \in Ranks : Queued(queues[k], g, bars, To(S, k, g)) /\ queues[k] \in Seq(Located)
  BY DEF QueuesLedger
<1>2. z[r] = Without(queues[r], i) /\ \A k \in Ranks : k # r => z[k] = queues[k] OBVIOUS
<1>3. To(S \ {x}, r, g) = To(S, r, g) \ {x} /\ \A k \in Ranks : k # r => To(S \ {x}, k, g) = To(S, k, g)
  BY DEF To
<1>4. Queued(Without(queues[r], i), g, bars, To(S, r, g) \ {x}) BY <1>1, QueuedWithout
<1> HIDE DEF z
<1>5. \A k \in Ranks : Queued(z[k], g, bars, To(S \ {x}, k, g)) BY <1>1, <1>2, <1>3, <1>4
<1> QED BY <1>5 DEF QueuesLedger, z

\* An activate, a precharge or a refresh keeps the ledger.
LEMMA BareIssued ==
  ASSUME NEW s, Typed(s), NEW g, NEW loc, NEW bars, NEW P, NEW mem, Sound(s, g, loc, bars, P, mem),
         s.command = None, NEW c \in BareCommand, NEW t, Issued(s, t, c, s.queues)
  PROVE  Sound(t, g, loc, bars, P, mem)
<1>1. /\ g \in [Ids -> Request] /\ loc \in [Ids -> 0 .. 9] /\ bars \subseteq Ids
      /\ Listed(s.held, g, bars, At(loc, 0)) /\ Listed(s.transactions, g, bars, At(loc, 1))
      /\ QueuesLedger(s.queues, g, bars, At(loc, 2))
      /\ CommandLedger(s.command, g, At(loc, 3), Waits(loc))
      /\ WritesLedger(s.writes, s.data, g, At(loc, 7), At(loc, 8))
      /\ ReadsLedger(s.reads, g, Expected(g, loc), Fetched(loc))
      /\ RanksLedger(s.ranks, g, At(loc, 4), At(loc, 5))
      /\ ReturnsLedger(s.returns, g, At(loc, 6))
      /\ Ordered(g, loc) /\ Counted(s, Owed(loc))
      /\ Chain(Undone(s.command, loc), s.store, mem, g) /\ Answered(s.replies, g, P, Owed(loc))
  BY SoundParts
<1>2. c.kind \notin {"READ", "WRITE"} /\ c.id \notin Ids BY NoneApart DEF BareCommand
<1>3. /\ t.command = c /\ t.queues = s.queues /\ t.writes = s.writes
      /\ t.held = s.held /\ t.transactions = s.transactions /\ t.onTheFly = s.onTheFly
      /\ t.data = s.data /\ t.reads = s.reads /\ t.returns = s.returns
      /\ t.ranks = s.ranks /\ t.store = s.store /\ t.replies = s.replies
  BY <1>2 DEF Issued
<1>4. At(loc, 3) = {} BY <1>1 DEF CommandLedger
<1>5. CommandLedger(c, g, At(loc, 3), Waits(loc)) BY <1>2, <1>4 DEF CommandLedger
<1>6. Undone(c, loc) = Undone(s.command, loc) BY <1>2 DEF Undone
<1>7. Counted(t, Owed(loc)) BY <1>1, <1>3 DEF Counted
<1> QED BY <1>1, <1>3, <1>5, <1>6, <1>7, SoundFrom

\* Issuing a column command moves its request on to the bus, ahead of no barrier.
LEMMA ColumnIssued ==
  ASSUME NEW s, Typed(s), NEW g, NEW loc, NEW bars, NEW P, NEW mem, Sound(s, g, loc, bars, P, mem),
         s.command = None, NEW r \in Ranks, NEW i \in Nat, NEW t, IssuesColumn(s, t, r, i)
  PROVE  \E m : Sound(t, g, m, bars, P, mem) /\ Passed(g, bars, Waits(loc), Waits(m))
<1> DEFINE c == s.queues[r][i]
           x == c.id
           b == IF g[x].write THEN 7 ELSE 3
           m == Moved(loc, x, b)
           q == [s.queues EXCEPT ![r] = Without(s.queues[r], i)]
           y == [id |-> c.id, rank |-> c.rank, value |-> c.value, left |-> Timing.WL]
<1>1. /\ g \in [Ids -> Request] /\ loc \in [Ids -> 0 .. 9] /\ bars \subseteq Ids
      /\ Listed(s.held, g, bars, At(loc, 0)) /\ Listed(s.transactions, g, bars, At(loc, 1))
      /\ QueuesLedger(s.queues, g, bars, At(loc, 2))
      /\ CommandLedger(s.command, g, At(loc, 3), Waits(loc))
      /\ WritesLedger(s.writes, s.data, g, At(loc, 7), At(loc, 8))
      /\ ReadsLedger(s.reads, g, Expected(g, loc), Fetched(loc))
      /\ RanksLedger(s.ranks, g, At(loc, 4), At(loc, 5))
      /\ ReturnsLedger(s.returns, g, At(loc, 6))
      /\ Ordered(g, loc) /\ Counted(s, Owed(loc))
      /\ Chain(Undone(s.command, loc), s.store, mem, g) /\ Answered(s.replies, g, P, Owed(loc))
  BY SoundParts
<1>2. /\ i \in DOMAIN s.queues[r] /\ (i = 1 \/ ~s.queues[r][i].bar) /\ ~Depends(s.queues[r], i)
      /\ Issued(s, t, c, q)
  BY DEF IssuesColumn
<1>3. /\ x \in Ids /\ loc[x] = 2 /\ g[x].place.rank = r /\ c.rank = r /\ Order(c, g)
      /\ c.kind \in {"READ", "WRITE"} /\ c \in Located /\ c # None
      /\ \A u \in Waits(loc) : g[u].place.rank = r /\ g[u].stamp < g[x].stamp =>
                                 u \notin bars /\ x \notin bars /\ g[u].place # g[x].place
      /\ \A u \in Waits(loc) : u # x /\ g[u].place = g[x].place => g[x].stamp < g[u].stamp
  <2> HIDE DEF m, b, q, y
  <2>1. /\ g \in [Ids -> Request] /\ loc \in [Ids -> 0 .. 9]
        /\ QueuesLedger(s.queues, g, bars, At(loc, 2)) /\ Ordered(g, loc)
        /\ i \in DOMAIN s.queues[r] /\ (i = 1 \/ ~s.queues[r][i].bar) /\ ~Depends(s.queues[r], i)
    BY <1>1, <1>2
  <2>2. Leads(s, g, loc, bars, r, i) BY <2>1, IssuableFirst
  <2> QED BY <2>2 DEF Leads
<1>4. /\ t.command = c /\ t.queues = q
      /\ t.writes = IF c.kind = "WRITE" THEN Append(s.writes, y) ELSE s.writes
      /\ t.held = s.held /\ t.transactions = s.transactions /\ t.onTheFly = s.onTheFly
      /\ t.data = s.data /\ t.reads = s.reads /\ t.returns = s.returns
      /\ t.ranks = s.ranks /\ t.store = s.store /\ t.replies = s.replies
  BY <1>2 DEF Issued
<1>5. /\ (c.kind = "WRITE") = g[x].write /\ PlaceOf(c) = g[x].place /\ c.value = g[x].value
      /\ g[x].write \in BOOLEAN
  BY <1>1, <1>3, GhostFields DEF Order
<1>6. c.kind = "READ" <=> ~g[x].write
  <2>1. ("READ" = "WRITE") = FALSE OBVIOUS
  <2> QED BY <1>3, <1>5, <2>1
<1>7. b \in {3, 7} /\ (b = 7 <=> g[x].write) /\ (b = 3 <=> ~g[x].write) BY <1>5
<1>8. /\ y \in WriteData /\ y.id = x /\ y.value = g[x].value
      /\ s.writes \in Seq(WriteData) /\ s.queues \in [Ranks -> Seq(Located)]
  <2>1. c.value \in Values /\ Timing.WL \in Nat BY <1>3, TimingTypes DEF Located, ColumnCommand
  <2>2. s.writes \in Seq(WriteData) /\ s.queues \in [Ranks -> Seq(Located)]
    BY DEF Typed, DataTyped, QueuesTyped
  <2>3. y \in WriteData /\ y.id = x /\ y.value = c.value BY <2>1, <1>3 DEF WriteData
  <2> QED BY <2>2, <2>3, <1>5
<1>9. At(loc, 3) = {} BY <1>1 DEF CommandLedger
<1>10. QueuesLedger(q, g, bars, At(loc, 2) \ {x}) BY <1>1, <1>2, <1>3, <1>8, QueueLeft
<1> HIDE DEF y, q, b, x, c, m
<1>11. /\ m \in [Ids -> 0 .. 9] /\ m[x] = b /\ \A id \in Ids : id # x => m[id] = loc[id]
       /\ At(m, 2) = At(loc, 2) \ {x}
       /\ At(m, b) = At(loc, b) \cup {x} /\ x \notin At(loc, b)
       /\ \A k \in 0 .. 9 : k # 2 /\ k # b => At(m, k) = At(loc, k)
  BY <1>1, <1>3, <1>7, MovedSets DEF m
<1>12. /\ Waits(m) = Waits(loc) \ {x} /\ Owed(m) = Owed(loc) /\ Fetched(m) = Fetched(loc)
       /\ Expected(g, m) = Expected(g, loc)
  BY <1>3, <1>7, <1>11 DEF Waits, Owed, Fetched, Expected, InQueue, Free, InRank, InReturns, OnBus
<1>13. Undone(c, m) = Undone(s.command, loc)
  <2>1. Undone(s.command, loc) = Waits(loc) BY DEF Undone, Waits
  <2>2. Undone(c, m) = Waits(m) \cup {x} BY <1>3 DEF Undone, Waits, x
  <2>3. x \in Waits(loc) BY <1>3 DEF Waits, InQueue
  <2> QED BY <2>1, <2>2, <2>3, <1>12
<1>14. CommandLedger(c, g, At(m, 3), Waits(m))
  <2>1. \A id \in At(m, 3) : c.kind = "READ" /\ id = x BY <1>6, <1>7, <1>9, <1>11
  <2>2. c.kind = "READ" => x \in At(m, 3) BY <1>6, <1>7, <1>11
  <2>3. x \notin Waits(m) /\ \A id \in Waits(m) : g[id].place = PlaceOf(c) => g[x].stamp < g[id].stamp
    BY <1>3, <1>5, <1>12
  <2> QED BY <2>1, <2>2, <2>3, <1>3 DEF CommandLedger, x
<1>15. WritesLedger(t.writes, t.data, g, At(m, 7), At(m, 8))
  <2>0. At(m, 8) = At(loc, 8) BY <1>7, <1>11
  <2>1. CASE g[x].write
    <3>1. x \notin At(loc, 7) /\ At(m, 7) = At(loc, 7) \cup {x} /\ t.writes = Append(s.writes, y)
      BY <2>1, <1>3, <1>4, <1>5, <1>7, <1>11
    <3>2. WritesLedger(Append(s.writes, y), s.data, g, At(loc, 7) \cup {y.id}, At(loc, 8))
      BY <1>1, <1>8, <3>1, WriteQueued
    <3> QED BY <3>1, <3>2, <2>0, <1>4, <1>8
  <2>2. CASE ~g[x].write
    <3>1. At(m, 7) = At(loc, 7) /\ t.writes = s.writes BY <2>2, <1>4, <1>5, <1>7, <1>11
    <3> QED BY <3>1, <2>0, <1>1, <1>4
  <2> QED BY <2>1, <2>2
<1>16. Ordered(g, m)
  <2>1. \A u, v \in Ids : m[u] = 0 /\ m[v] = 1 => loc[u] = 0 /\ loc[v] = 1 BY <1>7, <1>11
  <2>2. \A u, v \in Ids : m[u] < m[v] /\ m[v] = 2 => loc[u] < loc[v] /\ loc[v] = 2
    BY <1>7, <1>11
  <2>3. ASSUME NEW u \in Ids, NEW v \in Ids, m[u] < m[v], m[v] \in 3 .. 6, g[u].place = g[v].place
        PROVE  g[v].stamp < g[u].stamp
    <3>0. loc[u] \in 0 .. 9 /\ loc[v] \in 0 .. 9 BY <1>1
    <3>1. CASE v = x
      <4>1. u # x /\ m[u] < 3 BY <2>3, <3>1, <1>7, <1>11
      <4>2. u \in Waits(loc) BY <4>1, <3>0, <1>11 DEF Waits, InQueue
      <4> QED BY <4>1, <4>2, <3>1, <2>3, <1>3
    <3>2. CASE v # x
      <4>1. loc[u] < loc[v] /\ loc[v] \in 3 .. 6 BY <2>3, <3>0, <3>2, <1>3, <1>7, <1>11
      <4> QED BY <4>1, <2>3, <1>1 DEF Ordered, OnBus, InReturns
    <3> QED BY <3>1, <3>2
  <2> QED BY <2>1, <2>2, <2>3, <1>1 DEF Ordered, InHeld, InTransactions, InQueue, OnBus, InReturns
<1>17. Counted(t, Owed(m)) BY <1>1, <1>4, <1>12 DEF Counted
<1>18. /\ At(m, 0) = At(loc, 0) /\ At(m, 1) = At(loc, 1) /\ At(m, 4) = At(loc, 4)
       /\ At(m, 5) = At(loc, 5) /\ At(m, 6) = At(loc, 6)
  BY <1>7, <1>11
<1>19. Sound(t, g, m, bars, P, mem)
  <2>1. Listed(t.held, g, bars, At(m, 0)) /\ Listed(t.transactions, g, bars, At(m, 1))
    BY <1>1, <1>4, <1>18
  <2>2. QueuesLedger(t.queues, g, bars, At(m, 2)) /\ ReturnsLedger(t.returns, g, At(m, 6))
    BY <1>1, <1>4, <1>10, <1>11, <1>18
  <2>3. RanksLedger(t.ranks, g, At(m, 4), At(m, 5)) BY <1>1, <1>4, <1>18
  <2>4. Answered(t.replies, g, P, Owed(m)) /\ ReadsLedger(t.reads, g, Expected(g, m), Fetched(m))
    BY <1>1, <1>4, <1>12
  <2>5. Chain(Undone(t.command, m), t.store, mem, g) /\ CommandLedger(t.command, g, At(m, 3), Waits(m))
    BY <1>1, <1>4, <1>13, <1>14
  <2> QED BY <1>1, <1>11, <1>15, <1>16, <1>17, <2>1, <2>2, <2>3, <2>4, <2>5, SoundFrom
<1>20. Passed(g, bars, Waits(loc), Waits(m)) BY <1>3, <1>12 DEF Passed
<1> QED BY <1>19, <1>20

\* Issuing what CommandQueue::pop gives keeps the ledger.
LEMMA IssueSound ==
  ASSUME NEW s, Typed(s), NEW g, NEW loc, NEW bars, NEW P, NEW mem, Sound(s, g, loc, bars, P, mem),
         s.command = None, NEW t, Issues(s, t)
  PROVE  \E m : Sound(t, g, m, bars, P, mem) /\ Passed(g, bars, Waits(loc), Waits(m))
<1>1. Passed(g, bars, Waits(loc), Waits(loc)) BY DEF Passed
<1>2. CASE Popped(s, t, s.queues)
  <2>1. SameLedger(s, t) BY <1>2 DEF Popped, SameLedger
  <2> QED BY <1>1, <2>1, SoundKept
<1>3. CASE IssuesBare(s, t) BY <1>1, <1>3, BareIssued DEF IssuesBare
<1>4. CASE \E r \in Ranks, i \in Nat : IssuesColumn(s, t, r, i) BY <1>4, ColumnIssued
<1> QED BY <1>2, <1>3, <1>4 DEF Issues

\* The transaction at place i of the queue, as the ledger has it.
LEMMA TransactionTicket ==
  ASSUME NEW q \in Seq(Transaction), NEW g \in [Ids -> Request], NEW bars, NEW S,
         Listed(q, g, bars, S), NEW i \in DOMAIN q
  PROVE  LET x == q[i]
             id == x.id
             c == CommandOf(x)
         IN  /\ x \in Transaction /\ id \in Ids /\ id \in S /\ x.place = g[id].place /\ x.write = g[id].write
             /\ c \in Located /\ c.id = id /\ Order(c, g) /\ c.bar = (c.id \in bars)
             /\ x.token = g[id].token /\ x.place.rank \in Ranks
<1> DEFINE x == q[i]
           c == CommandOf(x)
<1>1. x \in Transaction OBVIOUS
<1>2. /\ x.id \in Ids /\ x.write \in BOOLEAN /\ x.place.rank \in Ranks
      /\ c \in Located /\ PlaceOf(c) = x.place /\ c.id = x.id
      /\ c.token = x.token /\ c.value = x.value /\ c.bar = x.bar
      /\ c.kind = IF x.write THEN "WRITE" ELSE "READ"
  BY <1>1, TransactionFields
<1>3. Ticket(x, g, bars) /\ x.id \in S BY DEF Listed, IdsOf
<1> HIDE DEF x, c
<1>4. (c.kind = "WRITE") = x.write
  <2>1. CASE x.write BY <2>1, <1>2
  <2>2. CASE ~x.write BY <2>2, <1>2
  <2> QED BY <2>1, <2>2
<1>5. Order(c, g) /\ c.bar = (c.id \in bars) BY <1>2, <1>3, <1>4 DEF Order, Ticket
<1>6. /\ x.place = g[x.id].place /\ x.write = g[x.id].write /\ x.token = g[x.id].token
  BY <1>3 DEF Ticket
<1>7. /\ x \in Transaction /\ x.id \in Ids /\ x.id \in S /\ x.place = g[x.id].place
      /\ x.write = g[x.id].write
      /\ c \in Located /\ c.id = x.id /\ Order(c, g) /\ c.bar = (c.id \in bars)
      /\ x.token = g[x.id].token /\ x.place.rank \in Ranks
  BY <1>1, <1>2, <1>3, <1>5, <1>6
<1> QED BY <1>7 DEF x, c

\* One more command in the queue of its rank.
LEMMA QueueGrows ==
  ASSUME NEW queues \in [Ranks -> Seq(Located)], NEW g \in [Ids -> Request], NEW bars, NEW S,
         QueuesLedger(queues, g, bars, S), NEW r \in Ranks, NEW c \in Located,
         Order(c, g), c.bar = (c.id \in bars), g[c.id].place.rank = r, c.id \in Ids,
         \A id \in To(S, r, g) : g[id].stamp < g[c.id].stamp
  PROVE  QueuesLedger([queues EXCEPT ![r] = Append(queues[r], c)], g, bars, S \cup {c.id})
<1> DEFINE z == [queues EXCEPT ![r] = Append(queues[r], c)]
           T == S \cup {c.id}
<1>1. \A k \in Ranks : Queued(queues[k], g, bars, To(S, k, g)) /\ queues[k] \in Seq(Located)
  BY DEF QueuesLedger
<1>2. z[r] = Append(queues[r], c) /\ \A k \in Ranks : k # r => z[k] = queues[k] OBVIOUS
<1>3. To(T, r, g) = To(S, r, g) \cup {c.id} /\ \A k \in Ranks : k # r => To(T, k, g) = To(S, k, g)
  BY DEF To
<1>4. Queued(Append(queues[r], c), g, bars, To(S, r, g) \cup {c.id}) BY <1>1, QueuedAppend
<1> HIDE DEF z, T
<1>5. \A k \in Ranks : Queued(z[k], g, bars, To(T, k, g)) BY <1>1, <1>2, <1>3, <1>4
<1> QED BY <1>5 DEF QueuesLedger, z, T

\* Taking a transaction into the command queues keeps the ledger.
LEMMA TakenSound ==
  ASSUME NEW s, Typed(s), NEW g, NEW loc, NEW bars, NEW P, NEW mem, Sound(s, g, loc, bars, P, mem),
         NEW t, NEW i, Taken(s, t, i)
  PROVE  /\ \E m : Sound(t, g, m, bars, P, mem) /\ Waits(m) = Waits(loc)
         /\ \E r \in Ranks : t.queues[r] # <<>>
<1> DEFINE z == s.transactions[i]
           x == z.id
           r == z.place.rank
           c == CommandOf(z)
           m == Moved(loc, x, 2)
           q == [s.queues EXCEPT ![r] = Append(s.queues[r], c)]
           y == [id |-> z.id, token |-> z.token, place |-> z.place, value |-> Unwritten]
<1>1. /\ g \in [Ids -> Request] /\ loc \in [Ids -> 0 .. 9] /\ bars \subseteq Ids
      /\ Listed(s.held, g, bars, At(loc, 0)) /\ Listed(s.transactions, g, bars, At(loc, 1))
      /\ QueuesLedger(s.queues, g, bars, At(loc, 2))
      /\ CommandLedger(s.command, g, At(loc, 3), Waits(loc))
      /\ WritesLedger(s.writes, s.data, g, At(loc, 7), At(loc, 8))
      /\ ReadsLedger(s.reads, g, Expected(g, loc), Fetched(loc))
      /\ RanksLedger(s.ranks, g, At(loc, 4), At(loc, 5))
      /\ ReturnsLedger(s.returns, g, At(loc, 6))
      /\ Ordered(g, loc) /\ Counted(s, Owed(loc))
      /\ Chain(Undone(s.command, loc), s.store, mem, g) /\ Answered(s.replies, g, P, Owed(loc))
  BY SoundParts
<1>2. /\ s.transactions \in Seq(Transaction) /\ s.queues \in [Ranks -> Seq(Located)]
      /\ s.reads \in Seq(Pending)
  BY DEF Typed, QueuesTyped, DataTyped
<1>3. /\ i \in DOMAIN s.transactions
      /\ \A j \in DOMAIN s.transactions : j < i => s.transactions[j].place.rank # r
      /\ t.transactions = Without(s.transactions, i) /\ t.queues = q
      /\ t.reads = IF z.write THEN s.reads ELSE Append(s.reads, y)
      /\ t.held = s.held /\ t.onTheFly = s.onTheFly /\ t.command = s.command
      /\ t.data = s.data /\ t.writes = s.writes /\ t.returns = s.returns
      /\ t.ranks = s.ranks /\ t.store = s.store /\ t.replies = s.replies
  BY DEF Taken
<1>4. /\ z \in Transaction /\ x \in Ids /\ x \in At(loc, 1) /\ z.place = g[x].place /\ z.write = g[x].write
      /\ c \in Located /\ c.id = x /\ Order(c, g) /\ c.bar = (c.id \in bars)
      /\ z.token = g[x].token /\ r \in Ranks
  BY <1>1, <1>2, <1>3, TransactionTicket
<1>5. /\ Listed(t.transactions, g, bars, At(loc, 1) \ {x})
      /\ \A id \in At(loc, 1) : id # x => \E j \in DOMAIN s.transactions : j # i /\ s.transactions[j].id = id
  <2> DEFINE Q == s.transactions
             S == At(loc, 1)
  <2>1. /\ Q \in Seq(Transaction) /\ i \in DOMAIN Q /\ g \in [Ids -> Request] /\ Listed(Q, g, bars, S)
        /\ x = Q[i].id /\ t.transactions = Without(Q, i)
    BY <1>1, <1>2, <1>3
  <2>2. /\ Listed(t.transactions, g, bars, S \ {x})
        /\ \A id \in S : id # x => \E j \in DOMAIN Q : j # i /\ Q[j].id = id
    <3> HIDE DEF Q, S, x, z, r, c, m, q, y
    <3>1. Listed(Without(Q, i), g, bars, S \ {Q[i].id}) BY <2>1, ListedWithout
    <3>2. \A id \in S : id # Q[i].id => \E j \in DOMAIN Q : j # i /\ Q[j].id = id
      BY <2>1 DEF Listed, IdsOf
    <3> QED BY <2>1, <3>1, <3>2
  <2> QED BY <2>2
<1>6. \A u \in Ids : loc[u] = 1 /\ u # x /\ g[u].place.rank = r => g[x].stamp < g[u].stamp
  <2> SUFFICES ASSUME NEW u \in Ids, loc[u] = 1, u # x, g[u].place.rank = r
               PROVE  g[x].stamp < g[u].stamp
    OBVIOUS
  <2>1. PICK j \in DOMAIN s.transactions : j # i /\ s.transactions[j].id = u BY <1>5 DEF At
  <2>2. s.transactions[j].place = g[u].place /\ Sorted(s.transactions, g)
    BY <1>1, <2>1 DEF Listed, Ticket
  <2>3. i \in Nat /\ j \in Nat BY <1>2, <1>3, <2>1
  <2>4. ~(j < i) BY <2>1, <2>2, <1>3
  <2>5. i < j BY <2>1, <2>3, <2>4
  <2> QED BY <2>1, <2>2, <2>5, <1>3 DEF Sorted
<1>7. y \in Pending /\ y.id = x /\ y.token = z.token /\ y.place = z.place
  BY <1>4, TransactionFields DEF Pending, Values, Unwritten
<1>8. Append(s.queues[r], c) # <<>> BY <1>2, <1>4, AppendNotEmpty
<1>9. q[r] = Append(s.queues[r], c) BY <1>2, <1>4
<1>10. q[r] # <<>> BY <1>8, <1>9
<1>11. loc[x] = 1 BY <1>4 DEF At
<1>12. QueuesLedger(q, g, bars, At(loc, 2) \cup {x})
  <2>1. g[c.id].place.rank = r BY <1>4
  <2>2. \A id \in To(At(loc, 2), r, g) : g[id].stamp < g[c.id].stamp
    <3> SUFFICES ASSUME NEW id \in To(At(loc, 2), r, g) PROVE g[id].stamp < g[x].stamp BY <1>4
    <3>1. id \in Ids /\ loc[id] = 2 /\ g[id].place.rank = r BY DEF To, At
    <3> QED BY <3>1, <2>1, <1>1, <1>4, <1>11 DEF Ordered, InQueue
  <2> HIDE DEF x, z, r, c
  <2>3. QueuesLedger([s.queues EXCEPT ![r] = Append(s.queues[r], c)], g, bars, At(loc, 2) \cup {c.id})
    BY <2>1, <2>2, <1>1, <1>2, <1>4, QueueGrows
  <2> QED BY <2>3, <1>4
<1> HIDE DEF y, q, c, m, x, r, z
<1>13. /\ m \in [Ids -> 0 .. 9] /\ m[x] = 2 /\ \A id \in Ids : id # x => m[id] = loc[id]
       /\ At(m, 1) = At(loc, 1) \ {x}
       /\ At(m, 2) = At(loc, 2) \cup {x}
       /\ \A k \in 0 .. 9 : k # 1 /\ k # 2 => At(m, k) = At(loc, k)
  BY <1>1, <1>4, <1>11, MovedSets DEF m
<1>14. /\ Waits(m) = Waits(loc) /\ Owed(m) = Owed(loc) /\ Fetched(m) = Fetched(loc)
       /\ Expected(g, m) = IF g[x].write THEN Expected(g, loc) ELSE Expected(g, loc) \cup {x}
       /\ x \notin Fetched(loc) /\ x \notin Expected(g, loc)
       /\ Undone(s.command, m) = Undone(s.command, loc)
  BY <1>4, <1>11, <1>13 DEF Waits, Owed, Fetched, Expected, InQueue, Free, InRank, InReturns, OnBus, Undone
<1>15. ReadsLedger(t.reads, g, Expected(g, m), Fetched(m))
  <2>1. CASE g[x].write BY <2>1, <1>1, <1>3, <1>4, <1>14
  <2>2. CASE ~g[x].write
    <3>1. \A id \in Expected(g, loc) : After(id, x, g)
      <4> SUFFICES ASSUME NEW id \in Expected(g, loc) PROVE After(id, x, g) OBVIOUS
      <4>1. id \in Ids /\ loc[id] \in 2 .. 6 /\ id # x
        BY <1>14 DEF Expected, OnBus, InQueue, InReturns
      <4>2. ASSUME g[id].place = g[x].place PROVE g[id].stamp < g[x].stamp
        <5>1. CASE loc[id] = 2 BY <5>1, <4>1, <4>2, <1>1, <1>4, <1>11 DEF Ordered, InQueue
        <5>2. CASE loc[id] \in 3 .. 6
          BY <5>2, <4>1, <4>2, <1>1, <1>4, <1>11 DEF Ordered, OnBus, InReturns
        <5> QED BY <4>1, <5>1, <5>2
      <4> QED BY <4>1, <4>2 DEF After
    <3>2. Matching(y, g) BY <1>4, <1>7 DEF Matching
    <3>3. ReadsLedger(Append(s.reads, y), g, Expected(g, loc) \cup {y.id}, Fetched(loc))
      BY <2>2, <3>1, <3>2, <1>1, <1>2, <1>7, <1>14, ReadsAppend
    <3> QED BY <2>2, <3>3, <1>3, <1>4, <1>7, <1>14
  <2> QED BY <2>1, <2>2
<1>16. Ordered(g, m)
  <2>1. \A u, v \in Ids : m[u] = 0 /\ m[v] = 1 => loc[u] = 0 /\ loc[v] = 1 BY <1>13
  <2>2. ASSUME NEW u \in Ids, NEW v \in Ids, m[u] < m[v], m[v] = 2, g[u].place.rank = g[v].place.rank
        PROVE  g[v].stamp < g[u].stamp
    <3>0. loc[u] \in 0 .. 9 /\ u # x /\ loc[u] < 2 /\ loc[u] = m[u] BY <2>2, <1>1, <1>13
    <3>1. CASE v = x
      <4>1. CASE loc[u] = 0 BY <4>1, <3>1, <1>1, <1>4, <1>11 DEF Ordered, InHeld, InTransactions
      <4>2. CASE loc[u] = 1 BY <4>2, <3>0, <3>1, <2>2, <1>4, <1>6 DEF r
      <4> QED BY <3>0, <4>1, <4>2
    <3>2. CASE v # x BY <3>0, <3>2, <2>2, <1>1, <1>13 DEF Ordered, InQueue
    <3> QED BY <3>1, <3>2
  <2>3. \A u, v \in Ids : m[u] < m[v] /\ m[v] \in 3 .. 6 => loc[u] < loc[v] /\ loc[v] \in 3 .. 6
    BY <1>1, <1>11, <1>13
  <2> QED BY <2>1, <2>2, <2>3, <1>1 DEF Ordered, InHeld, InTransactions, InQueue, OnBus, InReturns
<1>17. Counted(t, Owed(m)) BY <1>1, <1>3, <1>14 DEF Counted
<1>18. /\ At(m, 0) = At(loc, 0) /\ At(m, 3) = At(loc, 3) /\ At(m, 4) = At(loc, 4)
       /\ At(m, 5) = At(loc, 5) /\ At(m, 6) = At(loc, 6) /\ At(m, 7) = At(loc, 7) /\ At(m, 8) = At(loc, 8)
  BY <1>13
<1>19. Sound(t, g, m, bars, P, mem)
  <2>1. Listed(t.held, g, bars, At(m, 0)) /\ Listed(t.transactions, g, bars, At(m, 1))
    BY <1>1, <1>3, <1>5, <1>13, <1>18
  <2>2. QueuesLedger(t.queues, g, bars, At(m, 2)) /\ ReturnsLedger(t.returns, g, At(m, 6))
    BY <1>1, <1>3, <1>12, <1>13, <1>18
  <2>3. RanksLedger(t.ranks, g, At(m, 4), At(m, 5)) BY <1>1, <1>3, <1>18
  <2>4. Answered(t.replies, g, P, Owed(m)) /\ WritesLedger(t.writes, t.data, g, At(m, 7), At(m, 8))
    BY <1>1, <1>3, <1>14, <1>18
  <2>5. Chain(Undone(t.command, m), t.store, mem, g) /\ CommandLedger(t.command, g, At(m, 3), Waits(m))
    BY <1>1, <1>3, <1>14, <1>18
  <2> QED BY <1>1, <1>13, <1>15, <1>16, <1>17, <2>1, <2>2, <2>3, <2>4, <2>5, SoundFrom
<1> QED BY <1>3, <1>4, <1>10, <1>14, <1>19

\* The queue of transactions gives one up; what is held back then has one before it.
LEMMA TransactionSound ==
  ASSUME NEW s, Typed(s), NEW g, NEW loc, NEW bars, NEW P, NEW mem, Sound(s, g, loc, bars, P, mem),
         NEW t, t = UpdateTransactionQueue(s)
  PROVE  /\ t = s \/ \E i \in DOMAIN s.transactions : Taken(s, t, i)
         /\ \E m : Sound(t, g, m, bars, P, mem) /\ Waits(m) = Waits(loc)
         /\ s.transactions # <<>> =>
              t.transactions # <<>> \/ \E r \in Ranks : t.queues[r] # <<>>
<1>1. IdsOf(s.transactions) = At(loc, 1) /\ IdsOf(s.reads) = Expected(g, loc)
  BY SoundParts DEF Listed, ReadsLedger
<1>2. IdsOf(s.transactions) \cap IdsOf(s.reads) = {}
  <2>1. \A id \in Ids : ~(id \in At(loc, 1) /\ id \in Expected(g, loc))
    BY DEF At, Expected, OnBus, InQueue, InReturns
  <2> QED BY <2>1, <1>1 DEF At
<1>3. t = s \/ \E i \in DOMAIN s.transactions : Taken(s, t, i) BY <1>2, TransactionTaken
<1> QED BY <1>3, TakenSound

\* The pending read that a returned burst completes is the one it was sent for.
LEMMA ReturnMatches ==
  ASSUME NEW s, s.reads \in Seq(Pending), s.returns \in Seq(Returned), s.returns # <<>>,
         NEW g \in [Ids -> Request], NEW loc \in [Ids -> 0 .. 9],
         ReadsLedger(s.reads, g, Expected(g, loc), Fetched(loc)),
         ReturnsLedger(s.returns, g, At(loc, 6)), Ordered(g, loc)
  PROVE  LET i == Least(Matches(s, Head(s.returns)))
         IN  /\ Matches(s, Head(s.returns)) # {}
             /\ i \in DOMAIN s.reads /\ s.reads[i].id = s.returns[1].id
             /\ s.reads[i].value = g[s.returns[1].id].value
<1> DEFINE h == s.returns[1]
           x == h.id
           N == Matches(s, h)
           i == Least(N)
           q == s.reads
<1>1. Head(s.returns) = h BY TailMembers
<1>2. /\ x \in At(loc, 6) /\ h.token = g[x].token /\ h.place = g[x].place
      /\ \A id \in At(loc, 6) : id # x => After(x, id, g)
  BY ReturnsTail DEF Matching
<1>3. x \in Ids /\ loc[x] = 6 /\ x \in Expected(g, loc) /\ x \in Fetched(loc)
  BY <1>2 DEF At, Expected, Fetched, OnBus, InReturns, InRank
<1>4. /\ \A j \in DOMAIN q : /\ q[j].token = g[q[j].id].token /\ q[j].place = g[q[j].id].place
                             /\ q[j].id \in Fetched(loc) => q[j].value = g[q[j].id].value
                             /\ q[j].id \in Expected(g, loc)
      /\ \A j, k \in DOMAIN q : j < k => After(q[j].id, q[k].id, g)
      /\ \E j \in DOMAIN q : q[j].id = x
  BY <1>3 DEF ReadsLedger, Apart, IdsOf, Matching
<1>5. DOMAIN q \subseteq Nat OBVIOUS
<1> HIDE DEF h, q
<1>6. PICK j \in DOMAIN q : q[j].id = x BY <1>4
<1>7. g[x].token \in BOOLEAN /\ \A id \in Ids : g[id].stamp \in Nat BY <1>3, GhostFields
<1>8. j \in N BY <1>2, <1>4, <1>6, <1>7 DEF Matches, q
<1>9. N \subseteq Nat BY <1>5 DEF Matches, q
<1>10. i \in N /\ i <= j BY <1>8, <1>9, LeastExists
<1>11. i \in DOMAIN q BY <1>10 DEF Matches, q
<1>12. i \in Nat /\ j \in Nat BY <1>5, <1>6, <1>11
<1>13. q[i].id = x
  <2>1. CASE h.token BY <2>1, <1>10 DEF Matches, q
  <2>2. CASE ~h.token
    <3>1. q[i].place = h.place BY <2>2, <1>10 DEF Matches, q
    <3> SUFFICES ASSUME q[i].id # x PROVE FALSE OBVIOUS
    <3> DEFINE u == q[i].id
    <3>2. i < j BY <1>6, <1>10, <1>12
    <3>3. After(u, x, g) /\ u \in Expected(g, loc) /\ g[u].place = g[x].place
      BY <3>1, <3>2, <1>2, <1>4, <1>6, <1>11
    <3>4. u \in Ids /\ loc[u] \in 2 .. 6 BY <3>3 DEF Expected, OnBus, InReturns, InQueue
    <3> HIDE DEF u
    <3>5. g[u].stamp < g[x].stamp BY <3>3 DEF After
    <3>6. CASE loc[u] = 6
      <4>1. u \in At(loc, 6) /\ u # x BY <3>4, <3>6 DEF At, u
      <4>2. g[x].stamp < g[u].stamp BY <4>1, <3>3, <1>2 DEF After
      <4> QED BY <4>2, <3>4, <3>5, <1>3, <1>7
    <3>7. CASE loc[u] # 6
      <4>1. loc[u] < loc[x] /\ loc[x] \in 3 .. 6 BY <3>4, <3>7, <1>3
      <4>2. g[x].stamp < g[u].stamp BY <4>1, <3>3, <3>4, <1>3 DEF Ordered, OnBus, InReturns
      <4> QED BY <4>2, <3>4, <3>5, <1>3, <1>7
    <3> QED BY <3>6, <3>7
  <2> QED BY <2>1, <2>2
<1>14. q[i].value = g[x].value BY <1>3, <1>4, <1>11, <1>13
<1>15. N # {} BY <1>8
<1> QED BY <1>1, <1>11, <1>13, <1>14, <1>15 DEF h, q

\* Every returned burst has its pending read, and answers the request it stands for.
LEMMA ReturnReadSound ==
  ASSUME NEW s, Typed(s), NEW g, NEW loc, NEW bars, NEW P, NEW mem, Sound(s, g, loc, bars, P, mem),
         NEW t, t = ReturnRead(s)
  PROVE  /\ s.returns # <<>> => Matches(s, Head(s.returns)) # {}
         /\ t.fault = s.fault /\ t.held = s.held /\ t.transactions = s.transactions
         /\ t.queues = s.queues
         /\ \E m : Sound(t, g, m, bars, P, mem) /\ Waits(m) = Waits(loc)
<1>1. CASE s.returns = <<>>
  <2>1. t = s BY <1>1 DEF ReturnRead
  <2> QED BY <1>1, <2>1
<1>2. CASE s.returns # <<>>
  <2> DEFINE h == s.returns[1]
             x == h.id
             i == Least(Matches(s, Head(s.returns)))
             m == Moved(loc, x, 9)
  <2>1. /\ IsChannel(s) /\ s.reads \in Seq(Pending) /\ s.returns \in Seq(Returned)
        /\ s.onTheFly \in Int /\ s.held \in Seq(Transaction)
    BY DEF Typed, DataTyped, QueuesTyped
  <2>2. /\ g \in [Ids -> Request] /\ loc \in [Ids -> 0 .. 9] /\ bars \subseteq Ids
        /\ Listed(s.held, g, bars, At(loc, 0)) /\ Listed(s.transactions, g, bars, At(loc, 1))
        /\ QueuesLedger(s.queues, g, bars, At(loc, 2))
        /\ CommandLedger(s.command, g, At(loc, 3), Waits(loc))
        /\ WritesLedger(s.writes, s.data, g, At(loc, 7), At(loc, 8))
        /\ ReadsLedger(s.reads, g, Expected(g, loc), Fetched(loc))
        /\ RanksLedger(s.ranks, g, At(loc, 4), At(loc, 5))
        /\ ReturnsLedger(s.returns, g, At(loc, 6))
        /\ Ordered(g, loc) /\ Counted(s, Owed(loc))
        /\ Chain(Undone(s.command, loc), s.store, mem, g) /\ Answered(s.replies, g, P, Owed(loc))
    BY SoundParts
  <2>3. /\ Matches(s, Head(s.returns)) # {}
        /\ i \in DOMAIN s.reads /\ s.reads[i].id = x /\ s.reads[i].value = g[x].value
    BY <1>2, <2>1, <2>2, ReturnMatches
  <2>4. /\ t.returns = Tail(s.returns) /\ t.reads = Without(s.reads, i)
        /\ t.onTheFly = s.onTheFly - 1
        /\ t.replies = s.replies \cup {[id |-> s.reads[i].id, value |-> s.reads[i].value]}
        /\ t.held = s.held /\ t.transactions = s.transactions
        /\ t.queues = s.queues /\ t.command = s.command
        /\ t.data = s.data /\ t.writes = s.writes
        /\ t.ranks = s.ranks /\ t.store = s.store /\ t.fault = s.fault
    BY <1>2, <2>1, <2>3, ReturnReadFields
  <2>5. ReturnsLedger(Tail(s.returns), g, At(loc, 6) \ {x}) /\ x \in At(loc, 6)
    BY <1>2, <2>1, <2>2, ReturnsTail
  <2>6. ReadsLedger(Without(s.reads, i), g, Expected(g, loc) \ {x}, Fetched(loc) \ {x})
    <3> DEFINE q == s.reads
               X == Expected(g, loc)
               F == Fetched(loc)
    <3>1. q \in Seq(Pending) /\ i \in DOMAIN q /\ q[i].id = x /\ ReadsLedger(q, g, X, F)
      BY <2>1, <2>2, <2>3
    <3>2. ReadsLedger(Without(q, i), g, X \ {q[i].id}, F \ {q[i].id})
      <4> HIDE DEF q, X, F, i, x
      <4> QED BY <3>1, ReadsWithout
    <3> QED BY <3>1, <3>2
  <2> HIDE DEF h, x, i, m
  <2>7. x \in Ids /\ loc[x] = 6 BY <2>5 DEF At
  <2>8. /\ m \in [Ids -> 0 .. 9] /\ m[x] = 9 /\ \A id \in Ids : id # x => m[id] = loc[id]
        /\ At(m, 6) = At(loc, 6) \ {x}
        /\ \A k \in 0 .. 9 : k # 6 /\ k # 9 => At(m, k) = At(loc, k)
    BY <2>2, <2>7, MovedSets DEF m
  <2>9. /\ Waits(m) = Waits(loc) /\ Owed(m) = Owed(loc) \ {x} /\ Fetched(m) = Fetched(loc) \ {x}
        /\ Expected(g, m) = Expected(g, loc) \ {x} /\ x \in Owed(loc) /\ Owed(loc) \in SUBSET Ids
        /\ Undone(s.command, m) = Undone(s.command, loc)
    BY <2>7, <2>8 DEF Waits, Owed, Fetched, Expected, InQueue, Free, InRank, InReturns, OnBus, Undone
  <2>10. Ordered(g, m)
    <3>1. \A u, v \in Ids : m[u] = 0 /\ m[v] = 1 => loc[u] = 0 /\ loc[v] = 1 BY <2>8
    <3>2. \A u, v \in Ids : m[u] < m[v] /\ m[v] = 2 => loc[u] < loc[v] /\ loc[v] = 2 BY <2>8
    <3>3. \A u, v \in Ids : m[u] < m[v] /\ m[v] \in 3 .. 6 => loc[u] < loc[v] /\ loc[v] \in 3 .. 6
      BY <2>8
    <3> QED BY <3>1, <3>2, <3>3, <2>2 DEF Ordered, InHeld, InTransactions, InQueue, OnBus, InReturns
  <2>11. Counted(t, Owed(m))
    <3>1. Cardinality(Owed(m)) = Cardinality(Owed(loc)) - 1 BY <2>9, OneFewer
    <3>2. Cardinality(Owed(loc)) \in Nat /\ Len(s.held) \in Nat
      BY <2>1, <2>9, IdsFinite, LenProperties
    <3> QED BY SMTT(20), <3>1, <3>2, <2>1, <2>2, <2>4 DEF Counted
  <2>12. Answered(t.replies, g, P, Owed(m))
    <3>1. t.replies = s.replies \cup {[id |-> x, value |-> g[x].value]} BY <2>3, <2>4
    <3> QED BY <3>1, <2>2, <2>9, AnsweredOneMore
  <2>13. /\ At(m, 0) = At(loc, 0) /\ At(m, 1) = At(loc, 1) /\ At(m, 2) = At(loc, 2)
         /\ At(m, 3) = At(loc, 3) /\ At(m, 4) = At(loc, 4)
         /\ At(m, 5) = At(loc, 5) /\ At(m, 7) = At(loc, 7) /\ At(m, 8) = At(loc, 8)
    BY <2>8
  <2>14. Sound(t, g, m, bars, P, mem)
    <3>1. Listed(t.held, g, bars, At(m, 0)) /\ Listed(t.transactions, g, bars, At(m, 1))
      BY <2>2, <2>4, <2>13
    <3>2. QueuesLedger(t.queues, g, bars, At(m, 2)) /\ ReturnsLedger(t.returns, g, At(m, 6))
      BY <2>2, <2>4, <2>5, <2>8, <2>13
    <3>3. RanksLedger(t.ranks, g, At(m, 4), At(m, 5)) BY <2>2, <2>4, <2>13
    <3>4. WritesLedger(t.writes, t.data, g, At(m, 7), At(m, 8)) BY <2>2, <2>4, <2>13
    <3>5. Chain(Undone(t.command, m), t.store, mem, g) /\ CommandLedger(t.command, g, At(m, 3), Waits(m))
      BY <2>2, <2>4, <2>9, <2>13
    <3>6. ReadsLedger(t.reads, g, Expected(g, m), Fetched(m)) BY <2>4, <2>6, <2>9
    <3> QED BY <2>2, <2>8, <2>10, <2>11, <2>12, <3>1, <3>2, <3>3, <3>4, <3>5, <3>6, SoundFrom
  <2> QED BY <2>3, <2>4, <2>9, <2>14
<1> QED BY <1>1, <1>2

\* The clocks, the states of the banks and the refresh timer leave the ledger alone.
LEMMA StepSound ==
  ASSUME NEW s, Typed(s), NEW t, t = Step(s)
  PROVE  SameLedger(s, t) /\ t.fault = s.fault
<1>1. IsChannel(s) /\ s.ranks \in [Ranks -> RankState] BY DEF Typed, DataTyped
<1>2. /\ t.ranks = [r \in Ranks |-> WaitedRank(s.ranks[r])]
      /\ t.held = s.held /\ t.transactions = s.transactions /\ t.onTheFly = s.onTheFly
      /\ t.queues = s.queues /\ t.command = s.command
      /\ t.data = s.data /\ t.writes = s.writes /\ t.reads = s.reads /\ t.returns = s.returns
      /\ t.store = s.store /\ t.fault = s.fault /\ t.replies = s.replies
  BY <1>1, StepFields
<1>3. \A r \in Ranks : t.ranks[r].reads = s.ranks[r].reads /\ t.ranks[r].out = s.ranks[r].out
  <2> TAKE r \in Ranks
  <2>1. s.ranks[r] \in RankState /\ t.ranks[r] = WaitedRank(s.ranks[r]) BY <1>1, <1>2
  <2> QED BY <2>1, WaitedRankFields
<1> HIDE DEF SameLedger
<1>4. SameLedger(s, t) BY SMTT(20), <1>2, <1>3 DEF SameLedger
<1> QED BY <1>2, <1>4

\* updateBankState touches nothing the ledger is about.
LEMMA SettledSound ==
  ASSUME NEW s, IsChannel(s), NEW t, t = UpdateBankState(s)
  PROVE  SameLedger(s, t) /\ t.fault = s.fault
BY UpdateBankStateFields DEF SameLedger

\* A refresh that becomes due touches nothing the ledger is about.
LEMMA RefreshedSound ==
  ASSUME NEW s, IsChannel(s), NEW t, t = UpdateRefresh(s)
  PROVE  SameLedger(s, t) /\ t.fault = s.fault
BY UpdateRefreshFields DEF SameLedger

\* The callbacks of the update before are over: nothing but what is owed is answered now.
LEMMA ClearedSound ==
  ASSUME NEW s, IsChannel(s), NEW g, NEW loc, NEW bars, NEW P, NEW mem, Sound(s, g, loc, bars, P, mem),
         NEW t, t = [s EXCEPT !.replies = {}]
  PROVE  Sound(t, g, loc, bars, Owed(loc), mem) /\ t.fault = s.fault
<1>1. /\ t.replies = {}
      /\ t.held = s.held /\ t.transactions = s.transactions /\ t.onTheFly = s.onTheFly
      /\ t.queues = s.queues /\ t.command = s.command
      /\ t.data = s.data /\ t.writes = s.writes /\ t.reads = s.reads /\ t.returns = s.returns
      /\ t.ranks = s.ranks /\ t.store = s.store /\ t.fault = s.fault
  BY ClearedFields
<1>2. /\ g \in [Ids -> Request] /\ loc \in [Ids -> 0 .. 9] /\ bars \subseteq Ids
      /\ Listed(s.held, g, bars, At(loc, 0)) /\ Listed(s.transactions, g, bars, At(loc, 1))
      /\ QueuesLedger(s.queues, g, bars, At(loc, 2))
      /\ CommandLedger(s.command, g, At(loc, 3), Waits(loc))
      /\ WritesLedger(s.writes, s.data, g, At(loc, 7), At(loc, 8))
      /\ ReadsLedger(s.reads, g, Expected(g, loc), Fetched(loc))
      /\ RanksLedger(s.ranks, g, At(loc, 4), At(loc, 5))
      /\ ReturnsLedger(s.returns, g, At(loc, 6))
      /\ Ordered(g, loc) /\ Counted(s, Owed(loc))
      /\ Chain(Undone(s.command, loc), s.store, mem, g)
  BY SoundParts
<1>3. Answered(t.replies, g, Owed(loc), Owed(loc))
  <2>1. Owed(loc) \ Owed(loc) = {} /\ Owed(loc) \subseteq Ids BY DEF Owed
  <2>2. {[id |-> id, value |-> g[id].value] : id \in {}} = {} OBVIOUS
  <2> QED BY <1>1, <2>1, <2>2 DEF Answered
<1>4. Counted(t, Owed(loc)) BY <1>1, <1>2 DEF Counted
<1>5. Sound(t, g, loc, bars, Owed(loc), mem) BY <1>1, <1>2, <1>3, <1>4, SoundFrom
<1> QED BY <1>1, <1>5

(* One update of the channel.                                              *)

\* The last write of the data bus has ended when the next one is due.
LEMMA DataFree ==
  ASSUME NEW c, Typed(c), NEW books, WriteBus(c.writes, c.data, books, 1), NEW d, d = DeliverData(c)
  PROVE  d.writes # <<>> /\ d.writes[1].left = 1 => d.data = None
<1>1. d.writes = c.writes BY DeliverDataFields DEF Typed
<1>2. Leaves(c.writes) = 1 => d.data = None BY WritesSent
<1> QED BY <1>1, <1>2 DEF Leaves

\* The command arrives: the rank accepts it, and its book is behind the controller's again.
LEMMA CommandArrives ==
  ASSUME NEW s, Typed(s), BooksAgree(s.banks, s.ranks, s.command),
         NEW r, r = UpdateRanks(s), NEW h, h = MoveHeld(r), NEW b, b = UpdateBankState(h),
         NEW c, c = DeliverCommand(b), Typed(r), Typed(h), Typed(b), Typed(c)
  PROVE  c.fault = s.fault /\ BooksAgree(c.banks, c.ranks, None)
<1>1. /\ IsChannel(s) /\ IsChannel(r) /\ IsChannel(h) /\ IsChannel(b) /\ IsChannel(c)
      /\ s.ranks \in [Ranks -> RankState] /\ s.banks \in [Ranks -> [Banks -> Bank]]
      /\ s.command \in Command \cup {None} /\ b.ranks \in [Ranks -> RankState]
  BY DEF Typed, QueuesTyped, DataTyped
<1>2. /\ r.ranks = [x \in Ranks |-> UpdateRank(s.ranks[x])] /\ r.command = s.command
      /\ r.banks = s.banks /\ r.fault = s.fault
  BY <1>1, UpdateRanksFields
<1>3. h.ranks = r.ranks /\ h.command = r.command /\ h.banks = r.banks /\ h.fault = r.fault
  BY <1>1, MoveHeldFields
<1>4. /\ b.ranks = h.ranks /\ b.command = h.command /\ b.fault = h.fault
      /\ b.banks = [x \in Ranks |-> [y \in Banks |-> Settled(h.banks[x][y])]]
  BY <1>1, UpdateBankStateFields
<1>5. \A x \in Ranks : b.ranks[x].banks = s.ranks[x].banks /\ s.ranks[x].banks \in [Banks -> Bank]
  <2> SUFFICES ASSUME NEW x \in Ranks
               PROVE  b.ranks[x].banks = s.ranks[x].banks /\ s.ranks[x].banks \in [Banks -> Bank]
    OBVIOUS
  <2>1. b.ranks[x] = UpdateRank(s.ranks[x]) /\ s.ranks[x] \in RankState
    BY <1>1, <1>2, <1>3, <1>4
  <2>2. UpdateRank(s.ranks[x]).banks = s.ranks[x].banks BY <2>1, UpdateRankFields
  <2> QED BY <2>1, <2>2 DEF RankState
<1>6. b.command = s.command /\ b.fault = s.fault
      /\ b.banks = [x \in Ranks |-> [y \in Banks |-> Settled(s.banks[x][y])]]
  BY <1>2, <1>3, <1>4
<1>7. /\ c.fault = s.fault /\ c.banks = b.banks
      /\ \A x \in Ranks : c.ranks[x].banks = Arrived(s.ranks[x].banks, x, s.command)
  <2>1. CASE s.command = None
    <3>1. c = b BY <2>1, <1>6, NoCommandToDeliver
    <3> QED BY <2>1, <3>1, <1>5, <1>6 DEF Arrived
  <2>2. CASE s.command # None
    <3>1. b.command.rank \in Ranks /\ b.command = s.command BY <2>2, <1>1, <1>6, CommandFields
    <3>2. RankAccepts(b.ranks[b.command.rank].banks, b.command)
      BY <2>2, <3>1, <1>5 DEF BooksAgree
    <3>3. c.fault = b.fault /\ c.banks = b.banks BY <2>2, <3>1, <3>2, <1>1, DeliverCommandFields
    <3>4. \A x \in Ranks : c.ranks[x].banks = Arrived(b.ranks[x].banks, x, b.command)
      BY <2>2, <3>1, <1>1, DeliverCommandRanks
    <3> QED BY <3>1, <3>3, <3>4, <1>5, <1>6
  <2> QED BY <2>1, <2>2
<1>8. BooksAgree([x \in Ranks |-> [y \in Banks |-> Settled(s.banks[x][y])]], c.ranks, None)
  <2> DEFINE books == s.banks
             ranks == s.ranks
             z == s.command
             ranks2 == c.ranks
  <2>1. /\ books \in [Ranks -> [Banks -> Bank]] /\ RankBanks(ranks) /\ z \in Command \cup {None}
        /\ BooksAgree(books, ranks, z)
        /\ \A x \in Ranks : ranks2[x].banks = Arrived(ranks[x].banks, x, z)
    BY <1>1, <1>5, <1>7 DEF RankBanks
  <2>2. BooksAgree([x \in Ranks |-> [y \in Banks |-> Settled(books[x][y])]], ranks2, None)
    <3> HIDE DEF books, ranks, z, ranks2
    <3> QED BY <2>1, BooksArrive
  <2> QED BY <2>2
<1> QED BY <1>6, <1>7, <1>8

\* From the ranks to the data bus.
LEMMA Advanced ==
  ASSUME NEW s, Typed(s), BooksAgree(s.banks, s.ranks, s.command), Bus(s, 1),
         NEW g, NEW loc, NEW bars, NEW P, NEW mem, Sound(s, g, loc, bars, P, mem),
         NEW r, r = UpdateRanks(s), NEW h, h = MoveHeld(r), NEW b, b = UpdateBankState(h),
         NEW c, c = DeliverCommand(b), NEW d, d = DeliverData(c), NEW w, w = SendData(d)
  PROVE  /\ Typed(w) /\ w.command = None /\ w.fault = s.fault
         /\ BooksAgree(w.banks, w.ranks, None) /\ Bus(w, 0)
         /\ w.held # <<>> => w.transactions # <<>>
         /\ \E m : Sound(w, g, m, bars, P, mem) /\ Waits(m) = Waits(loc)
<1>1. Typed(r) BY UpdateRanksTyped
<1>2. Typed(h) BY <1>1, MoveHeldTyped
<1>3. Typed(b) BY <1>2, UpdateBankStateTyped
<1>4. Typed(c) BY <1>3, DeliverCommandTyped
<1>5. Typed(d) BY <1>4, DeliverDataTyped
<1>6. Typed(w) BY <1>5, SendDataTyped
<1>7. Bus(w, 0) /\ w.fault = c.fault /\ w.command = None BY BusAdvanced
<1>8. c.fault = s.fault /\ BooksAgree(c.banks, c.ranks, None)
  BY <1>1, <1>2, <1>3, <1>4, CommandArrives
<1>9. w.banks = c.banks /\ w.ranks = c.ranks /\ w.held = h.held /\ w.transactions = h.transactions
  <2>1. IsChannel(h) /\ IsChannel(b) /\ IsChannel(c) /\ IsChannel(d)
    BY <1>2, <1>3, <1>4, <1>5 DEF Typed
  <2>2. b.held = h.held /\ b.transactions = h.transactions BY <2>1, UpdateBankStateFields
  <2>3. c.held = b.held /\ c.transactions = b.transactions
    BY <2>1, NoCommandToDeliver, DeliverCommandFields
  <2>4. d.held = c.held /\ d.transactions = c.transactions /\ d.banks = c.banks /\ d.ranks = c.ranks
    BY <2>1, DeliverDataFields
  <2>5. w.held = d.held /\ w.transactions = d.transactions /\ w.banks = d.banks /\ w.ranks = d.ranks
    BY <2>1, SendDataFields
  <2> QED BY <2>2, <2>3, <2>4, <2>5
<1>10. WriteBus(c.writes, c.data, s.banks, 1)
  <2>1. IsChannel(s) /\ IsChannel(r) /\ IsChannel(h) /\ IsChannel(b)
    BY <1>1, <1>2, <1>3 DEF Typed
  <2>2. r.writes = s.writes /\ r.data = s.data BY <2>1, UpdateRanksFields
  <2>3. h.writes = r.writes /\ h.data = r.data BY <2>1, MoveHeldFields
  <2>4. b.writes = h.writes /\ b.data = h.data BY <2>1, UpdateBankStateFields
  <2>5. c.writes = b.writes /\ c.data = b.data BY <2>1, NoCommandToDeliver, DeliverCommandFields
  <2>6. WriteBus(s.writes, s.data, s.banks, 1) BY DEF Bus
  <2> QED BY <2>2, <2>3, <2>4, <2>5, <2>6
<1>11. d.writes # <<>> /\ d.writes[1].left = 1 => d.data = None BY <1>4, <1>10, DataFree
<1>12. PICK m1 : Sound(r, g, m1, bars, P, mem) /\ Waits(m1) = Waits(loc)
  BY BusExclusive, UpdateRanksSound
<1>13. /\ \E m : Sound(h, g, m, bars, P, mem) /\ Waits(m) = Waits(m1)
       /\ h.held # <<>> => h.transactions # <<>>
  BY <1>1, <1>12, MoveHeldSound
<1>14. PICK m2 : Sound(h, g, m2, bars, P, mem) /\ Waits(m2) = Waits(m1) BY <1>13
<1>15. Sound(b, g, m2, bars, P, mem) BY <1>2, <1>14, SettledSound, SoundKept DEF Typed
<1>16. PICK m3 : Sound(c, g, m3, bars, P, mem) /\ Waits(m3) = Waits(m2)
  BY <1>3, <1>15, DeliverCommandSound
<1>17. PICK m4 : Sound(d, g, m4, bars, P, mem) /\ Waits(m4) = Waits(m3)
  BY <1>4, <1>16, DeliverDataSound
<1>18. PICK m5 : Sound(w, g, m5, bars, P, mem) /\ Waits(m5) = Waits(m4)
  BY <1>5, <1>11, <1>17, SendDataSound
<1> QED BY <1>6, <1>7, <1>8, <1>9, <1>12, <1>13, <1>14, <1>16, <1>17, <1>18

\* A write on the command bus has its data to send; what is held back has something before it.
Aboard(s) == s.command # None /\ s.command.kind = "WRITE" => s.command.id \in IdsOf(s.writes)
Backed(s) == s.held # <<>> => s.transactions # <<>> \/ \E r \in Ranks : s.queues[r] # <<>>

\* The buses of u are those of i, its banks are a cycle on.
Clocked(i, u) ==
  /\ u.command = i.command /\ u.writes = i.writes /\ u.data = i.data
  /\ \A r \in Ranks : /\ u.ranks[r].reads = i.ranks[r].reads /\ u.ranks[r].out = i.ranks[r].out
                       /\ u.ranks[r].banks = [b \in Banks |-> Waited(i.ranks[r].banks[b])]
  /\ u.banks = [r \in Ranks |-> [b \in Banks |-> Waited(i.banks[r][b])]]

\* What the controller issues keeps the books and the bus.
LEMMA IssuedBooks ==
  ASSUME NEW f, Typed(f), f.command = None, BooksAgree(f.banks, f.ranks, None), Bus(f, 0),
         NEW i, Issues(f, i), NEW u, Clocked(i, u)
  PROVE  /\ i.fault = f.fault /\ i.held = f.held /\ i.transactions = f.transactions
         /\ BooksAgree(u.banks, u.ranks, u.command) /\ Bus(u, 1) /\ Aboard(u)
<1> USE DEF Clocked
<1>1. /\ f.banks \in [Ranks -> [Banks -> Bank]] /\ RankBanks(f.ranks) /\ f.writes \in Seq(WriteData)
  <2>1. f.banks \in [Ranks -> [Banks -> Bank]] /\ f.ranks \in [Ranks -> RankState] /\ f.writes \in Seq(WriteData)
    BY DEF Typed, QueuesTyped, DataTyped
  <2> QED BY <2>1 DEF RankBanks, RankState
<1>2. CASE Popped(f, i, f.queues)
  <2>1. /\ i.fault = f.fault /\ i.held = f.held /\ i.transactions = f.transactions /\ i.banks = f.banks
        /\ i.ranks = f.ranks /\ i.command = None /\ i.writes = f.writes /\ i.data = f.data
    BY <1>2 DEF Popped
  <2>2. u.command = None /\ u.writes = f.writes /\ SameBursts(f, u) BY <2>1 DEF SameBursts
  <2>3. \A r \in Ranks, b \in Banks : u.banks[r][b] = Waited(f.banks[r][b]) BY <2>1
  <2>4. Bus(u, 1) BY <2>2, <2>3, BusWaited
  <2>5. BooksAgree([r \in Ranks |-> [b \in Banks |-> Waited(f.banks[r][b])]], u.ranks, None)
    <3> DEFINE books == f.banks
               ranks == f.ranks
               z == u.ranks
    <3>1. /\ books \in [Ranks -> [Banks -> Bank]] /\ RankBanks(ranks) /\ BooksAgree(books, ranks, None)
          /\ RanksWait(ranks, z)
      BY <1>1, <2>1 DEF RanksWait
    <3>2. BooksAgree([r \in Ranks |-> [b \in Banks |-> Waited(books[r][b])]], z, None)
      <4> HIDE DEF books, ranks, z
      <4> QED BY <3>1, BooksWait
    <3> QED BY <3>2
  <2>6. Aboard(u) BY <2>2 DEF Aboard
  <2> QED BY <2>1, <2>2, <2>4, <2>5, <2>6
<1>3. ASSUME NEW c \in Command, c # None, Allowed(f.banks, c), NEW q, Issued(f, i, c, q),
             c.kind \in {"READ", "WRITE"} => c.id \in Ids /\ c.rank \in Ranks /\ c.value \in Values
      PROVE  /\ i.fault = f.fault /\ i.held = f.held /\ i.transactions = f.transactions
             /\ BooksAgree(u.banks, u.ranks, u.command) /\ Bus(u, 1) /\ Aboard(u)
  <2> DEFINE y == [id |-> c.id, rank |-> c.rank, value |-> c.value, left |-> Timing.WL]
  <2>1. /\ i.fault = f.fault /\ i.held = f.held /\ i.transactions = f.transactions
        /\ i.banks = ControllerAfter(f.banks, c)
        /\ i.ranks = f.ranks /\ i.command = c /\ i.data = f.data
        /\ i.writes = IF c.kind = "WRITE" THEN Append(f.writes, y) ELSE f.writes
    BY <1>3 DEF Issued
  <2>2. SameBursts(f, u) /\ u.command = c BY <2>1 DEF SameBursts
  <2>3. \A r \in Ranks, b \in Banks : u.banks[r][b] = Waited(ControllerBank(f.banks[r][b], r, b, c))
    BY <2>1 DEF ControllerAfter
  <2>4. Bus(u, 1) BY <1>3, <2>1, <2>2, <2>3, BusIssued
  <2>5. BooksAgree(u.banks, u.ranks, c)
    <3> DEFINE books == f.banks
               ranks == f.ranks
               z == u.ranks
    <3>1. /\ books \in [Ranks -> [Banks -> Bank]] /\ RankBanks(ranks) /\ BooksAgree(books, ranks, None)
          /\ Allowed(books, c) /\ c \in Command
          /\ RanksWait(ranks, z)
      BY <1>1, <1>3, <2>1 DEF RanksWait
    <3>2. BooksAgree([r \in Ranks |-> [b \in Banks |-> Waited(ControllerAfter(books, c)[r][b])]], z, c)
      <4> HIDE DEF books, ranks, z
      <4> QED BY <3>1, BooksIssue
    <3> QED BY <3>2, <2>1
  <2>6. Aboard(u)
    <3> SUFFICES ASSUME c.kind = "WRITE" PROVE c.id \in IdsOf(u.writes) BY <2>2 DEF Aboard
    <3>1. u.writes = Append(f.writes, y) BY <2>1
    <3>2. IdsOf(Append(f.writes, y)) = IdsOf(f.writes) \cup {y.id} BY <1>1, AppendIds
    <3> QED BY <3>1, <3>2
  <2> QED BY <2>1, <2>2, <2>4, <2>5, <2>6
<1>4. CASE IssuesBare(f, i)
  <2>1. PICK c \in BareCommand : Allowed(f.banks, c) /\ Issued(f, i, c, f.queues)
    BY <1>4 DEF IssuesBare
  <2>2. c \in Command /\ c # None /\ c.kind \notin {"READ", "WRITE"}
    BY NoneApart DEF Command, BareCommand
  <2> QED BY <2>1, <2>2, <1>3
<1>5. ASSUME NEW r \in Ranks, NEW k \in Nat, IssuesColumn(f, i, r, k)
      PROVE  /\ i.fault = f.fault /\ i.held = f.held /\ i.transactions = f.transactions
             /\ BooksAgree(u.banks, u.ranks, u.command) /\ Bus(u, 1) /\ Aboard(u)
  <2> DEFINE c == f.queues[r][k]
             q == [f.queues EXCEPT ![r] = Without(f.queues[r], k)]
  <2>1. k \in DOMAIN f.queues[r] /\ Allowed(f.banks, c) /\ Issued(f, i, c, q)
    BY <1>5 DEF IssuesColumn
  <2>2. c \in Located BY <2>1, QueueMembers DEF Typed
  <2>3. c \in Command /\ c # None /\ c.id \in Ids /\ c.rank \in Ranks /\ c.value \in Values
    BY <2>2, NoneApart DEF Command, Located, ColumnCommand
  <2> HIDE DEF c, q
  <2> QED BY <2>1, <2>3, <1>3
<1> QED BY <1>2, <1>4, <1>5 DEF Issues

\* From the command queue to the clocks.
LEMMA Completed ==
  ASSUME NEW w, Typed(w), w.command = None, BooksAgree(w.banks, w.ranks, None), Bus(w, 0),
         w.held # <<>> => w.transactions # <<>>, refresh.rank \in Ranks,
         NEW g, NEW loc, NEW bars, NEW P, NEW mem, Sound(w, g, loc, bars, P, mem),
         NEW f, f = UpdateRefresh(w), NEW i, i = IssueCommand(Pop(f)),
         NEW q, q = UpdateTransactionQueue(i), NEW r, r = ReturnRead(q), NEW u, u = Step(r)
  PROVE  /\ Typed(u) /\ u.fault = w.fault /\ BooksAgree(u.banks, u.ranks, u.command) /\ Bus(u, 1)
         /\ Aboard(u) /\ Backed(u)
         /\ \E m : Sound(u, g, m, bars, P, mem) /\ Passed(g, bars, Waits(loc), Waits(m))
<1>1. Typed(f) /\ IsChannel(w) /\ IsChannel(f) BY UpdateRefreshTyped DEF Typed
<1>2. /\ f.command = None /\ f.banks = w.banks /\ f.ranks = w.ranks /\ f.writes = w.writes
      /\ f.data = w.data /\ f.held = w.held /\ f.transactions = w.transactions /\ f.fault = w.fault
  BY <1>1, UpdateRefreshFields
<1>3. Sound(f, g, loc, bars, P, mem) BY <1>1, RefreshedSound, SoundKept
<1>4. BooksAgree(f.banks, f.ranks, None) /\ Bus(f, 0)
  <2>1. Bus(f, 0) BY <1>2 DEF Bus
  <2> QED BY <2>1, <1>2
<1>5. Issues(f, i) /\ Typed(i) BY <1>1, <1>2, IssueGives, IssuesTyped DEF Typed
<1>6. PICK m1 : Sound(i, g, m1, bars, P, mem) /\ Passed(g, bars, Waits(loc), Waits(m1))
  BY <1>1, <1>2, <1>3, <1>5, IssueSound
<1>7. /\ q = i \/ \E k \in DOMAIN i.transactions : Taken(i, q, k)
      /\ \E m : Sound(q, g, m, bars, P, mem) /\ Waits(m) = Waits(m1)
      /\ i.transactions # <<>> => q.transactions # <<>> \/ \E x \in Ranks : q.queues[x] # <<>>
  BY <1>5, <1>6, TransactionSound
<1>8. Typed(q) BY <1>5, <1>7, TakenTyped
<1>9. PICK m2 : Sound(q, g, m2, bars, P, mem) /\ Waits(m2) = Waits(m1) BY <1>7
<1>10. /\ q.fault = i.fault /\ q.held = i.held /\ q.command = i.command /\ q.writes = i.writes
       /\ q.data = i.data /\ q.ranks = i.ranks /\ q.banks = i.banks
  BY <1>7 DEF Taken
<1>11. /\ q.returns # <<>> => Matches(q, Head(q.returns)) # {}
       /\ r.fault = q.fault /\ r.held = q.held /\ r.transactions = q.transactions /\ r.queues = q.queues
       /\ \E m : Sound(r, g, m, bars, P, mem) /\ Waits(m) = Waits(m2)
  BY <1>8, <1>9, ReturnReadSound
<1>12. Typed(r) BY <1>8, <1>11, ReturnReadTyped
<1>13. r.command = q.command /\ r.writes = q.writes /\ r.data = q.data /\ r.ranks = q.ranks /\ r.banks = q.banks
  <2>1. CASE q.returns = <<>> BY <2>1 DEF ReturnRead
  <2>2. CASE q.returns # <<>> BY <2>2, <1>8, <1>11, ReturnReadFields DEF Typed
  <2> QED BY <2>1, <2>2
<1>14. PICK m3 : Sound(r, g, m3, bars, P, mem) /\ Waits(m3) = Waits(m2) BY <1>11
<1>15. Typed(u) /\ IsChannel(r) /\ r.ranks \in [Ranks -> RankState]
  <2>1. Typed(u) BY <1>12, StepTyped
  <2> QED BY <2>1, <1>12 DEF Typed, DataTyped
<1>16. SameLedger(r, u) /\ u.fault = r.fault BY <1>12, StepSound
<1>17. Sound(u, g, m3, bars, P, mem) BY <1>14, <1>16, SoundKept
<1>18. /\ u.banks = [x \in Ranks |-> [b \in Banks |-> Waited(r.banks[x][b])]]
       /\ u.ranks = [x \in Ranks |-> WaitedRank(r.ranks[x])]
       /\ u.held = r.held /\ u.transactions = r.transactions /\ u.queues = r.queues
       /\ u.command = r.command /\ u.writes = r.writes /\ u.data = r.data
  BY <1>15, StepFields
<1>19. \A x \in Ranks : /\ u.ranks[x].reads = i.ranks[x].reads /\ u.ranks[x].out = i.ranks[x].out
                        /\ u.ranks[x].banks = [b \in Banks |-> Waited(i.ranks[x].banks[b])]
  <2> SUFFICES ASSUME NEW x \in Ranks
               PROVE  /\ u.ranks[x].reads = i.ranks[x].reads /\ u.ranks[x].out = i.ranks[x].out
                      /\ u.ranks[x].banks = [b \in Banks |-> Waited(i.ranks[x].banks[b])]
    OBVIOUS
  <2>1. u.ranks[x] = WaitedRank(r.ranks[x]) /\ r.ranks[x] \in RankState BY <1>15, <1>18
  <2>2. r.ranks[x] = i.ranks[x] BY <1>10, <1>13
  <2> QED BY <2>1, <2>2, WaitedRankFields
<1>20. u.banks = [x \in Ranks |-> [b \in Banks |-> Waited(i.banks[x][b])]]
  BY <1>10, <1>13, <1>18
<1>21. u.command = i.command /\ u.writes = i.writes /\ u.data = i.data BY <1>10, <1>13, <1>18
<1>22. /\ i.fault = f.fault /\ i.held = f.held /\ i.transactions = f.transactions
       /\ BooksAgree(u.banks, u.ranks, u.command) /\ Bus(u, 1) /\ Aboard(u)
  <2>1. Clocked(i, u) BY <1>19, <1>20, <1>21 DEF Clocked
  <2> QED BY <2>1, <1>1, <1>2, <1>4, <1>5, IssuedBooks
<1>23. Backed(u) BY <1>2, <1>7, <1>10, <1>11, <1>18, <1>22 DEF Backed
<1>24. Passed(g, bars, Waits(loc), Waits(m3)) BY <1>6, <1>9, <1>14
<1>25. u.fault = w.fault BY <1>2, <1>10, <1>11, <1>16, <1>22
<1> QED BY <1>15, <1>17, <1>22, <1>23, <1>24, <1>25

\* The replies of the update before are no part of the books or the bus.
LEMMA ClearedParts ==
  ASSUME NEW s, Typed(s), BooksAgree(s.banks, s.ranks, s.command), Bus(s, 1),
         NEW q, q = [s EXCEPT !.replies = {}]
  PROVE  Typed(q) /\ BooksAgree(q.banks, q.ranks, q.command) /\ Bus(q, 1) /\ q.fault = s.fault
<1>1. Typed(q) BY ClearedTyped
<1>2. /\ q.banks = s.banks /\ q.ranks = s.ranks /\ q.command = s.command /\ q.writes = s.writes
      /\ q.data = s.data /\ q.fault = s.fault
  BY ClearedFields DEF Typed
<1>3. Bus(q, 1) BY <1>2 DEF Bus
<1> QED BY <1>1, <1>2, <1>3

\* One update: nothing goes wrong, no request is lost, and barriers are not passed.
LEMMA UpdateSound ==
  ASSUME NEW s, Typed(s), BooksAgree(s.banks, s.ranks, s.command), Bus(s, 1), refresh.rank \in Ranks,
         NEW g, NEW loc, NEW bars, NEW P, NEW mem, Sound(s, g, loc, bars, P, mem),
         NEW u, Update(s, u)
  PROVE  /\ Typed(u) /\ u.fault = s.fault /\ BooksAgree(u.banks, u.ranks, u.command) /\ Bus(u, 1)
         /\ Aboard(u) /\ Backed(u)
         /\ \E m : Sound(u, g, m, bars, Owed(loc), mem) /\ Passed(g, bars, Waits(loc), Waits(m))
<1> DEFINE a == [s EXCEPT !.replies = {}]
           r == UpdateRanks(a)
           h == MoveHeld(r)
           b == UpdateBankState(h)
           c == DeliverCommand(b)
           d == DeliverData(c)
           w == SendData(d)
           f == UpdateRefresh(w)
           i == IssueCommand(Pop(f))
           q == UpdateTransactionQueue(i)
           t == ReturnRead(q)
<1>1. u = Step(t) BY DEF Update, UpdateController
<1>2. a = [s EXCEPT !.replies = {}] OBVIOUS
<1>3. /\ r = UpdateRanks(a) /\ h = MoveHeld(r) /\ b = UpdateBankState(h) /\ c = DeliverCommand(b)
      /\ d = DeliverData(c) /\ w = SendData(d)
  OBVIOUS
<1>4. /\ f = UpdateRefresh(w) /\ i = IssueCommand(Pop(f)) /\ q = UpdateTransactionQueue(i)
      /\ t = ReturnRead(q)
  OBVIOUS
<1> HIDE DEF t, q, i, f, w, d, c, b, h, r, a
<1>5. Typed(a) /\ BooksAgree(a.banks, a.ranks, a.command) /\ Bus(a, 1) /\ a.fault = s.fault
  BY <1>2, ClearedParts
<1>6. Sound(a, g, loc, bars, Owed(loc), mem) BY <1>2, ClearedSound DEF Typed
<1>7. /\ Typed(w) /\ w.command = None /\ w.fault = a.fault
      /\ BooksAgree(w.banks, w.ranks, None) /\ Bus(w, 0)
      /\ w.held # <<>> => w.transactions # <<>>
      /\ \E m : Sound(w, g, m, bars, Owed(loc), mem) /\ Waits(m) = Waits(loc)
  BY <1>3, <1>5, <1>6, Advanced
<1>8. PICK m : Sound(w, g, m, bars, Owed(loc), mem) /\ Waits(m) = Waits(loc) BY <1>7
<1>9. /\ Typed(u) /\ u.fault = w.fault /\ BooksAgree(u.banks, u.ranks, u.command) /\ Bus(u, 1)
      /\ Aboard(u) /\ Backed(u)
      /\ \E n : Sound(u, g, n, bars, Owed(loc), mem) /\ Passed(g, bars, Waits(m), Waits(n))
  BY <1>1, <1>4, <1>7, <1>8, Completed
<1> QED BY <1>5, <1>7, <1>8, <1>9

(* A new request: g and bars change at an id that is free, so that each    *)
(* part of the ledger keeps what it says of its own ids.                   *)

SameOn(S, g, h, bars, bars2) == \A id \in S : h[id] = g[id] /\ (id \in bars2 <=> id \in bars)

\* A list of transactions depends on the requests of its own ids only.
LEMMA ListedSame ==
  ASSUME NEW q, NEW g, NEW h, NEW bars, NEW bars2, NEW S, Listed(q, g, bars, S), SameOn(S, g, h, bars, bars2)
  PROVE  Listed(q, h, bars2, S)
<1>1. \A i \in DOMAIN q : q[i].id \in S BY DEF Listed, IdsOf
<1>2. \A i \in DOMAIN q : h[q[i].id] = g[q[i].id] /\ (q[i].id \in bars2 <=> q[i].id \in bars)
  BY <1>1 DEF SameOn
<1>3. \A i \in DOMAIN q : Ticket(q[i], h, bars2)
  <2> SUFFICES ASSUME NEW i \in DOMAIN q PROVE Ticket(q[i], h, bars2) OBVIOUS
  <2>1. Ticket(q[i], g, bars) BY DEF Listed
  <2> QED BY <2>1, <1>2 DEF Ticket
<1>4. Sorted(q, h) /\ IdsOf(q) = S BY <1>2 DEF Listed, Sorted
<1> QED BY <1>3, <1>4 DEF Listed

\* The queues depend on the requests of their own ids only.
LEMMA QueuesSame ==
  ASSUME NEW queues, NEW g, NEW h, NEW bars, NEW bars2, NEW S, QueuesLedger(queues, g, bars, S),
         SameOn(S, g, h, bars, bars2)
  PROVE  QueuesLedger(queues, h, bars2, S)
<1> SUFFICES ASSUME NEW r \in Ranks PROVE Queued(queues[r], h, bars2, To(S, r, h))
  BY DEF QueuesLedger
<1> DEFINE q == queues[r]
<1>1. Queued(q, g, bars, To(S, r, g)) BY DEF QueuesLedger
<1>2. To(S, r, h) = To(S, r, g) BY DEF To, SameOn
<1> HIDE DEF q
<1>3. \A i \in DOMAIN q : q[i].id \in S BY <1>1 DEF Queued, IdsOf, To
<1>4. \A i \in DOMAIN q : h[q[i].id] = g[q[i].id] /\ (q[i].id \in bars2 <=> q[i].id \in bars)
  BY <1>3 DEF SameOn
<1>5. \A i \in DOMAIN q : Order(q[i], h) /\ q[i].bar = (q[i].id \in bars2)
  <2> SUFFICES ASSUME NEW i \in DOMAIN q PROVE Order(q[i], h) /\ q[i].bar = (q[i].id \in bars2)
    OBVIOUS
  <2>1. Order(q[i], g) /\ q[i].bar = (q[i].id \in bars) BY <1>1 DEF Queued
  <2> QED BY <2>1, <1>4 DEF Order
<1>6. Sorted(q, h) /\ IdsOf(q) = To(S, r, g) BY <1>1, <1>4 DEF Queued, Sorted
<1>7. Queued(q, h, bars2, To(S, r, h)) BY <1>2, <1>5, <1>6 DEF Queued
<1> QED BY <1>7 DEF q

\* The write data depends on the requests of its own ids only.
LEMMA WritesSame ==
  ASSUME NEW w, NEW d, NEW g, NEW h, NEW M, NEW D, WritesLedger(w, d, g, M, D),
         \A id \in M \cup D : h[id] = g[id]
  PROVE  WritesLedger(w, d, h, M, D)
BY DEF WritesLedger

\* The pending reads depend on the requests of their own ids only.
LEMMA ReadsSame ==
  ASSUME NEW q, NEW g, NEW h, NEW X, NEW F, ReadsLedger(q, g, X, F), \A id \in X : h[id] = g[id]
  PROVE  ReadsLedger(q, h, X, F)
<1>1. \A i \in DOMAIN q : q[i].id \in X BY DEF ReadsLedger, IdsOf
<1>2. \A i \in DOMAIN q : h[q[i].id] = g[q[i].id] BY <1>1
<1> QED BY <1>2 DEF ReadsLedger, Matching, Apart, After

\* The returns depend on the requests of their own ids only.
LEMMA ReturnsSame ==
  ASSUME NEW q, NEW g, NEW h, NEW S, ReturnsLedger(q, g, S), \A id \in S : h[id] = g[id]
  PROVE  ReturnsLedger(q, h, S)
<1>1. \A i \in DOMAIN q : q[i].id \in S BY DEF ReturnsLedger, IdsOf
<1>2. \A i \in DOMAIN q : h[q[i].id] = g[q[i].id] BY <1>1
<1> QED BY <1>2 DEF ReturnsLedger, Matching, Apart, After

\* The ranks depend on the requests of their own ids only.
LEMMA RanksSame ==
  ASSUME NEW ranks, NEW g, NEW h, NEW A, NEW B, RanksLedger(ranks, g, A, B),
         \A id \in A \cup B : h[id] = g[id]
  PROVE  RanksLedger(ranks, h, A, B)
<1> SUFFICES ASSUME NEW r \in Ranks
             PROVE  RankLedger(ranks[r].reads, ranks[r].out, h, To(A, r, h), To(B, r, h))
  BY DEF RanksLedger
<1> DEFINE q == ranks[r].reads
           o == ranks[r].out
<1>1. RankLedger(q, o, g, To(A, r, g), To(B, r, g)) BY DEF RanksLedger
<1>2. To(A, r, h) = To(A, r, g) /\ To(B, r, h) = To(B, r, g) BY DEF To
<1> HIDE DEF q, o
<1>3. \A i \in DOMAIN q : q[i].read.id \in A BY <1>1 DEF RankLedger, BurstIds, To
<1>4. o # None => o.read.id \in B BY <1>1 DEF RankLedger, To
<1>5. (\A i \in DOMAIN q : h[q[i].read.id] = g[q[i].read.id]) /\ (o # None => h[o.read.id] = g[o.read.id])
  BY <1>3, <1>4
<1>6. RankLedger(q, o, h, To(A, r, g), To(B, r, g))
  BY <1>1, <1>5 DEF RankLedger, Matching, BurstsApart, After
<1> QED BY <1>2, <1>6 DEF q, o

\* A read that is new sees what the client was promised; a write that is new becomes it.
Asked(U, x, g, h, store, mem, mem2, p) ==
  /\ U \in SUBSET Ids /\ x \in Ids /\ x \notin U /\ g \in [Ids -> Request] /\ h \in [Ids -> Request]
  /\ \A z \in U : h[z] = g[z] /\ h[z].stamp < h[x].stamp
  /\ mem \in [Places -> Values] /\ Chain(U, store, mem, g)
  /\ p = h[x].place /\ (~h[x].write => h[x].value = mem[p]) /\ mem2 = [mem EXCEPT ![p] = h[x].value]

\* The youngest request reads what all the others leave at its place.
LEMMA ChainSubmit ==
  ASSUME NEW U, NEW x, NEW g, NEW h, NEW store, NEW mem, NEW mem2, NEW p,
         Asked(U, x, g, h, store, mem, mem2, p)
  PROVE  Chain(U \cup {x}, store, mem2, h)
<1> USE DEF Asked
<1>1. /\ \A z \in U \cup {x} : h[z].stamp \in Nat /\ h[z].place \in Places
      /\ p \in Places
  BY GhostFields
<1>2. \A z \in U : \A r : WriteTo(z, r, h) <=> WriteTo(z, r, g) BY DEF WriteTo
<1>3. /\ \A r \in Places : r # p => mem2[r] = mem[r]
      /\ mem2[p] = h[x].value
      /\ ~h[x].write => \A r \in Places : mem2[r] = mem[r]
  BY <1>1
<1>4. ReadsStore(U \cup {x}, store, h)
  <2> SUFFICES ASSUME NEW y \in U \cup {x}, ~h[y].write,
                      \A z \in U \cup {x} : WriteTo(z, h[y].place, h) => h[y].stamp <= h[z].stamp
               PROVE  h[y].value = store[h[y].place]
    BY DEF ReadsStore
  <2>1. CASE y = x
    <3>1. \A z \in U : ~WriteTo(z, p, g)
      <4> SUFFICES ASSUME NEW z \in U, WriteTo(z, p, h) PROVE FALSE BY <1>2
      <4>1. h[x].stamp <= h[z].stamp /\ h[z].stamp < h[x].stamp BY <2>1
      <4> QED BY <4>1, <1>1
    <3>2. mem[p] = store[p] BY <1>1, <3>1 DEF Chain, StoreKept
    <3> QED BY <2>1, <3>2
  <2>2. CASE y # x
    <3>1. y \in U /\ h[y] = g[y] BY <2>2
    <3>2. \A z \in U : WriteTo(z, g[y].place, g) => g[y].stamp <= g[z].stamp BY <3>1, <1>2
    <3> QED BY <3>1, <3>2 DEF Chain, ReadsStore
  <2> QED BY <2>1, <2>2
<1>5. ReadsWrite(U \cup {x}, h)
  <2> SUFFICES ASSUME NEW u \in U \cup {x}, NEW y \in U \cup {x}, WriteTo(u, h[y].place, h), ~h[y].write,
                      h[u].stamp < h[y].stamp, Quiet(U \cup {x}, u, y, h)
               PROVE  h[y].value = h[u].value
    BY DEF ReadsWrite
  <2>1. u # x
    <3> SUFFICES ASSUME u = x PROVE FALSE OBVIOUS
    <3>1. y # x BY <1>1
    <3>2. y \in U BY <3>1
    <3>3. h[y].stamp < h[x].stamp BY <3>2
    <3> QED BY <3>3, <1>1
  <2>2. u \in U /\ h[u] = g[u] BY <2>1
  <2>3. CASE y = x
    <3>1. \A z \in U : WriteTo(z, g[u].place, g) => g[z].stamp <= g[u].stamp
      <4> SUFFICES ASSUME NEW z \in U, WriteTo(z, g[u].place, g) PROVE g[z].stamp <= g[u].stamp
        OBVIOUS
      <4>1. g[u].place = h[x].place BY <2>2, <2>3 DEF WriteTo
      <4>2. WriteTo(z, h[y].place, h) BY <4>1, <1>2, <2>3
      <4>3. h[z].stamp <= h[u].stamp \/ h[x].stamp <= h[z].stamp BY <4>2, <2>3 DEF Quiet
      <4>4. h[z].stamp < h[x].stamp /\ h[z] = g[z] OBVIOUS
      <4> QED BY <4>3, <4>4, <1>1, <2>2
    <3>2. mem[g[u].place] = g[u].value BY <2>2, <3>1 DEF Chain, LastWrite, WriteTo
    <3> QED BY <2>2, <2>3, <3>2 DEF WriteTo
  <2>4. CASE y # x
    <3>1. y \in U /\ h[y] = g[y] BY <2>4
    <3>2. WriteTo(u, g[y].place, g) /\ ~g[y].write /\ g[u].stamp < g[y].stamp
      BY <2>2, <3>1, <1>2
    <3>3. Quiet(U, u, y, g)
      <4> SUFFICES ASSUME NEW z \in U, WriteTo(z, g[y].place, g)
                   PROVE  g[z].stamp <= g[u].stamp \/ g[y].stamp <= g[z].stamp
        BY DEF Quiet
      <4>1. WriteTo(z, h[y].place, h) /\ h[z] = g[z] BY <3>1, <1>2
      <4>2. h[z].stamp <= h[u].stamp \/ h[y].stamp <= h[z].stamp BY <4>1 DEF Quiet
      <4> QED BY <4>1, <4>2, <2>2, <3>1
    <3> QED BY <2>2, <3>1, <3>2, <3>3 DEF Chain, ReadsWrite
  <2> QED BY <2>3, <2>4
<1>6. StoreKept(U \cup {x}, store, mem2, h)
  <2> SUFFICES ASSUME NEW r \in Places, \A z \in U \cup {x} : ~WriteTo(z, r, h) PROVE mem2[r] = store[r]
    BY DEF StoreKept
  <2>1. \A z \in U : ~WriteTo(z, r, g) BY <1>2
  <2>2. mem[r] = store[r] BY <2>1 DEF Chain, StoreKept
  <2>3. r # p \/ ~h[x].write BY DEF WriteTo
  <2> QED BY <2>2, <2>3, <1>3
<1>7. LastWrite(U \cup {x}, mem2, h)
  <2> SUFFICES ASSUME NEW u \in U \cup {x}, h[u].write,
                      \A z \in U \cup {x} : WriteTo(z, h[u].place, h) => h[z].stamp <= h[u].stamp
               PROVE  mem2[h[u].place] = h[u].value
    BY DEF LastWrite
  <2>1. CASE u = x BY <2>1, <1>3
  <2>2. CASE u # x
    <3>1. u \in U /\ h[u] = g[u] /\ h[u].stamp < h[x].stamp BY <2>2
    <3>2. ~WriteTo(x, h[u].place, h) BY <3>1, <1>1
    <3>3. mem2[h[u].place] = mem[h[u].place] BY <3>2, <1>1, <1>3 DEF WriteTo
    <3>4. \A z \in U : WriteTo(z, g[u].place, g) => g[z].stamp <= g[u].stamp BY <3>1, <1>2
    <3>5. mem[g[u].place] = g[u].value BY <3>1, <3>4 DEF Chain, LastWrite
    <3> QED BY <3>1, <3>3, <3>5
  <2> QED BY <2>1, <2>2
<1> QED BY <1>4, <1>5, <1>6, <1>7 DEF Chain

(* The client's calls: a request that is new.                              *)

Accepted(s, x) == [Accept(s, x) EXCEPT !.replies = {}]

\* addTransaction appends to the transaction queue, or to the held list when that is full.
LEMMA AcceptFields ==
  ASSUME NEW s, IsChannel(s), NEW x, NEW t, t = Accepted(s, x)
  PROVE  /\ IsChannel(t) /\ t.replies = {}
         /\ t.held = IF WillAcceptTransaction(s) THEN s.held ELSE Append(s.held, x)
         /\ t.transactions = IF WillAcceptTransaction(s) THEN Append(s.transactions, x) ELSE s.transactions
         /\ t.onTheFly = IF WillAcceptTransaction(s) THEN s.onTheFly + 1 ELSE s.onTheFly
         /\ t.queues = s.queues /\ t.banks = s.banks /\ t.waiting = s.waiting
         /\ t.nextRank = s.nextRank /\ t.nextPre = s.nextPre /\ t.command = s.command
         /\ t.data = s.data /\ t.writes = s.writes /\ t.reads = s.reads /\ t.returns = s.returns
         /\ t.ranks = s.ranks /\ t.store = s.store /\ t.fault = s.fault
BY DEF IsChannel, Fields, Accepted, Accept, AddTransaction

\* addTransaction keeps the types, the books and the bus.
LEMMA AcceptParts ==
  ASSUME NEW s, Typed(s), BooksAgree(s.banks, s.ranks, s.command), Bus(s, 1), Aboard(s), Backed(s),
         NEW x \in Transaction, NEW t, t = Accepted(s, x)
  PROVE  /\ Typed(t) /\ t.fault = s.fault /\ BooksAgree(t.banks, t.ranks, t.command) /\ Bus(t, 1)
         /\ Aboard(t) /\ Backed(t)
<1>0. IsChannel(s) BY DEF Typed
<1>1. /\ IsChannel(t) /\ t.replies = {}
      /\ t.held = IF WillAcceptTransaction(s) THEN s.held ELSE Append(s.held, x)
      /\ t.transactions = IF WillAcceptTransaction(s) THEN Append(s.transactions, x) ELSE s.transactions
      /\ t.onTheFly = IF WillAcceptTransaction(s) THEN s.onTheFly + 1 ELSE s.onTheFly
  BY <1>0, AcceptFields
<1>2. /\ t.queues = s.queues /\ t.banks = s.banks /\ t.waiting = s.waiting
      /\ t.nextRank = s.nextRank /\ t.nextPre = s.nextPre /\ t.command = s.command
      /\ t.data = s.data /\ t.writes = s.writes /\ t.reads = s.reads /\ t.returns = s.returns
      /\ t.ranks = s.ranks /\ t.store = s.store /\ t.fault = s.fault
  BY <1>0, AcceptFields
<1>3. /\ s.held \in Seq(Transaction) /\ s.transactions \in Seq(Transaction)
      /\ Len(s.transactions) <= TransQueueDepth /\ s.onTheFly \in Int
  BY DEF Typed, QueuesTyped, DataTyped
<1>4. t.held \in Seq(Transaction) /\ t.transactions \in Seq(Transaction)
  <2>1. Append(s.held, x) \in Seq(Transaction) /\ Append(s.transactions, x) \in Seq(Transaction)
    BY <1>3, AppendProperties
  <2> QED BY <2>1, <1>1, <1>3
<1>5. Len(t.transactions) <= TransQueueDepth
  <2>1. CASE WillAcceptTransaction(s)
    <3>1. Len(t.transactions) = Len(s.transactions) + 1 BY <2>1, <1>1, <1>3, AppendProperties
    <3> QED BY <3>1, <2>1, <1>3, ConstantTypes, LenProperties DEF WillAcceptTransaction
  <2>2. CASE ~WillAcceptTransaction(s) BY <2>2, <1>1, <1>3
  <2> QED BY <2>1, <2>2
<1>6. t.onTheFly \in Int BY <1>1, <1>3
<1>7. QueuesTyped(t) BY <1>2, <1>4, <1>5 DEF Typed, QueuesTyped
<1>8. DataTyped(t) BY <1>1, <1>2, <1>6 DEF Typed, DataTyped
<1>9. Bus(t, 1) BY <1>2 DEF Bus
<1>10. Aboard(t) BY <1>2 DEF Aboard
<1>11. Backed(t)
  <2>1. CASE WillAcceptTransaction(s) BY <2>1, <1>1, <1>3, AppendNotEmpty DEF Backed
  <2>2. CASE ~WillAcceptTransaction(s)
    <3>1. ~(Len(s.transactions) < TransQueueDepth) BY <2>2 DEF WillAcceptTransaction
    <3>2. Len(s.transactions) \in Nat /\ Len(s.transactions) # 0
      BY <3>1, <1>3, ConstantTypes, LenProperties
    <3>3. Len(<<>>) = 0 OBVIOUS
    <3>4. s.transactions # <<>> BY <3>2, <3>3
    <3> QED BY <3>4, <2>2, <1>1 DEF Backed
  <2> QED BY <2>1, <2>2
<1> QED BY <1>1, <1>2, <1>7, <1>8, <1>9, <1>10, <1>11 DEF Typed

\* An id that is free is on no bus.
LEMMA CommandOwed ==
  ASSUME NEW s, Typed(s), Aboard(s), NEW g, NEW loc, NEW bars, NEW P, NEW mem,
         Sound(s, g, loc, bars, P, mem), NEW id \in Ids, loc[id] = Free
  PROVE  s.command # None => s.command.id # id
<1>1. /\ CommandLedger(s.command, g, At(loc, 3), Waits(loc))
      /\ WritesLedger(s.writes, s.data, g, At(loc, 7), At(loc, 8))
  BY SoundParts
<1>2. s.command \in Command \cup {None} BY DEF Typed, QueuesTyped
<1>3. ASSUME s.command # None, s.command.id = id PROVE FALSE
  <2>1. s.command \in Located \/ s.command \in BareCommand BY <1>2, <1>3 DEF Command
  <2>2. s.command \notin BareCommand
    <3> SUFFICES ASSUME s.command \in BareCommand PROVE FALSE OBVIOUS
    <3>1. s.command.id = None BY DEF BareCommand
    <3> QED BY <3>1, <1>3, NoneApart
  <2>3. s.command.kind \in {"READ", "WRITE"} BY <2>1, <2>2 DEF Located, ColumnCommand
  <2>4. CASE s.command.kind = "READ"
    <3>1. id \in At(loc, 3) BY <1>1, <1>3, <2>4 DEF CommandLedger
    <3> QED BY <3>1 DEF At, Free
  <2>5. CASE s.command.kind = "WRITE"
    <3>1. id \in IdsOf(s.writes) BY <1>3, <2>5 DEF Aboard
    <3>2. id \in At(loc, 7) BY <3>1, <1>1 DEF WritesLedger, IdsOf
    <3> QED BY <3>2 DEF At, Free
  <2> QED BY <2>3, <2>4, <2>5
<1> QED BY <1>3

\* What the ledger says of the new id x.
Entry(h, x, y, n) ==
  /\ h[x].stamp = n /\ h[x].write = y.write /\ h[x].token = y.token /\ h[x].place = y.place
  /\ h[x].value = y.value

\* The ledger entry of a new request.
LEMMA EntryMade ==
  ASSUME NEW g \in [Ids -> Request], NEW y \in Transaction, NEW n \in Nat,
         NEW h, h = [g EXCEPT ![y.id] = [stamp |-> n, write |-> y.write, token |-> y.token,
                                         place |-> y.place, value |-> y.value]]
  PROVE  /\ h \in [Ids -> Request] /\ Entry(h, y.id, y, n)
         /\ \A z \in Ids : z # y.id => h[z] = g[z]
         /\ y.id \in Ids /\ y.value \in Values /\ y.place \in Places
<1>1. /\ y.id \in Ids /\ y.write \in BOOLEAN /\ y.token \in BOOLEAN /\ y.place \in Places
      /\ y.value \in Values
  BY DEF Transaction
<1>2. [stamp |-> n, write |-> y.write, token |-> y.token, place |-> y.place, value |-> y.value] \in Request
  BY <1>1 DEF Request
<1> QED BY <1>1, <1>2 DEF Entry

\* Where the new request goes.
Entrance(s) == IF WillAcceptTransaction(s) THEN 1 ELSE 0

Enters(g, h, loc, m, id, k) ==
  /\ loc \in [Ids -> 0 .. 9] /\ id \in Ids /\ loc[id] = 9 /\ k \in {0, 1} /\ m = Moved(loc, id, k)
  /\ \A z \in Ids : z # id => h[z] = g[z]

\* A new request enters one set of the ledger and changes no other.
LEMMA SubmitSets ==
  ASSUME NEW g, NEW h, NEW loc, NEW m, NEW id, NEW k, Enters(g, h, loc, m, id, k)
  PROVE  /\ m \in [Ids -> 0 .. 9] /\ m[id] = k /\ \A z \in Ids : z # id => m[z] = loc[z]
         /\ At(m, k) = At(loc, k) \cup {id} /\ \A j \in 0 .. 8 : j # k => At(m, j) = At(loc, j)
         /\ \A j \in 0 .. 8 : id \notin At(loc, j)
         /\ Waits(m) = Waits(loc) \cup {id} /\ Owed(m) = Owed(loc) \cup {id} /\ id \notin Owed(loc)
         /\ Expected(h, m) = Expected(g, loc) /\ Fetched(m) = Fetched(loc)
         /\ \A z \in Expected(g, loc) \cup Waits(loc) : z \in Ids /\ z # id
<1> USE DEF Enters
<1>1. /\ m \in [Ids -> 0 .. 9] /\ m[id] = k /\ \A z \in Ids : z # id => m[z] = loc[z]
      /\ At(m, k) = At(loc, k) \cup {id} /\ \A j \in 0 .. 9 : j # 9 /\ j # k => At(m, j) = At(loc, j)
  <2>1. k \in 0 .. 9 /\ loc[id] # k OBVIOUS
  <2> QED BY <2>1, MovedSets
<1>2. \A j \in 0 .. 8 : id \notin At(loc, j) BY DEF At
<1>3. Waits(m) = Waits(loc) \cup {id} BY <1>1 DEF Waits, InQueue
<1>4. Owed(m) = Owed(loc) \cup {id} /\ id \notin Owed(loc) BY <1>1 DEF Owed, Free
<1>5. Expected(h, m) = Expected(g, loc)
  <2>1. \A z \in Ids : z # id => (z \in Expected(h, m) <=> z \in Expected(g, loc))
    BY <1>1 DEF Expected
  <2>2. id \notin Expected(h, m) /\ id \notin Expected(g, loc)
    BY <1>1 DEF Expected, OnBus, InReturns, InQueue
  <2> QED BY <2>1, <2>2 DEF Expected
<1>6. Fetched(m) = Fetched(loc) BY <1>1 DEF Fetched, InRank, InReturns
<1>7. \A z \in Expected(g, loc) \cup Waits(loc) : z \in Ids /\ z # id
  BY DEF Expected, Waits, OnBus, InReturns, InQueue
<1> QED BY <1>1, <1>2, <1>3, <1>4, <1>5, <1>6, <1>7

Joins(q, g, h, bars, b2, S, y, n) ==
  /\ q \in Seq(Transaction) /\ Listed(q, g, bars, S) /\ y \in Transaction /\ y.id \notin S /\ ~y.bar
  /\ Entry(h, y.id, y, n) /\ b2 = bars \ {y.id} /\ \A z \in S : h[z] = g[z] /\ h[z].stamp < n

\* A new transaction joins the end of its list, whose other members stay.
LEMMA SubmitLists ==
  ASSUME NEW q, NEW g, NEW h, NEW bars, NEW b2, NEW S, NEW y, NEW n, Joins(q, g, h, bars, b2, S, y, n)
  PROVE  Listed(q, h, b2, S) /\ Listed(Append(q, y), h, b2, S \cup {y.id})
<1> USE DEF Joins
<1>1. SameOn(S, g, h, bars, b2) BY DEF SameOn
<1>2. Listed(q, h, b2, S) BY <1>1, ListedSame
<1>3. Ticket(y, h, b2)
  <2>1. y.bar = (y.id \in b2)
    <3>1. y.bar \in BOOLEAN /\ y.id \notin b2 BY DEF Transaction
    <3> QED BY <3>1
  <2> QED BY <2>1 DEF Ticket, Entry
<1>4. \A z \in S : h[z].stamp < h[y.id].stamp BY DEF Entry
<1> QED BY <1>2, <1>3, <1>4, ListedAppend

Follows(g, h, loc, m, id, k) ==
  /\ g \in [Ids -> Request] /\ loc \in [Ids -> 0 .. 9] /\ Ordered(g, loc) /\ id \in Ids /\ k \in {0, 1}
  /\ m[id] = k /\ \A z \in Ids : z # id => m[z] = loc[z]
  /\ \A z \in Ids : z # id => h[z] = g[z] /\ h[z].stamp < h[id].stamp
  /\ k = 1 => At(loc, 0) = {}

\* The youngest request breaks no order.
LEMMA SubmitOrdered ==
  ASSUME NEW g, NEW h, NEW loc, NEW m, NEW id, NEW k, Follows(g, h, loc, m, id, k)
  PROVE  Ordered(h, m)
<1> USE DEF Follows
<1>1. \A x, y \in Ids : m[x] = InHeld /\ m[y] = InTransactions => h[y].stamp < h[x].stamp
  <2> SUFFICES ASSUME NEW x \in Ids, NEW y \in Ids, m[x] = 0, m[y] = 1 PROVE h[y].stamp < h[x].stamp
    BY DEF InHeld, InTransactions
  <2>1. CASE y = id
    <3>1. k = 1 /\ x # id BY <2>1
    <3>2. x \in At(loc, 0) BY <3>1 DEF At
    <3> QED BY <3>1, <3>2
  <2>2. CASE y # id /\ x = id BY <2>2
  <2>3. CASE y # id /\ x # id BY <2>3 DEF Ordered, InHeld, InTransactions
  <2> QED BY <2>1, <2>2, <2>3
<1>2. \A x, y \in Ids : m[x] < m[y] /\ m[y] = InQueue /\ h[x].place.rank = h[y].place.rank =>
        h[y].stamp < h[x].stamp
  <2> SUFFICES ASSUME NEW x \in Ids, NEW y \in Ids, m[x] < m[y], m[y] = InQueue,
                      h[x].place.rank = h[y].place.rank
               PROVE  h[y].stamp < h[x].stamp
    OBVIOUS
  <2>1. y # id BY DEF InQueue
  <2>2. CASE x = id BY <2>1, <2>2
  <2>3. CASE x # id BY <2>1, <2>3 DEF Ordered
  <2> QED BY <2>2, <2>3
<1>3. \A x, y \in Ids : m[x] < m[y] /\ m[y] \in OnBus .. InReturns /\ h[x].place = h[y].place =>
        h[y].stamp < h[x].stamp
  <2> SUFFICES ASSUME NEW x \in Ids, NEW y \in Ids, m[x] < m[y], m[y] \in OnBus .. InReturns,
                      h[x].place = h[y].place
               PROVE  h[y].stamp < h[x].stamp
    OBVIOUS
  <2>1. y # id BY DEF OnBus, InReturns
  <2>2. CASE x = id BY <2>1, <2>2
  <2>3. CASE x # id BY <2>1, <2>3 DEF Ordered
  <2> QED BY <2>2, <2>3
<1> QED BY <1>1, <1>2, <1>3 DEF Ordered

\* The command on the bus goes to an older request than the new one.
LEMMA SubmitCommand ==
  ASSUME NEW c, NEW g, NEW h, NEW B, NEW W, CommandLedger(c, g, B, W), NEW id,
         \A z \in Ids : z # id => h[z] = g[z] /\ h[z].stamp < h[id].stamp,
         W \subseteq Ids, id \notin W, c # None => c.id # id, c # None /\ c.kind \in {"READ", "WRITE"} => c.id \in Ids
  PROVE  CommandLedger(c, h, B, W \cup {id})
<1>1. \A z \in B : c # None /\ c.kind = "READ" /\ c.id = z BY DEF CommandLedger
<1>2. ASSUME c # None, c.kind \in {"READ", "WRITE"}
      PROVE  /\ Order(c, h) /\ c.id \notin W \cup {id} /\ (c.kind = "READ" => c.id \in B)
             /\ \A z \in W \cup {id} : h[z].place = PlaceOf(c) => h[c.id].stamp < h[z].stamp
  <2>1. /\ Order(c, g) /\ c.id \notin W /\ (c.kind = "READ" => c.id \in B)
        /\ \A z \in W : g[z].place = PlaceOf(c) => g[c.id].stamp < g[z].stamp
    BY <1>2 DEF CommandLedger
  <2>2. c.id \in Ids /\ c.id # id /\ h[c.id] = g[c.id] /\ h[c.id].stamp < h[id].stamp BY <1>2
  <2>3. Order(c, h) BY <2>1, <2>2 DEF Order
  <2>4. \A z \in W : h[z] = g[z] OBVIOUS
  <2> QED BY <2>1, <2>2, <2>3, <2>4
<1> QED BY <1>1, <1>2 DEF CommandLedger

\* A request that is new is one more that is owed, and the youngest.
Joining(s, g, loc, bars, P, mem, n, y, h, m, b2, mem2, t) ==
  /\ Typed(s) /\ Aboard(s) /\ Sound(s, g, loc, bars, P, mem) /\ (s.held = <<>> \/ ~WillAcceptTransaction(s))
  /\ mem \in [Places -> Values] /\ n \in Nat /\ \A z \in Ids : g[z].stamp < n
  /\ y \in Transaction /\ ~y.bar /\ loc[y.id] = Free /\ (~y.write => y.value = mem[y.place])
  /\ h = [g EXCEPT ![y.id] = [stamp |-> n, write |-> y.write, token |-> y.token,
                              place |-> y.place, value |-> y.value]]
  /\ m = Moved(loc, y.id, Entrance(s)) /\ b2 = bars \ {y.id}
  /\ mem2 = [mem EXCEPT ![y.place] = y.value] /\ t = Accepted(s, y)

\* addTransaction keeps the ledger.
LEMMA SubmitSound ==
  ASSUME NEW s, NEW g, NEW loc, NEW bars, NEW P, NEW mem, NEW n, NEW y, NEW h, NEW m, NEW b2, NEW mem2,
         NEW t, Joining(s, g, loc, bars, P, mem, n, y, h, m, b2, mem2, t)
  PROVE  Sound(t, h, m, b2, Owed(m), mem2)
<1> SUFFICES ASSUME Typed(s), Aboard(s), Sound(s, g, loc, bars, P, mem),
                    s.held = <<>> \/ ~WillAcceptTransaction(s),
                    mem \in [Places -> Values], n \in Nat, \A z \in Ids : g[z].stamp < n,
                    y \in Transaction, ~y.bar, loc[y.id] = Free, ~y.write => y.value = mem[y.place],
                    h = [g EXCEPT ![y.id] = [stamp |-> n, write |-> y.write, token |-> y.token,
                                             place |-> y.place, value |-> y.value]],
                    m = Moved(loc, y.id, Entrance(s)), b2 = bars \ {y.id},
                    mem2 = [mem EXCEPT ![y.place] = y.value], t = Accepted(s, y)
             PROVE  Sound(t, h, m, b2, Owed(m), mem2)
  BY DEF Joining
<1> DEFINE id == y.id
           k == Entrance(s)
           W == Waits(loc)
           U == Undone(s.command, loc)
<1>1. /\ g \in [Ids -> Request] /\ loc \in [Ids -> 0 .. 9] /\ bars \subseteq Ids
      /\ Listed(s.held, g, bars, At(loc, 0)) /\ Listed(s.transactions, g, bars, At(loc, 1))
      /\ QueuesLedger(s.queues, g, bars, At(loc, 2))
      /\ CommandLedger(s.command, g, At(loc, 3), W)
      /\ WritesLedger(s.writes, s.data, g, At(loc, 7), At(loc, 8))
      /\ ReadsLedger(s.reads, g, Expected(g, loc), Fetched(loc))
  BY SoundParts
<1>2. /\ RanksLedger(s.ranks, g, At(loc, 4), At(loc, 5)) /\ ReturnsLedger(s.returns, g, At(loc, 6))
      /\ Ordered(g, loc) /\ Counted(s, Owed(loc)) /\ Chain(U, s.store, mem, g)
  BY SoundParts
<1>3. /\ h \in [Ids -> Request] /\ Entry(h, id, y, n) /\ \A z \in Ids : z # id => h[z] = g[z]
      /\ id \in Ids /\ y.value \in Values /\ y.place \in Places
  BY <1>1, EntryMade
<1>4. \A z \in Ids : z # id => h[z] = g[z] /\ h[z].stamp < n /\ h[z].stamp < h[id].stamp
  BY <1>3 DEF Entry
<1>5. k \in {0, 1} /\ (k = 1 <=> WillAcceptTransaction(s)) /\ loc[id] = 9 BY DEF Entrance, Free
<1>6. m = Moved(loc, id, k) OBVIOUS
<1> HIDE DEF k
<1>7. /\ m \in [Ids -> 0 .. 9] /\ m[id] = k /\ \A z \in Ids : z # id => m[z] = loc[z]
      /\ At(m, k) = At(loc, k) \cup {id} /\ \A j \in 0 .. 8 : j # k => At(m, j) = At(loc, j)
      /\ \A j \in 0 .. 8 : id \notin At(loc, j)
      /\ Waits(m) = W \cup {id} /\ Owed(m) = Owed(loc) \cup {id} /\ id \notin Owed(loc)
      /\ Expected(h, m) = Expected(g, loc) /\ Fetched(m) = Fetched(loc)
      /\ \A z \in Expected(g, loc) \cup W : z \in Ids /\ z # id
  <2>1. loc \in [Ids -> 0 .. 9] /\ id \in Ids /\ loc[id] = 9 /\ k \in {0, 1} BY <1>1, <1>3, <1>5
  <2>2. \A z \in Ids : z # id => h[z] = g[z] BY <1>3
  <2> HIDE DEF id
  <2>3. Enters(g, h, loc, m, id, k) BY <2>1, <2>2, <1>6 DEF Enters
  <2> QED BY <2>3, SubmitSets
<1>8. /\ IsChannel(t) /\ t.replies = {}
      /\ t.held = IF WillAcceptTransaction(s) THEN s.held ELSE Append(s.held, y)
      /\ t.transactions = IF WillAcceptTransaction(s) THEN Append(s.transactions, y) ELSE s.transactions
      /\ t.onTheFly = IF WillAcceptTransaction(s) THEN s.onTheFly + 1 ELSE s.onTheFly
      /\ t.queues = s.queues /\ t.command = s.command /\ t.data = s.data /\ t.writes = s.writes
      /\ t.reads = s.reads /\ t.returns = s.returns /\ t.ranks = s.ranks /\ t.store = s.store
  <2>1. IsChannel(s) BY DEF Typed
  <2> QED BY <2>1, AcceptFields
<1>9. /\ s.held \in Seq(Transaction) /\ s.transactions \in Seq(Transaction) /\ s.onTheFly \in Int
      /\ s.command \in Command \cup {None}
  BY DEF Typed, QueuesTyped, DataTyped
<1>10. \A j \in 0 .. 8 : \A z \in At(loc, j) : z \in Ids /\ z # id /\ h[z] = g[z] /\ h[z].stamp < n
  <2> SUFFICES ASSUME NEW j \in 0 .. 8, NEW z \in At(loc, j)
               PROVE  z \in Ids /\ z # id /\ h[z] = g[z] /\ h[z].stamp < n
    OBVIOUS
  <2>1. z \in Ids /\ z # id BY <1>7 DEF At
  <2> QED BY <2>1, <1>4
<1>11. /\ Listed(s.held, h, b2, At(loc, 0)) /\ Listed(Append(s.held, y), h, b2, At(loc, 0) \cup {id})
       /\ Listed(s.transactions, h, b2, At(loc, 1))
       /\ Listed(Append(s.transactions, y), h, b2, At(loc, 1) \cup {id})
  <2>1. 0 \in 0 .. 8 /\ 1 \in 0 .. 8 OBVIOUS
  <2>2. \A j \in 0 .. 8 : id \notin At(loc, j) /\ \A z \in At(loc, j) : h[z] = g[z] /\ h[z].stamp < n
    BY <1>7, <1>10
  <2>3. Listed(s.held, h, b2, At(loc, 0)) /\ Listed(Append(s.held, y), h, b2, At(loc, 0) \cup {id})
    <3> DEFINE S == At(loc, 0)
               q == s.held
    <3>1. /\ Listed(q, g, bars, S) /\ q \in Seq(Transaction) /\ Entry(h, y.id, y, n) /\ y.id \notin S
          /\ \A z \in S : h[z] = g[z] /\ h[z].stamp < n
      BY <2>1, <2>2, <1>1, <1>3, <1>9
    <3> HIDE DEF S, q
    <3>2. Joins(q, g, h, bars, b2, S, y, n) BY <3>1 DEF Joins
    <3>3. Listed(q, h, b2, S) /\ Listed(Append(q, y), h, b2, S \cup {y.id}) BY <3>2, SubmitLists
    <3> QED BY <3>3 DEF S, q
  <2>4. /\ Listed(s.transactions, h, b2, At(loc, 1))
        /\ Listed(Append(s.transactions, y), h, b2, At(loc, 1) \cup {id})
    <3> DEFINE S == At(loc, 1)
               q == s.transactions
    <3>1. /\ Listed(q, g, bars, S) /\ q \in Seq(Transaction) /\ Entry(h, y.id, y, n) /\ y.id \notin S
          /\ \A z \in S : h[z] = g[z] /\ h[z].stamp < n
      BY <2>1, <2>2, <1>1, <1>3, <1>9
    <3> HIDE DEF S, q
    <3>2. Joins(q, g, h, bars, b2, S, y, n) BY <3>1 DEF Joins
    <3>3. Listed(q, h, b2, S) /\ Listed(Append(q, y), h, b2, S \cup {y.id}) BY <3>2, SubmitLists
    <3> QED BY <3>3 DEF S, q
  <2> QED BY <2>3, <2>4
<1>12. Listed(t.held, h, b2, At(m, 0)) /\ Listed(t.transactions, h, b2, At(m, 1))
  <2>1. CASE k = 1
    <3>1. At(m, 0) = At(loc, 0) /\ At(m, 1) = At(loc, 1) \cup {id} BY <2>1, <1>7
    <3> QED BY <3>1, <2>1, <1>5, <1>8, <1>11
  <2>2. CASE k = 0
    <3>1. At(m, 1) = At(loc, 1) /\ At(m, 0) = At(loc, 0) \cup {id} BY <2>2, <1>7
    <3> QED BY <3>1, <2>2, <1>5, <1>8, <1>11
  <2> QED BY <2>1, <2>2, <1>5
<1>13. \A j \in 2 .. 8 : At(m, j) = At(loc, j) BY <1>5, <1>7
<1>14. QueuesLedger(t.queues, h, b2, At(m, 2))
  <2>1. 2 \in 0 .. 8 /\ 2 \in 2 .. 8 OBVIOUS
  <2>2. SameOn(At(loc, 2), g, h, bars, b2) BY <2>1, <1>10 DEF SameOn
  <2> QED BY <2>1, <2>2, <1>1, <1>8, <1>13, QueuesSame
<1>15. s.command # None => s.command.id # id BY <1>3, CommandOwed
<1>16. CommandLedger(t.command, h, At(m, 3), Waits(m))
  <2>1. ASSUME s.command # None, s.command.kind \in {"READ", "WRITE"} PROVE s.command.id \in Ids
    BY <2>1, <1>9 DEF Command, Located, ColumnCommand, BareCommand
  <2>2. W \subseteq Ids /\ id \notin W BY <1>7
  <2>3. CommandLedger(s.command, h, At(loc, 3), W \cup {id})
    BY <2>1, <2>2, <1>1, <1>4, <1>15, SubmitCommand
  <2>4. 3 \in 2 .. 8 OBVIOUS
  <2> QED BY <2>3, <2>4, <1>7, <1>8, <1>13
<1>17. WritesLedger(t.writes, t.data, h, At(m, 7), At(m, 8))
  <2>1. 7 \in 2 .. 8 /\ 8 \in 2 .. 8 /\ 7 \in 0 .. 8 /\ 8 \in 0 .. 8 OBVIOUS
  <2>2. \A z \in At(loc, 7) \cup At(loc, 8) : h[z] = g[z] BY <2>1, <1>10
  <2>3. WritesLedger(s.writes, s.data, h, At(loc, 7), At(loc, 8)) BY <2>2, <1>1, WritesSame
  <2> QED BY <2>1, <2>3, <1>8, <1>13
<1>18. ReadsLedger(t.reads, h, Expected(h, m), Fetched(m))
  <2>1. \A z \in Expected(g, loc) : h[z] = g[z] BY <1>4, <1>7
  <2>2. ReadsLedger(s.reads, h, Expected(g, loc), Fetched(loc)) BY <2>1, <1>1, ReadsSame
  <2> QED BY <2>2, <1>7, <1>8
<1>19. RanksLedger(t.ranks, h, At(m, 4), At(m, 5))
  <2>1. 4 \in 2 .. 8 /\ 5 \in 2 .. 8 /\ 4 \in 0 .. 8 /\ 5 \in 0 .. 8 OBVIOUS
  <2>2. \A z \in At(loc, 4) \cup At(loc, 5) : h[z] = g[z] BY <2>1, <1>10
  <2>3. RanksLedger(s.ranks, h, At(loc, 4), At(loc, 5)) BY <2>2, <1>2, RanksSame
  <2> QED BY <2>1, <2>3, <1>8, <1>13
<1>20. ReturnsLedger(t.returns, h, At(m, 6))
  <2>1. 6 \in 2 .. 8 /\ 6 \in 0 .. 8 OBVIOUS
  <2>2. \A z \in At(loc, 6) : h[z] = g[z] BY <2>1, <1>10
  <2>3. ReturnsLedger(s.returns, h, At(loc, 6)) BY <2>2, <1>2, ReturnsSame
  <2> QED BY <2>1, <2>3, <1>8, <1>13
<1>21. Ordered(h, m)
  <2>1. k = 1 => At(loc, 0) = {}
    <3> SUFFICES ASSUME k = 1 PROVE At(loc, 0) = {} OBVIOUS
    <3>1. s.held = <<>> BY <1>5
    <3>2. IdsOf(s.held) = {} BY <3>1 DEF IdsOf
    <3> QED BY <3>2, <1>1 DEF Listed
  <2>2. /\ g \in [Ids -> Request] /\ loc \in [Ids -> 0 .. 9] /\ Ordered(g, loc) /\ id \in Ids /\ k \in {0, 1}
        /\ m[id] = k
    BY <1>1, <1>2, <1>3, <1>5, <1>7
  <2>3. /\ \A z \in Ids : z # id => h[z] = g[z] /\ h[z].stamp < h[id].stamp
        /\ \A z \in Ids : z # id => m[z] = loc[z]
    BY <1>4, <1>7
  <2> HIDE DEF id
  <2>4. Follows(g, h, loc, m, id, k) BY <2>1, <2>2, <2>3 DEF Follows
  <2> QED BY <2>4, SubmitOrdered
<1>22. Counted(t, Owed(m))
  <2>1. Owed(loc) \in SUBSET Ids BY DEF Owed
  <2>2. Cardinality(Owed(m)) = Cardinality(Owed(loc)) + 1 BY <2>1, <1>7, OneMore
  <2>3. Len(Append(s.held, y)) = Len(s.held) + 1 /\ Len(s.held) \in Nat
    BY <1>9, AppendProperties, LenProperties
  <2>4. s.onTheFly + Len(s.held) = Cardinality(Owed(loc)) BY <1>2 DEF Counted
  <2>5. t.onTheFly + Len(t.held) = s.onTheFly + Len(s.held) + 1 BY <2>3, <1>8, <1>9
  <2> QED BY <2>2, <2>4, <2>5 DEF Counted
<1>23. U \in SUBSET Ids /\ id \notin U /\ Undone(t.command, m) = U \cup {id}
  <2>1. U \in SUBSET Ids BY DEF Undone
  <2>2. id \notin U BY <1>5, <1>15 DEF Undone, InQueue
  <2>3. \A z \in Ids : z # id => (z \in Undone(t.command, m) <=> z \in U)
    BY <1>7, <1>8 DEF Undone
  <2>4. id \in Undone(t.command, m) BY <1>3, <1>5, <1>7 DEF Undone, InQueue
  <2> QED BY <2>1, <2>2, <2>3, <2>4 DEF Undone
<1>24. Chain(Undone(t.command, m), t.store, mem2, h)
  <2>1. \A z \in U : h[z] = g[z] /\ h[z].stamp < h[id].stamp BY <1>4, <1>23
  <2>2. y.place = h[id].place /\ (~h[id].write => h[id].value = mem[y.place]) /\ y.value = h[id].value
    BY <1>3 DEF Entry
  <2>3. mem2 = [mem EXCEPT ![y.place] = h[id].value] BY <2>2
  <2> DEFINE store == s.store
             p == y.place
  <2>4. /\ U \in SUBSET Ids /\ id \in Ids /\ id \notin U /\ g \in [Ids -> Request] /\ h \in [Ids -> Request]
        /\ Chain(U, store, mem, g) /\ p = h[id].place /\ (~h[id].write => h[id].value = mem[p])
        /\ mem2 = [mem EXCEPT ![p] = h[id].value]
    BY <2>2, <2>3, <1>1, <1>2, <1>3, <1>23
  <2> HIDE DEF U, id, store, p
  <2>5. Asked(U, id, g, h, store, mem, mem2, p) BY <2>1, <2>4 DEF Asked
  <2>6. Chain(U \cup {id}, store, mem2, h) BY <2>5, ChainSubmit
  <2> QED BY <2>6, <1>8, <1>23 DEF store
<1>25. Answered(t.replies, h, Owed(m), Owed(m))
  <2>1. Owed(m) \subseteq Ids /\ Owed(m) \ Owed(m) = {} BY DEF Owed
  <2>2. {[id |-> z, value |-> h[z].value] : z \in Owed(m) \ Owed(m)} = {} BY <2>1
  <2> QED BY <2>1, <2>2, <1>8 DEF Answered
<1>26. b2 \subseteq Ids BY <1>1
<1> QED BY <1>3, <1>7, <1>12, <1>14, <1>16, <1>17, <1>18, <1>19, <1>20, <1>21, <1>22, <1>24, <1>25,
           <1>26, SoundFrom

(* A barrier: the youngest transaction, where the client's call finds it.  *)

Youngest(q) == q[Len(q)]
Tagged(s) == IF WillAcceptTransaction(s) THEN Youngest(s.transactions) ELSE Youngest(s.held)

\* addBarrier tags the youngest transaction of one list and changes nothing else.
LEMMA BarrierFields ==
  ASSUME NEW s, IsChannel(s), NEW t, t = AddBarrier(s)
  PROVE  /\ IsChannel(t)
         /\ t.held = IF WillAcceptTransaction(s) THEN s.held ELSE WithBarrier(s.held)
         /\ t.transactions = IF WillAcceptTransaction(s) THEN WithBarrier(s.transactions) ELSE s.transactions
         /\ t.onTheFly = s.onTheFly /\ t.replies = s.replies
         /\ t.queues = s.queues /\ t.banks = s.banks /\ t.waiting = s.waiting
         /\ t.nextRank = s.nextRank /\ t.nextPre = s.nextPre /\ t.command = s.command
         /\ t.data = s.data /\ t.writes = s.writes /\ t.reads = s.reads /\ t.returns = s.returns
         /\ t.ranks = s.ranks /\ t.store = s.store /\ t.fault = s.fault
BY DEF IsChannel, Fields, AddBarrier

Marked(x, y) ==
  /\ y.id = x.id /\ y.write = x.write /\ y.token = x.token /\ y.place = x.place /\ y.value = x.value
  /\ y.bar = TRUE

\* The tag changes the last member of the list, and only its barrier bit.
LEMMA BarrierMembers ==
  ASSUME NEW q \in Seq(Transaction), q # <<>>, NEW p, p = WithBarrier(q)
  PROVE  /\ p \in Seq(Transaction) /\ Len(p) = Len(q) /\ DOMAIN p = DOMAIN q /\ Len(q) \in DOMAIN q
         /\ p # <<>>
         /\ \A i \in DOMAIN q : i # Len(q) => p[i] = q[i]
         /\ Youngest(q) \in Transaction /\ Marked(Youngest(q), p[Len(q)])
<1> DEFINE n == Len(q)
           x == q[n]
           y == [x EXCEPT !.bar = TRUE]
<1>1. n \in Nat /\ DOMAIN q = 1 .. n /\ n # 0 BY LenProperties, EmptySeq
<1>2. n \in DOMAIN q /\ x \in Transaction BY <1>1, ElementOfSeq
<1>3. y \in Transaction /\ y.id = x.id /\ y.write = x.write /\ y.token = x.token
      /\ y.place = x.place /\ y.value = x.value /\ y.bar = TRUE
  BY <1>2 DEF Transaction
<1>4. p = [q EXCEPT ![n] = y] BY DEF WithBarrier
<1> HIDE DEF y
<1>5. p \in Seq(Transaction) /\ Len(p) = n /\ p[n] = y /\ \A i \in 1 .. n : i # n => p[i] = q[i]
  <2>1. n \in 1 .. Len(q) /\ y \in Transaction BY <1>1, <1>2, <1>3
  <2>2. p \in Seq(Transaction) /\ Len(p) = n BY <2>1, <1>4, ExceptSeq
  <2> QED BY <2>2, <1>1, <1>2, <1>4
<1>6. DOMAIN p = DOMAIN q BY <1>4
<1>7. p # <<>> BY <1>1, <1>5
<1> QED BY <1>1, <1>2, <1>3, <1>5, <1>6, <1>7 DEF Youngest, Marked

\* The tagged list is the list of the same requests, one of them a barrier now.
LEMMA BarrierListed ==
  ASSUME NEW q \in Seq(Transaction), q # <<>>, NEW p, p = WithBarrier(q), NEW g, NEW bars, NEW S,
         Listed(q, g, bars, S), \A i, j \in DOMAIN q : i # j => q[i].id # q[j].id
  PROVE  Listed(p, g, bars \cup {Youngest(q).id}, S) /\ Youngest(q).id \in S /\ Ticket(Youngest(q), g, bars)
<1> DEFINE n == Len(q)
           x == Youngest(q)
           b2 == bars \cup {x.id}
<1>1. /\ p \in Seq(Transaction) /\ DOMAIN p = DOMAIN q /\ n \in DOMAIN q
      /\ \A i \in DOMAIN q : i # n => p[i] = q[i]
      /\ x \in Transaction /\ Marked(x, p[n])
  BY BarrierMembers
<1>2. x = q[n] BY DEF Youngest
<1> HIDE DEF n, x
<1>3. Ticket(x, g, bars) BY <1>1, <1>2 DEF Listed
<1>4. \A i \in DOMAIN q : p[i].id = q[i].id BY <1>1, <1>2 DEF Marked
<1>5. \A i \in DOMAIN p : Ticket(p[i], g, b2)
  <2> SUFFICES ASSUME NEW i \in DOMAIN q PROVE Ticket(p[i], g, b2) BY <1>1
  <2>1. CASE i = n BY <2>1, <1>1, <1>3 DEF Ticket, Marked
  <2>2. CASE i # n
    <3>1. Ticket(q[i], g, bars) /\ p[i] = q[i] /\ q[i].id # x.id BY <2>2, <1>1, <1>2 DEF Listed
    <3>2. q[i].id \in b2 <=> q[i].id \in bars BY <3>1
    <3> QED BY <3>1, <3>2 DEF Ticket
  <2> QED BY <2>1, <2>2
<1>6. Sorted(p, g) BY <1>1, <1>4 DEF Listed, Sorted
<1>7. IdsOf(p) = S BY <1>1, <1>4 DEF Listed, IdsOf
<1>8. x.id \in S BY <1>1, <1>2 DEF Listed, IdsOf
<1> QED BY <1>3, <1>5, <1>6, <1>7, <1>8 DEF Listed, x

\* addBarrier keeps the types, the books and the bus.
LEMMA BarrierParts ==
  ASSUME NEW s, Typed(s), BooksAgree(s.banks, s.ranks, s.command), Bus(s, 1), Aboard(s), Backed(s),
         BarrierTaken(s), NEW t, t = AddBarrier(s)
  PROVE  /\ Typed(t) /\ t.fault = s.fault /\ BooksAgree(t.banks, t.ranks, t.command) /\ Bus(t, 1)
         /\ Aboard(t) /\ Backed(t)
<1>0. IsChannel(s) BY DEF Typed
<1>1. /\ IsChannel(t)
      /\ t.held = IF WillAcceptTransaction(s) THEN s.held ELSE WithBarrier(s.held)
      /\ t.transactions = IF WillAcceptTransaction(s) THEN WithBarrier(s.transactions) ELSE s.transactions
      /\ t.onTheFly = s.onTheFly /\ t.replies = s.replies
  BY <1>0, BarrierFields
<1>2. /\ t.queues = s.queues /\ t.banks = s.banks /\ t.waiting = s.waiting
      /\ t.nextRank = s.nextRank /\ t.nextPre = s.nextPre /\ t.command = s.command
      /\ t.data = s.data /\ t.writes = s.writes /\ t.reads = s.reads /\ t.returns = s.returns
      /\ t.ranks = s.ranks /\ t.store = s.store /\ t.fault = s.fault
  BY <1>0, BarrierFields
<1>3. /\ s.held \in Seq(Transaction) /\ s.transactions \in Seq(Transaction)
      /\ Len(s.transactions) <= TransQueueDepth
  BY DEF Typed, QueuesTyped
<1>4. /\ t.held \in Seq(Transaction) /\ t.transactions \in Seq(Transaction)
      /\ Len(t.transactions) = Len(s.transactions)
      /\ t.held # <<>> => s.held # <<>>
      /\ s.transactions # <<>> => t.transactions # <<>>
  <2>1. CASE WillAcceptTransaction(s)
    <3>1. s.transactions # <<>> BY <2>1 DEF BarrierTaken
    <3> QED BY <3>1, <2>1, <1>1, <1>3, BarrierMembers
  <2>2. CASE ~WillAcceptTransaction(s)
    <3>1. s.held # <<>> BY <2>2 DEF BarrierTaken
    <3> QED BY <3>1, <2>2, <1>1, <1>3, BarrierMembers
  <2> QED BY <2>1, <2>2
<1>5. QueuesTyped(t) BY <1>2, <1>3, <1>4 DEF Typed, QueuesTyped
<1>6. DataTyped(t) BY <1>1, <1>2 DEF Typed, DataTyped
<1>7. Bus(t, 1) BY <1>2 DEF Bus
<1>8. Aboard(t) BY <1>2 DEF Aboard
<1>9. Backed(t) BY <1>2, <1>4 DEF Backed
<1> QED BY <1>1, <1>2, <1>5, <1>6, <1>7, <1>8, <1>9 DEF Typed

\* addBarrier keeps the ledger, with the tagged request among the barriers.
LEMMA BarrierSound ==
  ASSUME NEW s, Typed(s), NEW g, NEW loc, NEW bars, NEW P, NEW mem, Sound(s, g, loc, bars, P, mem),
         BarrierTaken(s), NEW t, t = AddBarrier(s)
  PROVE  /\ Sound(t, g, loc, bars \cup {Tagged(s).id}, P, mem)
         /\ Tagged(s).id \in At(loc, Entrance(s)) /\ g[Tagged(s).id].place = Tagged(s).place
<1> DEFINE x == Tagged(s).id
           b2 == bars \cup {x}
<1>1. /\ g \in [Ids -> Request] /\ loc \in [Ids -> 0 .. 9] /\ bars \subseteq Ids
      /\ Listed(s.held, g, bars, At(loc, 0)) /\ Listed(s.transactions, g, bars, At(loc, 1))
      /\ QueuesLedger(s.queues, g, bars, At(loc, 2))
      /\ CommandLedger(s.command, g, At(loc, 3), Waits(loc))
      /\ WritesLedger(s.writes, s.data, g, At(loc, 7), At(loc, 8))
      /\ ReadsLedger(s.reads, g, Expected(g, loc), Fetched(loc))
  BY SoundParts
<1>2. /\ RanksLedger(s.ranks, g, At(loc, 4), At(loc, 5)) /\ ReturnsLedger(s.returns, g, At(loc, 6))
      /\ Ordered(g, loc) /\ Counted(s, Owed(loc)) /\ Chain(Undone(s.command, loc), s.store, mem, g)
      /\ Answered(s.replies, g, P, Owed(loc))
  BY SoundParts
<1>3. /\ t.held = IF WillAcceptTransaction(s) THEN s.held ELSE WithBarrier(s.held)
      /\ t.transactions = IF WillAcceptTransaction(s) THEN WithBarrier(s.transactions) ELSE s.transactions
      /\ t.onTheFly = s.onTheFly /\ t.queues = s.queues /\ t.command = s.command /\ t.data = s.data
      /\ t.writes = s.writes /\ t.reads = s.reads /\ t.returns = s.returns
      /\ t.ranks = s.ranks /\ t.store = s.store /\ t.replies = s.replies
  <2>1. IsChannel(s) BY DEF Typed
  <2> QED BY <2>1, BarrierFields
<1>4. s.held \in Seq(Transaction) /\ s.transactions \in Seq(Transaction)
  BY DEF Typed, QueuesTyped
<1>5. /\ \A i, j \in DOMAIN s.held : i # j => s.held[i].id # s.held[j].id
      /\ \A i, j \in DOMAIN s.transactions : i # j => s.transactions[i].id # s.transactions[j].id
  <2>1. /\ \A i \in DOMAIN s.held : s.held[i].id \in Ids
        /\ \A i \in DOMAIN s.transactions : s.transactions[i].id \in Ids
    <3>1. /\ \A i \in DOMAIN s.held : s.held[i] \in Transaction
          /\ \A i \in DOMAIN s.transactions : s.transactions[i] \in Transaction
      BY <1>4, ElementOfSeq, LenProperties
    <3> QED BY <3>1 DEF Transaction
  <2>2. /\ \A i \in DOMAIN s.held : g[s.held[i].id].stamp \in Nat
        /\ \A i \in DOMAIN s.transactions : g[s.transactions[i].id].stamp \in Nat
    BY <2>1, <1>1, GhostFields
  <2>3. Sorted(s.held, g) /\ Sorted(s.transactions, g) BY <1>1 DEF Listed
  <2> QED BY <2>2, <2>3, <1>4, SortedDistinct
<1>6. /\ Listed(t.held, g, b2, At(loc, 0)) /\ Listed(t.transactions, g, b2, At(loc, 1))
      /\ x \in At(loc, Entrance(s)) /\ Ticket(Tagged(s), g, bars)
  <2>1. CASE WillAcceptTransaction(s)
    <3> DEFINE q == s.transactions
    <3>1. q # <<>> /\ q \in Seq(Transaction) /\ Listed(q, g, bars, At(loc, 1))
          /\ \A i, j \in DOMAIN q : i # j => q[i].id # q[j].id
      BY <2>1, <1>1, <1>4, <1>5 DEF BarrierTaken
    <3>2. Tagged(s) = Youngest(q) /\ t.transactions = WithBarrier(q) /\ t.held = s.held /\ Entrance(s) = 1
      BY <2>1, <1>3 DEF Tagged, Entrance
    <3> HIDE DEF q, x
    <3>3. Listed(WithBarrier(q), g, bars \cup {Youngest(q).id}, At(loc, 1)) /\ Youngest(q).id \in At(loc, 1)
          /\ Ticket(Youngest(q), g, bars)
      BY <3>1, BarrierListed
    <3>4. x \in At(loc, 1) /\ x = Youngest(q).id BY <3>2, <3>3 DEF x
    <3>5. SameOn(At(loc, 0), g, g, bars, b2) BY <3>4 DEF SameOn, At
    <3>6. Listed(t.held, g, b2, At(loc, 0)) BY <3>2, <3>5, <1>1, ListedSame
    <3> QED BY <3>2, <3>3, <3>4, <3>6
  <2>2. CASE ~WillAcceptTransaction(s)
    <3> DEFINE q == s.held
    <3>1. q # <<>> /\ q \in Seq(Transaction) /\ Listed(q, g, bars, At(loc, 0))
          /\ \A i, j \in DOMAIN q : i # j => q[i].id # q[j].id
      BY <2>2, <1>1, <1>4, <1>5 DEF BarrierTaken
    <3>2. Tagged(s) = Youngest(q) /\ t.held = WithBarrier(q) /\ t.transactions = s.transactions /\ Entrance(s) = 0
      BY <2>2, <1>3 DEF Tagged, Entrance
    <3> HIDE DEF q, x
    <3>3. Listed(WithBarrier(q), g, bars \cup {Youngest(q).id}, At(loc, 0)) /\ Youngest(q).id \in At(loc, 0)
          /\ Ticket(Youngest(q), g, bars)
      BY <3>1, BarrierListed
    <3>4. x \in At(loc, 0) /\ x = Youngest(q).id BY <3>2, <3>3 DEF x
    <3>5. SameOn(At(loc, 1), g, g, bars, b2) BY <3>4 DEF SameOn, At
    <3>6. Listed(t.transactions, g, b2, At(loc, 1)) BY <3>2, <3>5, <1>1, ListedSame
    <3> QED BY <3>2, <3>3, <3>4, <3>6
  <2> QED BY <2>1, <2>2
<1> HIDE DEF x
<1>7. QueuesLedger(t.queues, g, b2, At(loc, 2))
  <2>1. SameOn(At(loc, 2), g, g, bars, b2)
    <3>1. x \notin At(loc, 2) BY <1>6 DEF At, Entrance
    <3> QED BY <3>1 DEF SameOn
  <2> QED BY <2>1, <1>1, <1>3, QueuesSame
<1>8. Counted(t, Owed(loc))
  <2>1. Len(t.held) = Len(s.held) BY <1>3, <1>4, BarrierMembers DEF BarrierTaken
  <2> QED BY <2>1, <1>2, <1>3 DEF Counted
<1>9. b2 \subseteq Ids /\ g[x].place = Tagged(s).place BY <1>1, <1>6 DEF At, Ticket, x
<1>10. Sound(t, g, loc, b2, P, mem) BY <1>1, <1>2, <1>3, <1>6, <1>7, <1>8, <1>9, SoundFrom
<1> QED BY <1>6, <1>9, <1>10 DEF x

(* What the client was promised, through a request, a barrier, an update.  *)

LEMMA UnissuedWaits ==
  ASSUME NEW s, NEW g, NEW loc, NEW bars, NEW P, NEW mem, Sound(s, g, loc, bars, P, mem)
  PROVE  Unissued(s) = Waits(loc)
<1>1. /\ g \in [Ids -> Request] /\ loc \in [Ids -> 0 .. 9]
      /\ Listed(s.held, g, bars, At(loc, 0)) /\ Listed(s.transactions, g, bars, At(loc, 1))
      /\ QueuesLedger(s.queues, g, bars, At(loc, 2))
  BY SoundParts
<1>2. IdsOf(s.held) = At(loc, 0) /\ IdsOf(s.transactions) = At(loc, 1) BY <1>1 DEF Listed
<1>3. \A r \in Ranks : IdsOf(s.queues[r]) = To(At(loc, 2), r, g)
  BY <1>1 DEF QueuesLedger, Queued
<1>4. UNION {IdsOf(s.queues[r]) : r \in Ranks} = At(loc, 2)
  <2>1. \A r \in Ranks : IdsOf(s.queues[r]) \subseteq At(loc, 2) BY <1>3 DEF To
  <2>2. \A id \in At(loc, 2) : g[id].place.rank \in Ranks /\ id \in IdsOf(s.queues[g[id].place.rank])
    <3> SUFFICES ASSUME NEW id \in At(loc, 2)
                 PROVE  g[id].place.rank \in Ranks /\ id \in IdsOf(s.queues[g[id].place.rank])
      OBVIOUS
    <3>1. g[id].place.rank \in Ranks BY <1>1, GhostFields DEF At
    <3>2. id \in To(At(loc, 2), g[id].place.rank, g) BY DEF To
    <3> QED BY <3>1, <3>2, <1>3
  <2> QED BY <2>1, <2>2
<1>5. Waits(loc) = At(loc, 0) \cup At(loc, 1) \cup At(loc, 2) BY <1>1 DEF Waits, At, InQueue
<1> QED BY <1>2, <1>4, <1>5 DEF Unissued

\* A request behind a fence waits for what the fence of its rank names.
LEMMA FenceSubmit ==
  ASSUME NEW g \in [Ids -> Request], NEW bars, NEW W \in SUBSET Ids, NEW fenced, NEW behind,
         Fence(g, W, bars, fenced, behind), NEW id \in Ids, id \notin W, id \notin DOMAIN behind,
         NEW h, \A z \in Ids : z # id => h[z] = g[z] /\ h[z].stamp < h[id].stamp,
         NEW before, before \subseteq fenced, \A x \in before : g[x].place.rank = h[id].place.rank
  PROVE  Fence(h, W \cup {id}, bars \ {id}, fenced, Extended(behind, id, before))
<1> DEFINE V == W \cup {id}
           b2 == bars \ {id}
           behind2 == Extended(behind, id, before)
<1>1. \A x \in W, y \in Ids : FencedAt(x, y, g, W, bars) => FencedAt(x, y, h, V, b2)
  <2> SUFFICES ASSUME NEW x \in W, NEW y \in Ids, FencedAt(x, y, g, W, bars) PROVE FencedAt(x, y, h, V, b2)
    OBVIOUS
  <2>1. x # id /\ y # id BY DEF FencedAt
  <2> QED BY <2>1 DEF FencedAt
<1>2. \A x \in fenced : x \in W /\ \E y \in Ids : FencedAt(x, y, g, W, bars) BY DEF Fence
<1>3. \A x \in fenced : x \in V /\ \E y \in Ids : FencedAt(x, y, h, V, b2) BY <1>1, <1>2
<1>4. ASSUME NEW z \in DOMAIN behind2, NEW x \in behind2[z]
      PROVE  /\ x \in V /\ z \in V /\ h[x].place.rank = h[z].place.rank
             /\ \E y \in Ids : FencedAt(x, y, h, V, b2) /\ h[y].stamp < h[z].stamp
  <2>1. CASE z = id
    <3>1. x \in before BY <2>1 DEF Extended
    <3>2. x \in W BY <3>1, <1>2
    <3>3. PICK y \in Ids : FencedAt(x, y, g, W, bars) BY <3>1, <1>2
    <3>4. y # id BY <3>3 DEF FencedAt
    <3>5. FencedAt(x, y, h, V, b2) /\ h[y].stamp < h[z].stamp BY <3>2, <3>3, <3>4, <2>1, <1>1
    <3>6. x # id /\ h[x].place.rank = h[z].place.rank BY <3>1, <3>2, <2>1
    <3> QED BY <3>2, <3>5, <3>6, <2>1
  <2>2. CASE z # id
    <3>1. z \in DOMAIN behind /\ x \in behind[z] BY <2>2 DEF Extended
    <3>2. /\ x \in W /\ z \in W /\ g[x].place.rank = g[z].place.rank
          /\ \E y \in Ids : FencedAt(x, y, g, W, bars) /\ g[y].stamp < g[z].stamp
      BY <3>1 DEF Fence
    <3>3. PICK y \in Ids : FencedAt(x, y, g, W, bars) /\ g[y].stamp < g[z].stamp BY <3>2
    <3>4. y # id /\ x # id /\ z \in Ids /\ x \in Ids BY <3>2, <3>3 DEF FencedAt
    <3>5. h[x] = g[x] /\ h[y] = g[y] /\ h[z] = g[z] BY <3>4, <2>2
    <3>6. FencedAt(x, y, h, V, b2) BY <3>2, <3>3, <1>1
    <3> QED BY <3>2, <3>3, <3>5, <3>6
  <2> QED BY <2>1, <2>2
<1> QED BY <1>3, <1>4 DEF Fence

\* A new barrier fences the older requests of its rank that are not issued.
LEMMA FenceGrows ==
  ASSUME NEW g, NEW bars, NEW W, NEW fenced, NEW behind, Fence(g, W, bars, fenced, behind),
         NEW x \in Ids, x \in W, NEW more \in SUBSET W,
         \A u \in more : g[u].place.rank = g[x].place.rank /\ (u = x \/ g[u].stamp < g[x].stamp)
  PROVE  Fence(g, W, bars \cup {x}, fenced \cup more, behind)
<1>1. \A u, y \in Ids : FencedAt(u, y, g, W, bars) => FencedAt(u, y, g, W, bars \cup {x})
  BY DEF FencedAt
<1>2. \A u, y : FencedAt(u, y, g, W, bars) => FencedAt(u, y, g, W, bars \cup {x})
  BY DEF FencedAt
<1>3. \A u \in more : FencedAt(u, x, g, W, bars \cup {x}) BY DEF FencedAt
<1>4. \A u \in fenced \cup more : u \in W /\ \E y \in Ids : FencedAt(u, y, g, W, bars \cup {x})
  BY <1>2, <1>3 DEF Fence
<1>5. ASSUME NEW id \in DOMAIN behind, NEW u \in behind[id]
      PROVE  /\ u \in W /\ id \in W /\ g[u].place.rank = g[id].place.rank
             /\ \E y \in Ids : FencedAt(u, y, g, W, bars \cup {x}) /\ g[y].stamp < g[id].stamp
  <2>1. /\ u \in W /\ id \in W /\ g[u].place.rank = g[id].place.rank
        /\ \E y \in Ids : FencedAt(u, y, g, W, bars) /\ g[y].stamp < g[id].stamp
    BY DEF Fence
  <2> QED BY <2>1, <1>2
<1> QED BY <1>4, <1>5 DEF Fence

\* A cycle issues no request ahead of a barrier, so a fence only loses what has been issued.
LEMMA FenceTick ==
  ASSUME NEW g, NEW bars, NEW W \in SUBSET Ids, NEW fenced, NEW behind, Fence(g, W, bars, fenced, behind),
         NEW V, Passed(g, bars, W, V), NEW left, left \subseteq DOMAIN behind
  PROVE  Fence(g, V, bars, fenced \cap V, [id \in left |-> behind[id] \cap V])
<1>1. V \subseteq W BY DEF Passed
<1>2. ASSUME NEW x \in V, NEW y \in Ids, FencedAt(x, y, g, W, bars) PROVE FencedAt(x, y, g, V, bars)
  <2>1. y \in V
    <3> SUFFICES ASSUME y \notin V PROVE FALSE OBVIOUS
    <3>1. y \in W \ V /\ x \in W /\ g[x].place.rank = g[y].place.rank /\ g[x].stamp < g[y].stamp /\ y \in bars
      BY <1>1, <1>2 DEF FencedAt
    <3> QED BY <3>1 DEF Passed
  <2> QED BY <2>1, <1>2 DEF FencedAt
<1>3. \A x \in fenced \cap V : x \in V /\ \E y \in Ids : FencedAt(x, y, g, V, bars)
  BY <1>2 DEF Fence
<1>4. ASSUME NEW id \in left, NEW x \in behind[id] \cap V
      PROVE  /\ x \in V /\ id \in V /\ g[x].place.rank = g[id].place.rank
             /\ \E y \in Ids : FencedAt(x, y, g, V, bars) /\ g[y].stamp < g[id].stamp
  <2>1. /\ x \in W /\ id \in W /\ g[x].place.rank = g[id].place.rank
        /\ \E y \in Ids : FencedAt(x, y, g, W, bars) /\ g[y].stamp < g[id].stamp
    BY DEF Fence
  <2>2. PICK y \in Ids : FencedAt(x, y, g, W, bars) /\ g[y].stamp < g[id].stamp BY <2>1
  <2>3. FencedAt(x, y, g, V, bars) BY <2>2, <1>2
  <2>4. id \in V
    <3> SUFFICES ASSUME id \notin V PROVE FALSE OBVIOUS
    <3>1. /\ id \in W \ V /\ y \in W /\ g[y].place.rank = g[id].place.rank /\ g[y].stamp < g[id].stamp
          /\ y \in bars
      BY <2>1, <2>2 DEF FencedAt
    <3> QED BY <3>1 DEF Passed
  <2> QED BY <2>1, <2>2, <2>3, <2>4
<1> QED BY <1>3, <1>4 DEF Fence

\* The ids that are answered are those that are owed no more.
LEMMA OwedLeft ==
  ASSUME NEW replies, NEW g, NEW P, NEW O, Answered(replies, g, P, O)
  PROVE  P \ {a.id : a \in replies} = O
<1>1. \A x : x \in {a.id : a \in replies} <=> x \in P \ O
  <2>1. ASSUME NEW x, x \in {a.id : a \in replies} PROVE x \in P \ O
    <3>1. PICK a \in replies : x = a.id BY <2>1
    <3>2. PICK id \in P \ O : a = [id |-> id, value |-> g[id].value] BY <3>1 DEF Answered
    <3> QED BY <3>1, <3>2
  <2>2. ASSUME NEW x, x \in P \ O PROVE x \in {a.id : a \in replies}
    <3>1. [id |-> x, value |-> g[x].value] \in replies BY <2>2 DEF Answered
    <3>2. [id |-> x, value |-> g[x].value].id = x OBVIOUS
    <3> QED BY <3>1, <3>2
  <2> QED BY <2>1, <2>2
<1> QED BY <1>1 DEF Answered

IsClient(c) == DOMAIN c = {"memory", "promised", "fenced", "rankOf", "behind", "submitted", "barriers"}
ClientTyped(c) == IsClient(c) /\ c.memory \in [Places -> Values]

ChannelInv(s) ==
  /\ Typed(s) /\ s.fault = {} /\ BooksAgree(s.banks, s.ranks, s.command) /\ Bus(s, 1)
  /\ Aboard(s) /\ Backed(s)

Young(g, n) == n \in Nat /\ \A id \in Ids : g[id].stamp < n

Kept(s, c, g, loc, bars, P) ==
  /\ Sound(s, g, loc, bars, P, c.memory)
  /\ Fence(g, Waits(loc), bars, c.fenced, c.behind)
  /\ Promised(g, loc, c)
  /\ \E n : Young(g, n)

\* The inductive invariant.
IInv ==
  /\ ChannelInv(sys) /\ Timers(refresh) /\ ClientTyped(client)
  /\ \E g, loc, bars, P : Kept(sys, client, g, loc, bars, P)

-----------------------------------------------------------------------------
(* The first state.                                                        *)

LEMMA SysInitFields ==
  ASSUME NEW s, s = SysInit
  PROVE  /\ IsChannel(s) /\ s.held = <<>> /\ s.transactions = <<>> /\ s.onTheFly = 0
         /\ s.queues = [r \in Ranks |-> <<>>]
         /\ s.banks = [r \in Ranks |-> [b \in Banks |-> BankInit]] /\ s.waiting = None
         /\ s.nextRank = 0 /\ s.nextPre = 0 /\ s.command = None /\ s.data = None /\ s.writes = <<>>
         /\ s.reads = <<>> /\ s.returns = <<>> /\ s.ranks = [r \in Ranks |-> RankInit]
         /\ s.store = [p \in Places |-> Unwritten] /\ s.replies = {} /\ s.fault = {}
BY DEF SysInit, IsChannel, Fields

\* A bank starts idle.
LEMMA BankInitType == BankInit \in Bank
BY ConstantTypes DEF BankInit, Bank, States

\* The empty list has no member and no id.
LEMMA NoElements ==
  /\ \A S : <<>> \in Seq(S)
  /\ Len(<<>>) = 0 /\ DOMAIN <<>> = {} /\ IdsOf(<<>>) = {}
BY EmptySeq DEF IdsOf

\* The channel starts typed.
LEMMA SysInitTyped ==
  ASSUME NEW s, s = SysInit
  PROVE  Typed(s)
<1>1. /\ IsChannel(s) /\ s.held = <<>> /\ s.transactions = <<>> /\ s.onTheFly = 0
      /\ s.queues = [r \in Ranks |-> <<>>]
      /\ s.banks = [r \in Ranks |-> [b \in Banks |-> BankInit]] /\ s.waiting = None
      /\ s.nextRank = 0 /\ s.nextPre = 0 /\ s.command = None /\ s.data = None /\ s.writes = <<>>
      /\ s.reads = <<>> /\ s.returns = <<>> /\ s.ranks = [r \in Ranks |-> RankInit]
      /\ s.store = [p \in Places |-> Unwritten] /\ s.replies = {}
  BY SysInitFields
<1>2. s.banks \in [Ranks -> [Banks -> Bank]] BY <1>1, BankInitType
<1>3. 0 \in 0 .. NumRanks * NumBanks - 1
  <2>1. NumRanks \in Nat \ {0} /\ NumBanks \in Nat \ {0} BY ConstantTypes
  <2>2. NumRanks * NumBanks \in Nat /\ NumRanks * NumBanks >= 1 BY <2>1
  <2> QED BY <2>2
<1>4. /\ s.queues \in [Ranks -> Seq(Located)]
      /\ \A r \in Ranks : Len(s.queues[r]) <= CmdQueueDepth /\ DOMAIN s.queues[r] = {}
  BY <1>1, NoElements, ConstantTypes
<1>5. QueuesTyped(s)
  <2>1. Len(s.transactions) <= TransQueueDepth BY <1>1, NoElements, ConstantTypes
  <2>2. s.held \in Seq(Transaction) /\ s.transactions \in Seq(Transaction) BY <1>1, NoElements
  <2>3. s.waiting \in Ranks \cup {None} /\ s.nextRank \in Ranks /\ s.command \in Command \cup {None}
    BY <1>1, ConstantTypes
  <2>4. s.nextPre \in 0 .. NumRanks * NumBanks - 1 BY <1>1, <1>3
  <2>5. \A r \in Ranks : \A i \in DOMAIN s.queues[r] : s.queues[r][i].rank = r BY <1>4
  <2> HIDE DEF SysInit
  <2> QED BY <1>2, <1>4, <2>1, <2>2, <2>3, <2>4, <2>5 DEF QueuesTyped
<1>6. RankInit \in RankState
  <2>1. [b \in Banks |-> BankInit] \in [Banks -> Bank] BY BankInitType
  <2>2. <<>> \in Seq(Burst) BY NoElements
  <2> QED BY <2>1, <2>2 DEF RankInit, RankState
<1>7. s.ranks \in [Ranks -> RankState] /\ \A r \in Ranks : s.ranks[r].reads = <<>> /\ s.ranks[r].out = None
  <2>1. RankInit.reads = <<>> /\ RankInit.out = None BY DEF RankInit
  <2> QED BY <2>1, <1>1, <1>6
<1>8. DataTyped(s)
  <2>1. /\ s.data \in WriteData \cup {None} /\ s.writes \in Seq(WriteData) /\ s.reads \in Seq(Pending)
        /\ s.returns \in Seq(Returned)
    BY <1>1, NoElements
  <2>2. \A r \in Ranks : /\ \A i \in DOMAIN s.ranks[r].reads : s.ranks[r].reads[i].read.place.rank = r
                         /\ s.ranks[r].out # None => s.ranks[r].out.read.place.rank = r
    BY <1>7, NoElements
  <2>3. Unwritten \in Values BY DEF Unwritten, Values
  <2>4. s.store \in [Places -> Values] /\ s.onTheFly \in Int /\ s.replies \subseteq Reply
    BY <1>1, <2>3
  <2> QED BY <1>7, <2>1, <2>2, <2>4 DEF DataTyped
<1> QED BY <1>1, <1>5, <1>8 DEF Typed

\* The channel starts with the books equal to the ranks and an idle bus.
LEMMA SysInitParts ==
  ASSUME NEW s, s = SysInit
  PROVE  ChannelInv(s)
<1>1. Typed(s) BY SysInitTyped
<1>2. /\ s.held = <<>> /\ s.banks = [r \in Ranks |-> [b \in Banks |-> BankInit]]
      /\ s.command = None /\ s.data = None /\ s.writes = <<>>
      /\ s.ranks = [r \in Ranks |-> RankInit] /\ s.fault = {}
  BY SysInitFields
<1>3. /\ RankInit.reads = <<>> /\ RankInit.out = None
      /\ RankInit.banks = [b \in Banks |-> BankInit]
  BY DEF RankInit
<1>4. /\ \A r \in Ranks : /\ s.ranks[r].reads = <<>> /\ s.ranks[r].out = None
                          /\ s.ranks[r].banks = [b \in Banks |-> BankInit]
      /\ \A r \in Ranks : s.banks[r] = [b \in Banks |-> BankInit]
  BY <1>2, <1>3
<1>5. BooksAgree(s.banks, s.ranks, s.command)
  <2>1. Behind(BankInit, BankInit) BY BankInitType, BankFields DEF Behind, BankInit
  <2>2. \A r \in Ranks, b \in Banks : Behind(Arrived(s.ranks[r].banks, r, None)[b], s.banks[r][b])
    BY <2>1, <1>4 DEF Arrived
  <2> QED BY <2>2, <1>2 DEF BooksAgree
<1>6. Bus(s, 1)
  <2>1. WriteBus(s.writes, s.data, s.banks, 1) BY <1>2, NoElements DEF WriteBus
  <2>2. ASSUME NEW r \in Ranks
        PROVE  LET v == Coming(s.ranks[r], r, s.command)
               IN  /\ ReadBus(v, s.ranks[r].out, s.banks[r], 1)
                   /\ TurnAround(v, s.ranks[r].out, s.writes, s.data, s.banks[r], r, 1)
    <3>1. Coming(s.ranks[r], r, s.command) = <<>> BY <1>2, <1>4 DEF Coming
    <3>2. ReadBus(<<>>, s.ranks[r].out, s.banks[r], 1) BY <1>4, NoElements DEF ReadBus
    <3>3. TurnAround(<<>>, s.ranks[r].out, s.writes, s.data, s.banks[r], r, 1)
      BY <1>2, NoElements DEF TurnAround
    <3> QED BY <3>1, <3>2, <3>3
  <2> QED BY <2>1, <2>2 DEF Bus
<1> QED BY <1>1, <1>2, <1>5, <1>6 DEF ChannelInv, Aboard, Backed

\* At the start nothing is owed.
LEMMA NothingOwed ==
  ASSUME NEW loc, loc = [id \in Ids |-> 9], NEW g
  PROVE  /\ loc \in [Ids -> 0 .. 9] /\ \A k \in 0 .. 8 : At(loc, k) = {}
         /\ Waits(loc) = {} /\ Owed(loc) = {} /\ Fetched(loc) = {} /\ Expected(g, loc) = {}
         /\ Undone(None, loc) = {} /\ Ordered(g, loc)
<1>1. \A id \in Ids : loc[id] = 9 OBVIOUS
<1>2. loc \in [Ids -> 0 .. 9] OBVIOUS
<1>3. \A k \in 0 .. 8 : At(loc, k) = {} BY <1>1 DEF At
<1>4. Waits(loc) = {} /\ Owed(loc) = {} /\ Fetched(loc) = {}
  BY <1>1 DEF Waits, Owed, Fetched, InQueue, Free, InRank, InReturns
<1>5. Expected(g, loc) = {} /\ Undone(None, loc) = {}
  BY <1>1 DEF Expected, Undone, InQueue, OnBus, InReturns
<1>6. Ordered(g, loc) BY <1>1 DEF Ordered, InHeld, InQueue, OnBus, InReturns
<1> QED BY <1>2, <1>3, <1>4, <1>5, <1>6

\* The ledger of the initial state is empty.
LEMMA InitSound ==
  ASSUME NEW s, s = SysInit, NEW q \in Request, NEW g, g = [id \in Ids |-> q],
         NEW loc, loc = [id \in Ids |-> 9], NEW mem, mem = [p \in Places |-> Unwritten]
  PROVE  Sound(s, g, loc, {}, {}, mem)
<1>1. /\ s.held = <<>> /\ s.transactions = <<>> /\ s.onTheFly = 0 /\ s.queues = [r \in Ranks |-> <<>>]
      /\ s.command = None /\ s.data = None /\ s.writes = <<>> /\ s.reads = <<>> /\ s.returns = <<>>
      /\ s.ranks = [r \in Ranks |-> RankInit] /\ s.store = mem /\ s.replies = {}
  BY SysInitFields
<1>2. g \in [Ids -> Request] OBVIOUS
<1>3. /\ loc \in [Ids -> 0 .. 9] /\ \A k \in 0 .. 8 : At(loc, k) = {}
      /\ Waits(loc) = {} /\ Owed(loc) = {} /\ Fetched(loc) = {} /\ Expected(g, loc) = {}
      /\ Undone(None, loc) = {} /\ Ordered(g, loc)
  BY NothingOwed
<1>4. /\ At(loc, 0) = {} /\ At(loc, 1) = {} /\ At(loc, 2) = {} /\ At(loc, 3) = {} /\ At(loc, 4) = {}
      /\ At(loc, 5) = {} /\ At(loc, 6) = {} /\ At(loc, 7) = {} /\ At(loc, 8) = {}
  BY <1>3
<1>5. Listed(s.held, g, {}, At(loc, 0)) /\ Listed(s.transactions, g, {}, At(loc, 1))
  BY <1>1, <1>4, NoElements DEF Listed, Sorted
<1>6. QueuesLedger(s.queues, g, {}, At(loc, 2))
  <2> SUFFICES ASSUME NEW r \in Ranks PROVE Queued(s.queues[r], g, {}, To(At(loc, 2), r, g))
    BY DEF QueuesLedger
  <2>1. s.queues[r] = <<>> /\ To(At(loc, 2), r, g) = {} BY <1>1, <1>4 DEF To
  <2> QED BY <2>1, NoElements DEF Queued, Sorted
<1>7. CommandLedger(s.command, g, At(loc, 3), Waits(loc)) BY <1>1, <1>4 DEF CommandLedger
<1>8. WritesLedger(s.writes, s.data, g, At(loc, 7), At(loc, 8))
  BY <1>1, NoElements DEF WritesLedger
<1>9. ReadsLedger(s.reads, g, Expected(g, loc), Fetched(loc))
  BY <1>1, <1>3, NoElements DEF ReadsLedger, Apart
<1>10. RanksLedger(s.ranks, g, At(loc, 4), At(loc, 5))
  <2> SUFFICES ASSUME NEW r \in Ranks
               PROVE  RankLedger(s.ranks[r].reads, s.ranks[r].out, g, To(At(loc, 4), r, g), To(At(loc, 5), r, g))
    BY DEF RanksLedger
  <2>1. s.ranks[r].reads = <<>> /\ s.ranks[r].out = None BY <1>1 DEF RankInit
  <2>2. To(At(loc, 4), r, g) = {} /\ To(At(loc, 5), r, g) = {} BY <1>4 DEF To
  <2>3. BurstIds(<<>>) = {} BY NoElements DEF BurstIds
  <2> QED BY <2>1, <2>2, <2>3, NoElements DEF RankLedger, BurstsApart
<1>11. ReturnsLedger(s.returns, g, At(loc, 6))
  BY <1>1, <1>4, NoElements DEF ReturnsLedger, Apart
<1>12. Counted(s, Owed(loc))
  <2>1. s.onTheFly + Len(s.held) = 0 BY <1>1, NoElements
  <2>2. Cardinality({}) = 0 BY FS_EmptySet
  <2> QED BY <2>1, <2>2, <1>3 DEF Counted
<1>13. Chain(Undone(s.command, loc), s.store, mem, g)
  BY <1>1, <1>3 DEF Chain, ReadsStore, ReadsWrite, StoreKept, LastWrite
<1>14. Answered(s.replies, g, {}, Owed(loc))
  <2>1. {[id |-> id, value |-> g[id].value] : id \in {} \ {}} = {} OBVIOUS
  <2> QED BY <2>1, <1>1, <1>3 DEF Answered
<1>15. {} \subseteq Ids OBVIOUS
<1> QED BY <1>2, <1>3, <1>5, <1>6, <1>7, <1>8, <1>9, <1>10, <1>11, <1>12, <1>13, <1>14, <1>15, SoundFrom

\* There is a request to put in the ledger where nothing is owed.
LEMMA SomeRequest == \E q \in Request : q.stamp = 0
<1>1. PICK p \in Places : TRUE BY ControllerAssumption DEF Places
<1>2. [stamp |-> 0, write |-> FALSE, token |-> FALSE, place |-> p, value |-> 0] \in Request
  BY DEF Request, Values
<1>3. [stamp |-> 0, write |-> FALSE, token |-> FALSE, place |-> p, value |-> 0].stamp = 0
  OBVIOUS
<1> QED BY <1>2, <1>3

\* The invariant holds initially.
LEMMA InitKept ==
  ASSUME Init
  PROVE  IInv
<1>1. ChannelInv(sys) BY SysInitParts DEF Init
<1>2. Timers(refresh) BY TimersInit DEF Init
<1>3. /\ IsClient(client) /\ client.memory = [p \in Places |-> Unwritten]
      /\ client.promised = [id \in {} |-> Unwritten] /\ client.fenced = {}
      /\ client.rankOf = [id \in {} |-> 0] /\ client.behind = [id \in {} |-> {}]
  BY DEF Init, IsClient
<1>4. ClientTyped(client)
  <2>1. Unwritten \in Values BY DEF Unwritten, Values
  <2> QED BY <2>1, <1>3 DEF ClientTyped
<1>5. PICK q \in Request : q.stamp = 0 BY SomeRequest
<1> DEFINE g == [id \in Ids |-> q]
           loc == [id \in Ids |-> 9]
<1>6. Sound(sys, g, loc, {}, {}, client.memory) BY <1>3, InitSound DEF Init
<1>7. Waits(loc) = {} /\ Owed(loc) = {} BY NothingOwed
<1>8. \A id \in Ids : g[id].stamp < 1 BY <1>5
<1> HIDE DEF g, loc
<1>9. Fence(g, Waits(loc), {}, client.fenced, client.behind) BY <1>3 DEF Fence
<1>10. Promised(g, loc, client) BY <1>3, <1>7 DEF Promised
<1>11. Young(g, 1) BY <1>8 DEF Young
<1>12. Kept(sys, client, g, loc, {}, {}) BY <1>6, <1>9, <1>10, <1>11 DEF Kept
<1> QED BY <1>1, <1>2, <1>4, <1>12 DEF IInv

-----------------------------------------------------------------------------
(* A request.                                                              *)

NewId(c) == Least(Ids \ DOMAIN c.promised)
NewValue(c, q) == IF q.write THEN (c.memory[q.place] + 1) % 3 ELSE c.memory[q.place]
NewTransaction(c, q) == [id |-> NewId(c), write |-> q.write, token |-> q.token,
                         place |-> q.place, value |-> NewValue(c, q), bar |-> FALSE]
Before(c, q) == {x \in c.fenced : c.rankOf[x] = q.place.rank}

Submits(s, c, q, t, c2) ==
  /\ Ids \ DOMAIN c.promised # {} /\ (s.held = <<>> \/ ~WillAcceptTransaction(s))
  /\ t = Accepted(s, NewTransaction(c, q))
  /\ IsClient(c2) /\ c2.memory = [c.memory EXCEPT ![q.place] = NewValue(c, q)] /\ c2.fenced = c.fenced
  /\ c2.promised = Extended(c.promised, NewId(c), NewValue(c, q))
  /\ c2.rankOf = Extended(c.rankOf, NewId(c), q.place.rank)
  /\ c2.behind = Extended(c.behind, NewId(c), Before(c, q))

\* The kinds of requests a client makes.
LEMMA RequestTypes ==
  ASSUME NEW q \in Requests
  PROVE  q.write \in BOOLEAN /\ q.token \in BOOLEAN /\ q.place \in Places /\ q.place.rank \in Ranks
<1>1. q.place \in Places BY DEF Places
<1>2. q.write \in BOOLEAN /\ q.token \in BOOLEAN BY ControllerAssumption
<1>3. q.place.rank \in Ranks BY <1>1, PlaceType
<1> QED BY <1>1, <1>2, <1>3

\* A new transaction has an id that is not in use.
LEMMA NewTransactionType ==
  ASSUME NEW c, ClientTyped(c), NEW q \in Requests, Ids \ DOMAIN c.promised # {}
  PROVE  /\ NewId(c) \in Ids /\ NewId(c) \notin DOMAIN c.promised /\ NewValue(c, q) \in Values
         /\ NewTransaction(c, q) \in Transaction
<1>1. q.write \in BOOLEAN /\ q.token \in BOOLEAN /\ q.place \in Places BY RequestTypes
<1>2. Ids \ DOMAIN c.promised \in SUBSET Nat BY DEF Ids
<1>3. NewId(c) \in Ids \ DOMAIN c.promised
  <2> DEFINE N == Ids \ DOMAIN c.promised
  <2>1. N \in SUBSET Nat /\ N # {} /\ NewId(c) = Least(N) BY <1>2 DEF NewId
  <2> HIDE DEF N
  <2>2. NewId(c) \in N BY <2>1, LeastExists
  <2> QED BY <2>2 DEF N
<1>4. c.memory[q.place] \in 0 .. 2 BY <1>1 DEF ClientTyped, Values
<1>5. NewValue(c, q) \in Values BY <1>4 DEF NewValue, Values
<1>6. NewTransaction(c, q) \in Transaction BY <1>1, <1>3, <1>5 DEF NewTransaction, Transaction
<1> QED BY <1>3, <1>5, <1>6

\* A client's submission (addTransaction) keeps the invariant.
LEMMA SubmitsKept ==
  ASSUME NEW s, NEW c, ChannelInv(s), ClientTyped(c), NEW g, NEW loc, NEW bars, NEW P,
         Kept(s, c, g, loc, bars, P), NEW q \in Requests, NEW t, NEW c2, Submits(s, c, q, t, c2)
  PROVE  /\ ChannelInv(t) /\ ClientTyped(c2)
         /\ \E h, m, b2, P2 : Kept(t, c2, h, m, b2, P2)
<1> DEFINE y == NewTransaction(c, q)
           id == NewId(c)
           v == NewValue(c, q)
           mem == c.memory
<1>1. id \in Ids /\ id \notin DOMAIN c.promised /\ v \in Values /\ y \in Transaction
  BY NewTransactionType DEF Submits
<1>2. y.id = id /\ y.write = q.write /\ y.token = q.token /\ y.place = q.place /\ y.value = v /\ y.bar = FALSE
  BY DEF NewTransaction
<1>3. q.place \in Places /\ q.place.rank \in Ranks BY RequestTypes
<1>4. ChannelInv(t)
  <2>1. /\ Typed(s) /\ s.fault = {} /\ BooksAgree(s.banks, s.ranks, s.command) /\ Bus(s, 1) /\ Aboard(s)
        /\ Backed(s) /\ t = Accepted(s, y)
    BY DEF ChannelInv, Submits
  <2> HIDE DEF y
  <2>2. /\ Typed(t) /\ t.fault = s.fault /\ BooksAgree(t.banks, t.ranks, t.command) /\ Bus(t, 1)
        /\ Aboard(t) /\ Backed(t)
    BY <2>1, <1>1, AcceptParts
  <2> QED BY <2>1, <2>2 DEF ChannelInv
<1>5. mem \in [Places -> Values] /\ c2.memory = [mem EXCEPT ![y.place] = y.value] /\ ClientTyped(c2)
  BY <1>1, <1>2, <1>3 DEF ClientTyped, Submits
<1>6. /\ Sound(s, g, loc, bars, P, mem) /\ Fence(g, Waits(loc), bars, c.fenced, c.behind)
      /\ Promised(g, loc, c)
  BY DEF Kept
<1>7. PICK n : Young(g, n) BY DEF Kept
<1>8. g \in [Ids -> Request] /\ loc \in [Ids -> 0 .. 9] /\ n \in Nat /\ \A z \in Ids : g[z].stamp < n
  BY <1>6, <1>7, SoundParts DEF Young
<1>9. loc[id] = Free BY <1>1, <1>6 DEF Promised, Owed
<1> DEFINE h == [g EXCEPT ![y.id] = [stamp |-> n, write |-> y.write, token |-> y.token,
                                     place |-> y.place, value |-> y.value]]
           m == Moved(loc, y.id, Entrance(s))
           b2 == bars \ {y.id}
<1>10. h \in [Ids -> Request] /\ Entry(h, y.id, y, n) /\ \A z \in Ids : z # y.id => h[z] = g[z]
  <2> HIDE DEF y
  <2>1. h = [g EXCEPT ![y.id] = [stamp |-> n, write |-> y.write, token |-> y.token,
                                 place |-> y.place, value |-> y.value]]
    OBVIOUS
  <2> HIDE DEF h
  <2> QED BY <2>1, <1>1, <1>8, EntryMade
<1>11. Sound(t, h, m, b2, Owed(m), c2.memory)
  <2>1. /\ Typed(s) /\ Aboard(s) /\ (s.held = <<>> \/ ~WillAcceptTransaction(s)) /\ t = Accepted(s, y)
        /\ ~y.bar /\ loc[y.id] = Free /\ (~y.write => y.value = mem[y.place])
    BY <1>2, <1>9 DEF ChannelInv, Submits, NewValue
  <2>2. /\ h = [g EXCEPT ![y.id] = [stamp |-> n, write |-> y.write, token |-> y.token,
                                    place |-> y.place, value |-> y.value]]
        /\ m = Moved(loc, y.id, Entrance(s)) /\ b2 = bars \ {y.id}
    OBVIOUS
  <2>3. y \in Transaction BY <1>1
  <2> HIDE DEF y, h, m, b2, mem
  <2>4. Joining(s, g, loc, bars, P, mem, n, y, h, m, b2, c2.memory, t)
    BY <2>1, <2>2, <2>3, <1>5, <1>6, <1>8 DEF Joining
  <2> QED BY <2>4, SubmitSound
<1>12. /\ m \in [Ids -> 0 .. 9] /\ m[id] = Entrance(s) /\ \A z \in Ids : z # id => m[z] = loc[z]
       /\ Waits(m) = Waits(loc) \cup {id} /\ Owed(m) = Owed(loc) \cup {id} /\ id \notin Owed(loc)
       /\ id \notin Waits(loc)
  <2> DEFINE k == Entrance(s)
  <2>1. Enters(g, h, loc, m, id, k) BY <1>1, <1>2, <1>8, <1>9, <1>10 DEF Enters, Entrance, Free
  <2> HIDE DEF id, h, m, k
  <2>2. /\ m \in [Ids -> 0 .. 9] /\ m[id] = k /\ \A z \in Ids : z # id => m[z] = loc[z]
        /\ Waits(m) = Waits(loc) \cup {id} /\ Owed(m) = Owed(loc) \cup {id} /\ id \notin Owed(loc)
        /\ \A z \in Expected(g, loc) \cup Waits(loc) : z \in Ids /\ z # id
    BY <2>1, SubmitSets
  <2> QED BY <2>2 DEF k
<1>13. \A z \in Ids : z # id => h[z] = g[z] /\ h[z].stamp < h[id].stamp
  BY <1>2, <1>8, <1>10 DEF Entry
<1>14. h[id].value = v /\ h[id].place = q.place /\ h[id].stamp = n BY <1>2, <1>10 DEF Entry
<1> HIDE DEF h, m, y, id
<1>15. Fence(h, Waits(m), b2, c2.fenced, c2.behind)
  <2> DEFINE W == Waits(loc)
             F == c.fenced
             B == c.behind
             before == Before(c, q)
  <2>1. W \in SUBSET Ids /\ id \notin W /\ id \notin DOMAIN B /\ Fence(g, W, bars, F, B)
    BY <1>6, <1>12 DEF Promised, Waits
  <2>2. before \subseteq F /\ \A x \in before : g[x].place.rank = h[id].place.rank
    <3> SUFFICES ASSUME NEW x \in before PROVE x \in F /\ g[x].place.rank = h[id].place.rank
      OBVIOUS
    <3>1. x \in F /\ c.rankOf[x] = q.place.rank BY DEF Before
    <3>2. x \in W BY <3>1, <2>1 DEF Fence
    <3>3. x \in Owed(loc) BY <3>2, <1>8 DEF Waits, Owed, InQueue, Free
    <3>4. c.rankOf[x] = g[x].place.rank BY <3>3, <1>6 DEF Promised
    <3> QED BY <3>1, <3>4, <1>14
  <2>3. b2 = bars \ {id} /\ c2.fenced = F /\ c2.behind = Extended(B, id, before) /\ Waits(m) = W \cup {id}
    BY <1>2, <1>12 DEF Submits, id
  <2> HIDE DEF W, F, B, before
  <2>4. Fence(h, W \cup {id}, bars \ {id}, F, Extended(B, id, before))
    BY <2>1, <2>2, <1>1, <1>8, <1>13, FenceSubmit
  <2> QED BY <2>3, <2>4
<1>16. Promised(h, m, c2)
  <2>1. /\ c2.promised = Extended(c.promised, id, v) /\ c2.rankOf = Extended(c.rankOf, id, q.place.rank)
        /\ c2.behind = Extended(c.behind, id, Before(c, q))
    BY DEF Submits, id
  <2>2. /\ DOMAIN c.promised = Owed(loc) /\ DOMAIN c.behind = Owed(loc) /\ DOMAIN c.rankOf = Owed(loc)
        /\ \A z \in Owed(loc) : c.promised[z] = g[z].value /\ c.rankOf[z] = g[z].place.rank
    BY <1>6 DEF Promised
  <2>3. DOMAIN c2.promised = Owed(m) /\ DOMAIN c2.behind = Owed(m) /\ DOMAIN c2.rankOf = Owed(m)
    BY <2>1, <2>2, <1>12 DEF Extended
  <2>4. ASSUME NEW z \in Owed(m) PROVE c2.promised[z] = h[z].value /\ c2.rankOf[z] = h[z].place.rank
    <3>1. CASE z = id BY <3>1, <2>1, <1>14 DEF Extended
    <3>2. CASE z # id
      <4>1. z \in Owed(loc) /\ z \in Ids BY <3>2, <1>12 DEF Owed
      <4>2. c2.promised[z] = c.promised[z] /\ c2.rankOf[z] = c.rankOf[z]
        BY <4>1, <3>2, <2>1, <2>2 DEF Extended
      <4> QED BY <4>1, <4>2, <3>2, <2>2, <1>13
    <3> QED BY <3>1, <3>2
  <2> QED BY <2>3, <2>4 DEF Promised
<1>17. Young(h, n + 1)
  <2>1. \A z \in Ids : h[z].stamp < n + 1
    <3> SUFFICES ASSUME NEW z \in Ids PROVE h[z].stamp < n + 1 OBVIOUS
    <3>1. CASE z = id BY <3>1, <1>8, <1>14
    <3>2. CASE z # id
      <4>1. h[z].stamp < n /\ h[z].stamp \in Nat BY <3>2, <1>8, <1>10, <1>13, GhostFields
      <4> QED BY <4>1, <1>8
    <3> QED BY <3>1, <3>2
  <2> QED BY <2>1, <1>8 DEF Young
<1>18. Kept(t, c2, h, m, b2, Owed(m)) BY <1>11, <1>15, <1>16, <1>17 DEF Kept
<1> QED BY <1>4, <1>5, <1>18

-----------------------------------------------------------------------------
(* A barrier.                                                              *)

Barriers(s, c, t, c2) ==
  /\ (s.held = <<>> \/ ~WillAcceptTransaction(s)) /\ BarrierTaken(s) /\ t = AddBarrier(s)
  /\ IsClient(c2) /\ c2.memory = c.memory /\ c2.promised = c.promised /\ c2.rankOf = c.rankOf
  /\ c2.behind = c.behind
  /\ c2.fenced = c.fenced \cup {id \in Unissued(s) : c.rankOf[id] = TaggedRank(s)}

\* The last of a list is its youngest.
LEMMA LastYoungest ==
  ASSUME NEW q \in Seq(Transaction), q # <<>>, NEW g, NEW bars, NEW S, Listed(q, g, bars, S), NEW u \in S
  PROVE  u = Youngest(q).id \/ g[u].stamp < g[Youngest(q).id].stamp
<1>1. Len(q) \in DOMAIN q /\ DOMAIN q = 1 .. Len(q) /\ Len(q) \in Nat BY LenProperties, EmptySeq
<1>2. PICK i \in DOMAIN q : q[i].id = u BY DEF Listed, IdsOf
<1>3. i = Len(q) \/ i < Len(q) BY <1>1
<1> QED BY <1>1, <1>2, <1>3 DEF Listed, Sorted, Youngest

\* The transaction addBarrier tags is the youngest of its rank that is not issued.
LEMMA TaggedYoungest ==
  ASSUME NEW s, Typed(s), NEW g, NEW loc, NEW bars, NEW P, NEW mem, Sound(s, g, loc, bars, P, mem),
         BarrierTaken(s), s.held = <<>> \/ ~WillAcceptTransaction(s),
         NEW x, x = Tagged(s).id, x \in At(loc, Entrance(s)),
         NEW u \in Waits(loc), g[u].place.rank = g[x].place.rank
  PROVE  u = x \/ g[u].stamp < g[x].stamp
<1>1. /\ loc \in [Ids -> 0 .. 9] /\ Ordered(g, loc)
      /\ Listed(s.held, g, bars, At(loc, 0)) /\ Listed(s.transactions, g, bars, At(loc, 1))
  BY SoundParts
<1>2. s.held \in Seq(Transaction) /\ s.transactions \in Seq(Transaction)
  BY DEF Typed, QueuesTyped
<1>3. u \in Ids /\ x \in Ids /\ loc[u] \in {0, 1, 2} BY <1>1 DEF Waits, InQueue, At
<1>4. u = x \/ loc[x] # 0 \/ loc[u] # 0 \/ g[u].stamp < g[x].stamp
  <2> SUFFICES ASSUME loc[x] = 0, loc[u] = 0 PROVE u = x \/ g[u].stamp < g[x].stamp OBVIOUS
  <2>1. ~WillAcceptTransaction(s) BY DEF At, Entrance
  <2>2. s.held # <<>> /\ x = Youngest(s.held).id BY <2>1 DEF BarrierTaken, Tagged
  <2>3. u \in At(loc, 0) BY <1>3 DEF At
  <2> QED BY <2>2, <2>3, <1>1, <1>2, LastYoungest
<1>5. CASE WillAcceptTransaction(s)
  <2>1. loc[x] = 1 /\ s.transactions # <<>> /\ s.held = <<>> /\ x = Youngest(s.transactions).id
    BY <1>5 DEF At, Entrance, BarrierTaken, Tagged
  <2>2. loc[u] # 0
    <3>1. At(loc, 0) = {} BY <2>1, <1>1, NoElements DEF Listed
    <3> QED BY <3>1, <1>3 DEF At
  <2>3. CASE loc[u] = 1
    <3>1. u \in At(loc, 1) BY <2>3, <1>3 DEF At
    <3> QED BY <3>1, <2>1, <1>1, <1>2, LastYoungest
  <2>4. CASE loc[u] = 2 BY <2>1, <2>4, <1>1, <1>3 DEF Ordered, InQueue
  <2> QED BY <2>2, <2>3, <2>4, <1>3
<1>6. CASE ~WillAcceptTransaction(s)
  <2>1. loc[x] = 0 BY <1>6 DEF At, Entrance
  <2>2. CASE loc[u] = 0 BY <2>1, <2>2, <1>4
  <2>3. CASE loc[u] = 1 BY <2>1, <2>3, <1>1, <1>3 DEF Ordered, InHeld, InTransactions
  <2>4. CASE loc[u] = 2 BY <2>1, <2>4, <1>1, <1>3 DEF Ordered, InQueue
  <2> QED BY <2>2, <2>3, <2>4, <1>3
<1> QED BY <1>5, <1>6

\* A client's barrier (addBarrier) keeps the invariant.
LEMMA BarriersKept ==
  ASSUME NEW s, NEW c, ChannelInv(s), ClientTyped(c), NEW g, NEW loc, NEW bars, NEW P,
         Kept(s, c, g, loc, bars, P), NEW t, NEW c2, Barriers(s, c, t, c2)
  PROVE  /\ ChannelInv(t) /\ ClientTyped(c2)
         /\ \E b2 : Kept(t, c2, g, loc, b2, P)
<1> DEFINE x == Tagged(s).id
           W == Waits(loc)
           more == {id \in Unissued(s) : c.rankOf[id] = TaggedRank(s)}
<1>1. /\ Typed(s) /\ s.fault = {} /\ BooksAgree(s.banks, s.ranks, s.command) /\ Bus(s, 1) /\ Aboard(s)
      /\ Backed(s) /\ t = AddBarrier(s) /\ BarrierTaken(s) /\ (s.held = <<>> \/ ~WillAcceptTransaction(s))
  BY DEF ChannelInv, Barriers
<1>2. ChannelInv(t)
  <2>1. /\ Typed(t) /\ t.fault = s.fault /\ BooksAgree(t.banks, t.ranks, t.command) /\ Bus(t, 1)
        /\ Aboard(t) /\ Backed(t)
    BY <1>1, BarrierParts
  <2> QED BY <2>1, <1>1 DEF ChannelInv
<1>3. /\ Sound(s, g, loc, bars, P, c.memory) /\ Fence(g, W, bars, c.fenced, c.behind)
      /\ Promised(g, loc, c) /\ \E n : Young(g, n)
  BY DEF Kept
<1>4. /\ Sound(t, g, loc, bars \cup {x}, P, c.memory)
      /\ x \in At(loc, Entrance(s)) /\ g[x].place = Tagged(s).place
  BY <1>1, <1>3, BarrierSound
<1>5. TaggedRank(s) = g[x].place.rank BY <1>4 DEF TaggedRank, Tagged, Youngest
<1>6. Unissued(s) = W BY <1>3, UnissuedWaits
<1>7. W \subseteq Owed(loc) /\ x \in Ids /\ x \in W
  <2>1. loc \in [Ids -> 0 .. 9] BY <1>3, SoundParts
  <2> QED BY <2>1, <1>4 DEF Waits, Owed, InQueue, Free, At, Entrance
<1>8. \A u \in more : u \in W /\ g[u].place.rank = g[x].place.rank
  BY <1>3, <1>5, <1>6, <1>7 DEF Promised
<1>9. \A u \in more : u = x \/ g[u].stamp < g[x].stamp
  <2> SUFFICES ASSUME NEW u \in more PROVE u = x \/ g[u].stamp < g[x].stamp OBVIOUS
  <2>1. u \in Waits(loc) /\ g[u].place.rank = g[x].place.rank BY <1>8
  <2>2. x = Tagged(s).id OBVIOUS
  <2> HIDE DEF x, more
  <2> QED BY <2>1, <2>2, <1>1, <1>3, <1>4, TaggedYoungest
<1>10. Fence(g, W, bars \cup {x}, c2.fenced, c2.behind)
  <2> DEFINE F == c.fenced
             B == c.behind
  <2>1. c2.fenced = F \cup more /\ c2.behind = B /\ more \in SUBSET W BY <1>8 DEF Barriers
  <2>2. /\ Fence(g, W, bars, F, B) /\ x \in Ids /\ x \in W
        /\ \A u \in more : g[u].place.rank = g[x].place.rank /\ (u = x \/ g[u].stamp < g[x].stamp)
    BY <1>3, <1>7, <1>8, <1>9
  <2> HIDE DEF F, B, more, x, W
  <2>3. Fence(g, W, bars \cup {x}, F \cup more, B) BY <2>1, <2>2, FenceGrows
  <2> QED BY <2>1, <2>3
<1>11. /\ c2.memory = c.memory /\ c2.promised = c.promised /\ c2.rankOf = c.rankOf /\ c2.behind = c.behind
       /\ IsClient(c2)
  BY DEF Barriers
<1>12. ClientTyped(c2) /\ Promised(g, loc, c2) BY <1>3, <1>11 DEF ClientTyped, Promised
<1>13. Kept(t, c2, g, loc, bars \cup {x}, P) BY <1>3, <1>4, <1>10, <1>11, <1>12 DEF Kept
<1> QED BY <1>2, <1>12, <1>13

-----------------------------------------------------------------------------
(* An update.                                                              *)

Left(c, t) == DOMAIN c.promised \ {a.id : a \in t.replies}
Ticks(s, c, t, c2) ==
  /\ Update(s, t) /\ IsClient(c2) /\ c2.memory = c.memory
  /\ c2.promised = [id \in Left(c, t) |-> c.promised[id]]
  /\ c2.rankOf = [id \in Left(c, t) |-> c.rankOf[id]]
  /\ c2.fenced = c.fenced \cap Unissued(t)
  /\ c2.behind = [id \in Left(c, t) |-> c.behind[id] \cap Unissued(t)]

\* A cycle of the channel keeps the invariant; what it answers is no longer owed.
LEMMA TicksKept ==
  ASSUME NEW s, NEW c, ChannelInv(s), ClientTyped(c), NEW g, NEW loc, NEW bars, NEW P,
         Kept(s, c, g, loc, bars, P), NEW t, NEW c2, Ticks(s, c, t, c2), refresh.rank \in Ranks
  PROVE  /\ ChannelInv(t) /\ ClientTyped(c2)
         /\ \E m : Kept(t, c2, g, m, bars, Owed(loc)) /\ Owed(m) = Left(c, t)
<1>1. /\ Typed(s) /\ s.fault = {} /\ BooksAgree(s.banks, s.ranks, s.command) /\ Bus(s, 1) /\ Update(s, t)
  BY DEF ChannelInv, Ticks
<1>2. /\ Sound(s, g, loc, bars, P, c.memory) /\ Fence(g, Waits(loc), bars, c.fenced, c.behind)
      /\ Promised(g, loc, c) /\ \E n : Young(g, n)
  BY DEF Kept
<1>3. /\ Typed(t) /\ t.fault = s.fault /\ BooksAgree(t.banks, t.ranks, t.command) /\ Bus(t, 1)
      /\ Aboard(t) /\ Backed(t)
      /\ \E m : Sound(t, g, m, bars, Owed(loc), c.memory) /\ Passed(g, bars, Waits(loc), Waits(m))
  BY <1>1, <1>2, UpdateSound
<1>4. ChannelInv(t) BY <1>1, <1>3 DEF ChannelInv
<1>5. PICK m : Sound(t, g, m, bars, Owed(loc), c.memory) /\ Passed(g, bars, Waits(loc), Waits(m))
  BY <1>3
<1>6. Owed(m) = Left(c, t)
  <2>1. Answered(t.replies, g, Owed(loc), Owed(m)) BY <1>5, SoundParts
  <2> QED BY <2>1, <1>2, OwedLeft DEF Left, Promised
<1>7. Unissued(t) = Waits(m) BY <1>5, UnissuedWaits
<1>8. Fence(g, Waits(m), bars, c2.fenced, c2.behind)
  <2> DEFINE W == Waits(loc)
             V == Waits(m)
             F == c.fenced
             B == c.behind
             left == Left(c, t)
  <2>1. W \in SUBSET Ids /\ Fence(g, W, bars, F, B) /\ Passed(g, bars, W, V)
    BY <1>2, <1>5 DEF Waits
  <2>2. left \subseteq DOMAIN B BY <1>2 DEF Left, Promised
  <2>3. c2.fenced = F \cap V /\ c2.behind = [id \in left |-> B[id] \cap V] BY <1>7 DEF Ticks
  <2> HIDE DEF W, V, F, B, left
  <2>4. Fence(g, V, bars, F \cap V, [id \in left |-> B[id] \cap V]) BY <2>1, <2>2, FenceTick
  <2>5. Fence(g, V, bars, c2.fenced, c2.behind) BY <2>3, <2>4
  <2> QED BY <2>5 DEF V
<1>9. Promised(g, m, c2)
  <2>1. Left(c, t) \subseteq Owed(loc) BY <1>2 DEF Left, Promised
  <2> QED BY <2>1, <1>2, <1>6 DEF Promised, Ticks
<1>10. ClientTyped(c2) /\ c2.memory = c.memory BY DEF ClientTyped, Ticks
<1>11. Kept(t, c2, g, m, bars, Owed(loc)) BY <1>2, <1>5, <1>8, <1>9, <1>10 DEF Kept
<1> QED BY <1>4, <1>6, <1>10, <1>11

-----------------------------------------------------------------------------
(* The steps.                                                              *)

LEMMA ClientFields ==
  ASSUME IsClient(client)
  PROVE  /\ \A q : Submit(q) => Submits(sys, client, q, sys', client') /\ refresh' = refresh
         /\ Barrier => Barriers(sys, client, sys', client') /\ refresh' = refresh
         /\ Tick => Ticks(sys, client, sys', client') /\ CountDown
<1>1. ASSUME NEW q, Submit(q) PROVE Submits(sys, client, q, sys', client') /\ refresh' = refresh
  <2>1. sys' = Accepted(sys, NewTransaction(client, q))
    BY <1>1 DEF Submit, Accepted, NewTransaction, NewId, NewValue
  <2>2. /\ Ids \ DOMAIN client.promised # {} /\ (sys.held = <<>> \/ ~WillAcceptTransaction(sys))
        /\ refresh' = refresh
    BY <1>1 DEF Submit, InOrder
  <2>3. client' = [client EXCEPT !.memory[q.place] = NewValue(client, q),
                                 !.promised = Extended(@, NewId(client), NewValue(client, q)),
                                 !.rankOf = Extended(@, NewId(client), q.place.rank),
                                 !.behind = Extended(@, NewId(client), Before(client, q)),
                                 !.submitted = IF q \in Streams THEN @ ELSE @ + 1]
    BY <1>1 DEF Submit, NewId, NewValue, Before
  <2>4. /\ IsClient(client')
        /\ client'.memory = [client.memory EXCEPT ![q.place] = NewValue(client, q)]
        /\ client'.fenced = client.fenced
        /\ client'.promised = Extended(client.promised, NewId(client), NewValue(client, q))
        /\ client'.rankOf = Extended(client.rankOf, NewId(client), q.place.rank)
        /\ client'.behind = Extended(client.behind, NewId(client), Before(client, q))
    BY <2>3 DEF IsClient
  <2> QED BY <2>1, <2>2, <2>4 DEF Submits
<1>2. ASSUME Barrier PROVE Barriers(sys, client, sys', client') /\ refresh' = refresh
  BY <1>2 DEF Barrier, Barriers, InOrder, IsClient
<1>3. ASSUME Tick PROVE Ticks(sys, client, sys', client') /\ CountDown
  <2>1. Update(sys, sys') /\ CountDown BY <1>3 DEF Tick
  <2>2. client' = [client EXCEPT !.promised = [id \in Left(client, sys') |-> @[id]],
                                 !.rankOf = [id \in Left(client, sys') |-> @[id]],
                                 !.fenced = @ \cap Unissued(sys'),
                                 !.behind = [id \in Left(client, sys') |-> @[id] \cap Unissued(sys')]]
    BY <1>3 DEF Tick, Left
  <2>3. /\ IsClient(client') /\ client'.memory = client.memory
        /\ client'.promised = [id \in Left(client, sys') |-> client.promised[id]]
        /\ client'.rankOf = [id \in Left(client, sys') |-> client.rankOf[id]]
        /\ client'.fenced = client.fenced \cap Unissued(sys')
        /\ client'.behind = [id \in Left(client, sys') |-> client.behind[id] \cap Unissued(sys')]
    BY <2>2 DEF IsClient
  <2> QED BY <2>1, <2>3 DEF Ticks
<1> QED BY <1>1, <1>2, <1>3

\* Every step of the specification keeps the invariant.
LEMMA StepKept ==
  ASSUME IInv, [Next]_vars
  PROVE  IInv'
<1>1. ChannelInv(sys) /\ Timers(refresh) /\ ClientTyped(client) /\ IsClient(client)
  BY DEF IInv, ClientTyped
<1>2. PICK g, loc, bars, P : Kept(sys, client, g, loc, bars, P) BY DEF IInv
<1>3. refresh.rank \in Ranks BY <1>1 DEF Timers
<1>4. ASSUME NEW q \in Requests, Submit(q) PROVE IInv'
  <2>1. Submits(sys, client, q, sys', client') /\ refresh' = refresh BY <1>1, <1>4, ClientFields
  <2>2. /\ ChannelInv(sys') /\ ClientTyped(client')
        /\ \E h, m, b2, P2 : Kept(sys', client', h, m, b2, P2)
    BY <2>1, <1>1, <1>2, SubmitsKept
  <2> QED BY <2>1, <2>2, <1>1 DEF IInv
<1>5. CASE Barrier
  <2>1. Barriers(sys, client, sys', client') /\ refresh' = refresh BY <1>1, <1>5, ClientFields
  <2>2. ChannelInv(sys') /\ ClientTyped(client') /\ \E b2 : Kept(sys', client', g, loc, b2, P)
    BY <2>1, <1>1, <1>2, BarriersKept
  <2> QED BY <2>1, <2>2, <1>1 DEF IInv
<1>6. CASE Tick
  <2>1. Ticks(sys, client, sys', client') /\ CountDown BY <1>1, <1>6, ClientFields
  <2>2. /\ ChannelInv(sys') /\ ClientTyped(client')
        /\ \E m : Kept(sys', client', g, m, bars, Owed(loc)) /\ Owed(m) = Left(client, sys')
    BY <2>1, <1>1, <1>2, <1>3, TicksKept
  <2>3. Timers(refresh') BY <2>1, <1>1, TimersCounted
  <2> QED BY <2>2, <2>3 DEF IInv
<1>7. CASE UNCHANGED vars BY <1>7 DEF vars, IInv
<1> QED BY <1>4, <1>5, <1>6, <1>7 DEF Next

\* The invariant holds in every state a client, the cycles and the refreshes can reach.
THEOREM Invariance == Spec => []IInv
<1>1. Init => IInv BY InitKept
<1>2. IInv /\ [Next]_vars => IInv' BY StepKept
<1> QED BY <1>1, <1>2, PTL DEF Spec

\* The invariant implies the run's safety invariant.
LEMMA InvSafe == IInv => SafeState
<1> SUFFICES ASSUME IInv PROVE SafeState OBVIOUS
<1>1. /\ Typed(sys) /\ sys.fault = {} /\ Bus(sys, 1) /\ Timers(refresh) BY DEF IInv, ChannelInv
<1>2. PICK g, loc, bars, P : Kept(sys, client, g, loc, bars, P) BY DEF IInv
<1>3. DOMAIN client.promised \subseteq Ids /\ DOMAIN client.behind = DOMAIN client.promised
  BY <1>2 DEF Kept, Promised, Owed
<1>4. /\ Len(sys.transactions) <= TransQueueDepth
      /\ \A r \in Ranks : Len(sys.queues[r]) <= CmdQueueDepth
      /\ sys.waiting \in Ranks \cup {None} /\ sys.nextRank \in Ranks
      /\ sys.nextPre \in 0 .. NumRanks * NumBanks - 1
      /\ \A r \in Ranks, b \in Banks : sys.banks[r][b] \in Bank
  BY <1>1 DEF Typed, QueuesTyped
<1>5. \A r \in Ranks, b \in Banks : sys.ranks[r].banks[b] \in Bank
  BY <1>1 DEF Typed, DataTyped, RankState
<1>6. refresh.rank \in Ranks /\ \A r \in Ranks : refresh.left[r] \in 0 .. Timing.tREFI
  BY <1>1 DEF Timers
<1>7. TypeOK BY <1>3, <1>4, <1>5, <1>6 DEF TypeOK
<1>8. DataBusExclusive BY <1>1, BusExclusive DEF DataBusExclusive
<1> QED BY <1>1, <1>7, <1>8 DEF SafeState, NoFault

\* The invariant implies the order the barriers promise.
LEMMA InvBarrierOrder == IInv => BarrierOrder
<1> SUFFICES ASSUME IInv, NEW id \in DOMAIN client.behind, id \notin Unissued(sys) PROVE client.behind[id] = {}
  BY DEF BarrierOrder
<1>1. PICK g, loc, bars, P : Kept(sys, client, g, loc, bars, P) BY DEF IInv
<1>2. Unissued(sys) = Waits(loc) BY <1>1, UnissuedWaits DEF Kept
<1> QED BY <1>1, <1>2 DEF Kept, Fence

\* A list without repetition has as many ids as members.
LEMMA IdsCounted ==
  ASSUME NEW S, NEW q \in Seq(S), \A i, j \in DOMAIN q : i # j => q[i].id # q[j].id
  PROVE  Cardinality(IdsOf(q)) = Len(q)
<1>1. DOMAIN q = 1 .. Len(q) /\ Len(q) \in Nat BY LenProperties
<1> DEFINE f == [i \in 1 .. Len(q) |-> q[i].id]
<1>2. f \in [1 .. Len(q) -> IdsOf(q)] BY <1>1 DEF IdsOf
<1>3. \A i, j \in 1 .. Len(q) : f[i] = f[j] => i = j BY <1>1
<1>4. \A x \in IdsOf(q) : \E i \in 1 .. Len(q) : f[i] = x BY <1>1 DEF IdsOf
<1> HIDE DEF f
<1>5. f \in Bijection(1 .. Len(q), IdsOf(q))
  <2>1. f \in Injection(1 .. Len(q), IdsOf(q)) BY <1>2, <1>3 DEF Injection, IsInjective
  <2>2. f \in Surjection(1 .. Len(q), IdsOf(q)) BY <1>2, <1>4 DEF Surjection
  <2> QED BY <2>1, <2>2 DEF Bijection
<1>6. ExistsBijection(1 .. Len(q), IdsOf(q)) BY <1>5 DEF ExistsBijection
<1> QED BY <1>1, <1>6, FS_CountingElements

\* A list of transactions has as many members as the ledger's set has ids.
LEMMA ListIds ==
  ASSUME NEW q \in Seq(Transaction), NEW g \in [Ids -> Request], NEW bars, NEW S, Listed(q, g, bars, S)
  PROVE  Cardinality(S) = Len(q)
<1>1. \A i \in DOMAIN q : q[i].id \in Ids
  <2>1. \A i \in DOMAIN q : q[i] \in Transaction BY ElementOfSeq, LenProperties
  <2> QED BY <2>1 DEF Transaction
<1>2. \A i \in DOMAIN q : g[q[i].id].stamp \in Nat BY <1>1, GhostFields
<1>3. Sorted(q, g) /\ IdsOf(q) = S BY DEF Listed
<1>4. \A i, j \in DOMAIN q : i # j => q[i].id # q[j].id BY <1>2, <1>3, SortedDistinct
<1>5. Cardinality(IdsOf(q)) = Len(q) BY <1>4, IdsCounted
<1> QED BY <1>3, <1>5

\* A list that is not empty has a first member.
LEMMA MemberOf ==
  ASSUME NEW q, NEW S, q \in Seq(S), q # <<>>
  PROVE  1 \in DOMAIN q
BY LenProperties, EmptySeq

\* The invariant implies that the counter of outstanding transactions is exact.
LEMMA InvOnTheFly == IInv => OnTheFlyExact
<1> SUFFICES ASSUME IInv PROVE OnTheFlyExact OBVIOUS
<1>1. Typed(sys) /\ Backed(sys) BY DEF IInv, ChannelInv
<1>2. PICK g, loc, bars, P : Kept(sys, client, g, loc, bars, P) BY DEF IInv
<1>3. /\ g \in [Ids -> Request] /\ loc \in [Ids -> 0 .. 9]
      /\ Listed(sys.held, g, bars, At(loc, 0)) /\ Listed(sys.transactions, g, bars, At(loc, 1))
      /\ QueuesLedger(sys.queues, g, bars, At(loc, 2)) /\ Counted(sys, Owed(loc))
  BY <1>2, SoundParts DEF Kept
<1>4. DOMAIN client.promised = Owed(loc) BY <1>2 DEF Kept, Promised
<1>5. sys.onTheFly + Len(sys.held) = Cardinality(DOMAIN client.promised)
  BY <1>3, <1>4 DEF Counted
<1>6. ASSUME sys.onTheFly = 0, Owed(loc) # {} PROVE FALSE
  <2>1. Owed(loc) \in SUBSET Ids /\ At(loc, 0) \in SUBSET Ids BY DEF Owed, At
  <2>2. IsFiniteSet(Owed(loc)) /\ Cardinality(Owed(loc)) \in Nat /\ Cardinality(Owed(loc)) # 0
    BY <2>1, <1>6, IdsFinite, FS_EmptySet
  <2>3. sys.held \in Seq(Transaction) /\ sys.transactions \in Seq(Transaction)
        /\ sys.queues \in [Ranks -> Seq(Located)]
    BY <1>1 DEF Typed, QueuesTyped
  <2>4. Len(sys.held) \in Nat BY <2>3, LenProperties
  <2>5. Len(sys.held) = Cardinality(Owed(loc)) BY <1>5, <1>4, <1>6, <2>2, <2>4
  <2>6. sys.held # <<>> BY <2>2, <2>5, NoElements
  <2>7. \E y \in Ids : y \in Owed(loc) /\ y \notin At(loc, 0)
    <3>1. CASE sys.transactions # <<>>
      <4>1. 1 \in DOMAIN sys.transactions BY <3>1, <2>3, MemberOf
      <4>2. sys.transactions[1].id \in At(loc, 1) BY <4>1, <1>3 DEF Listed, IdsOf
      <4> QED BY <4>2 DEF At, Owed, Free
    <3>2. ASSUME NEW r \in Ranks, sys.queues[r] # <<>>
          PROVE  \E y \in Ids : y \in Owed(loc) /\ y \notin At(loc, 0)
      <4>1. sys.queues[r] \in Seq(Located) BY <2>3
      <4>2. 1 \in DOMAIN sys.queues[r] BY <4>1, <3>2, MemberOf
      <4>3. sys.queues[r][1].id \in At(loc, 2) BY <4>2, <1>3 DEF QueuesLedger, Queued, IdsOf, To
      <4> QED BY <4>3 DEF At, Owed, Free
    <3> QED BY <3>1, <3>2, <2>6, <1>1 DEF Backed
  <2>8. PICK y \in Ids : y \in Owed(loc) /\ y \notin At(loc, 0) BY <2>7
  <2>9. Cardinality(At(loc, 0)) = Len(sys.held) BY <2>3, <1>3, ListIds
  <2>10. Cardinality(At(loc, 0) \cup {y}) = Len(sys.held) + 1 BY <2>1, <2>8, <2>9, OneMore
  <2>11. At(loc, 0) \cup {y} \subseteq Owed(loc) BY <2>8 DEF At, Owed, Free
  <2>12. Cardinality(At(loc, 0) \cup {y}) <= Cardinality(Owed(loc)) BY <2>2, <2>11, FS_Subset
  <2> QED BY <2>4, <2>5, <2>10, <2>12
<1> QED BY <1>4, <1>5, <1>6 DEF OnTheFlyExact

\* No command is refused, no datum collides, no read is lost or answered twice, every queue keeps
\* its depth, in every run of MemoryController::update with any client.
THEOREM Safety == Spec => []SafeState
BY Invariance, InvSafe, PTL

\* A request submitted behind a barrier is not issued to its rank before what the barrier fences.
THEOREM BarriersHold == Spec => []BarrierOrder
BY Invariance, InvBarrierOrder, PTL

\* The counter onTheFlyTransactions counts the transactions accepted and not answered yet.
THEOREM OnTheFlyCounts == Spec => []OnTheFlyExact
BY Invariance, InvOnTheFly, PTL

-----------------------------------------------------------------------------
(* The channel is a memory.                                                *)

LEMMA ServiceInit == Init => Service!Init
<1> SUFFICES ASSUME Init PROVE Service!Init OBVIOUS
<1>1. client.memory = [p \in Places |-> Unwritten] /\ client.promised = [id \in {} |-> Unwritten]
  BY DEF Init
<1>2. sys.replies = {} BY SysInitFields DEF Init
<1> QED BY <1>1, <1>2 DEF Service!Init

\* Every step is a step of the memory service, or changes nothing the service shows.
LEMMA ServiceStep == IInv /\ [Next]_vars => [Service!Next]_(Service!vars)
<1> SUFFICES ASSUME IInv, [Next]_vars PROVE Service!Next \/ UNCHANGED Service!vars OBVIOUS
<1>1. ChannelInv(sys) /\ ClientTyped(client) /\ IsClient(client) /\ IsChannel(sys)
  BY DEF IInv, ClientTyped, ChannelInv, Typed
<1>2. PICK g, loc, bars, P : Kept(sys, client, g, loc, bars, P) BY DEF IInv
<1>3. refresh.rank \in Ranks BY DEF IInv, Timers
<1>4. ASSUME NEW q \in Requests, Submit(q) PROVE Service!Next
  <2> DEFINE id == NewId(client)
             v == NewValue(client, q)
             p == q.place
  <2>1. Submits(sys, client, q, sys', client') BY <1>1, <1>4, ClientFields
  <2>2. id \in Ids /\ id \notin DOMAIN client.promised /\ v \in Values
    BY <2>1, <1>1, NewTransactionType DEF Submits
  <2>3. p \in Places BY RequestTypes
  <2>4. sys'.replies = {}
    <3>1. sys' = Accepted(sys, NewTransaction(client, q)) BY <2>1 DEF Submits
    <3> QED BY <3>1, <1>1, AcceptFields
  <2>5. client'.memory = [client.memory EXCEPT ![p] = v] /\ client'.promised = Extended(client.promised, id, v)
    BY <2>1 DEF Submits
  <2>6. client'.promised = [i \in DOMAIN client.promised \cup {id} |-> IF i = id THEN v ELSE client.promised[i]]
    BY <2>5 DEF Extended
  <2>7. CASE q.write
    <3> HIDE DEF id, v, p
    <3>1. Service!Write(id, p, v) BY <2>2, <2>4, <2>5, <2>6 DEF Service!Write, Service!Owing
    <3> QED BY <3>1, <2>2, <2>3 DEF Service!Next
  <2>8. CASE ~q.write
    <3>1. v = client.memory[p] BY <2>8 DEF NewValue
    <3>2. client'.memory = client.memory BY <3>1, <2>3, <2>5, <1>1 DEF ClientTyped
    <3> HIDE DEF id, v, p
    <3>3. Service!Read(id, p) BY <3>1, <3>2, <2>2, <2>4, <2>6 DEF Service!Read, Service!Owing
    <3> QED BY <3>3, <2>2, <2>3 DEF Service!Next
  <2> QED BY <2>7, <2>8
<1>5. ASSUME Barrier PROVE UNCHANGED Service!vars
  <2>1. Barriers(sys, client, sys', client') BY <1>1, <1>5, ClientFields
  <2>2. client'.memory = client.memory /\ client'.promised = client.promised /\ sys' = AddBarrier(sys)
    BY <2>1 DEF Barriers
  <2>3. sys'.replies = sys.replies BY <2>2, <1>1, BarrierFields
  <2> QED BY <2>2, <2>3 DEF Service!vars
<1>6. ASSUME Tick PROVE Service!Next
  <2>1. Ticks(sys, client, sys', client') BY <1>1, <1>6, ClientFields
  <2>2. \E m : Kept(sys', client', g, m, bars, Owed(loc)) /\ Owed(m) = Left(client, sys')
    BY <2>1, <1>1, <1>2, <1>3, TicksKept
  <2>3. PICK m : Kept(sys', client', g, m, bars, Owed(loc)) /\ Owed(m) = Left(client, sys')
    BY <2>2
  <2> DEFINE S == Owed(loc) \ Owed(m)
  <2>4. DOMAIN client.promised = Owed(loc) /\ \A id \in Owed(loc) : client.promised[id] = g[id].value
    BY <1>2 DEF Kept, Promised
  <2>5. Answered(sys'.replies, g, Owed(loc), Owed(m)) BY <2>3, SoundParts DEF Kept
  <2>6. sys'.replies = {[id |-> id, value |-> g[id].value] : id \in S} /\ Owed(m) \subseteq Owed(loc)
    BY <2>5 DEF Answered
  <2>7. \A id \in S : [id |-> id, value |-> g[id].value] = [id |-> id, value |-> client.promised[id]]
    BY <2>4
  <2>8. sys'.replies = {[id |-> id, value |-> client.promised[id]] : id \in S} BY <2>6, <2>7
  <2>9. DOMAIN client.promised \ S = Owed(m) BY <2>4, <2>6
  <2>10. client'.promised = [i \in DOMAIN client.promised \ S |-> client.promised[i]] /\ client'.memory = client.memory
    BY <2>1, <2>3, <2>9 DEF Ticks
  <2>11. S \subseteq DOMAIN client.promised BY <2>4
  <2> HIDE DEF S
  <2>12. Service!Answer(S) BY <2>8, <2>10, <2>11 DEF Service!Answer
  <2>13. S \in SUBSET DOMAIN client.promised BY <2>11
  <2> QED BY <2>12, <2>13 DEF Service!Next
<1>7. ASSUME UNCHANGED vars PROVE UNCHANGED Service!vars BY <1>7 DEF vars, Service!vars
<1> QED BY <1>4, <1>5, <1>6, <1>7 DEF Next

\* To its clients the controller is a memory: each request is answered once, a read with the value
\* of the last write submitted before it to the same place.
THEOREM ServiceImplemented == Spec => ImplementsMemoryService
BY Invariance, ServiceInit, ServiceStep, PTL DEF Spec, ImplementsMemoryService, Service!Spec
=============================================================================
