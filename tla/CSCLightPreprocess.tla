------------------------ MODULE CSCLightPreprocess ------------------------
(***************************************************************************)
(* tools/csc_light_preprocess: the columns of a matrix (or segments of     *)
(* them) are mapped to bank groups one after the other, then ordered,      *)
(* verified, laid out and validated.  One Assign step is one iteration of  *)
(* the mapping loop; what follows is a function of the finished mapping.   *)
(*                                                                         *)
(* The hash that draws the candidates of a unit is an arbitrary choice of  *)
(* distinct bank groups, the row sketch is the exact set of rows, scores   *)
(* are exact (alpha is 1, beta is in tenths), and the parallel loops write *)
(* disjoint elements, so they are functions here.  Timing, the quality     *)
(* report and the FP32 conversion of a value are left out.                 *)
(***************************************************************************)
EXTENDS CSCImageStreams

CONSTANTS
  Jobs,          \* the runs to cover: [matrix, policy, choices, segment, ...]
  BetaTenths     \* --beta, in tenths (default 1)

Policies == {"round_robin", "load_only", "load_similarity"}

\* preprocess never ends its search for distinct candidates when there are
\* more choices than bank groups; parse() does not refuse it.
ASSUME PreprocessAssumption ==
  /\ NumBGs \in 1 .. 64 /\ BetaTenths \in Nat
  /\ \A j \in Jobs : /\ j.policy \in Policies
                     /\ j.segment \in Nat
                     /\ j.choices \in {2, 4}
                     /\ j.policy # "round_robin" => j.choices <= NumBGs

VARIABLES
  job,        \* the Config and the Matrix of this run
  units,      \* units: what is mapped as one piece, with its row sketch
  assigned,   \* assignment[]: the bank group of every unit mapped so far
  load,       \* bg_load
  sketch      \* bg_sketch

planVars == <<job, units, assigned, load, sketch>>

Columns == job.matrix.columns
ColumnIds == [c \in 1 .. Len(Columns) |-> c - 1]

\* col_ptr[] of a sequence of columns; the last element is the nonzeros in all.
Pointers(columns) ==
  LET Next(ptr, column) == Append(ptr, Last(ptr) + Len(column))
  IN  FoldLeft(Next, <<0>>, columns)
Nnz == Last(Pointers(Columns))

\* Mutant: the last, shorter segment is forgotten.
Segments_Floor(segment, length) ==
  IF segment # 0 /\ length > segment THEN length \div segment ELSE 1

Segments(segment, length) ==
  IF segment # 0 /\ length > segment THEN (length + segment - 1) \div segment ELSE 1

\* The units of a column that begins at col_ptr = begin: the whole of it, or
\* pieces of at most segment entries.
UnitsOf(column, col, begin, segment) ==
  LET Start(s) == (s - 1) * segment
      Stop(s) == IF segment = 0 \/ Start(s) + segment > Len(column)
                 THEN Len(column) ELSE Start(s) + segment
  IN  [s \in 1 .. Segments(segment, Len(column)) |->
        [col |-> col, start |-> begin + Start(s), len |-> Stop(s) - Start(s),
         rows |-> {column[k].row : k \in Start(s) + 1 .. Stop(s)}]]

UnitsOfJob(j) ==
  LET columns == j.matrix.columns
      ptr == Pointers(columns)
  IN  FlattenSeq([c \in 1 .. Len(columns) |-> UnitsOf(columns[c], c - 1, ptr[c], j.segment)])

\* Mutant: the load of the bank group does not count.
Score_UnitOnly(unit, g) ==
  unit.len - IF job.policy = "load_similarity" THEN Cardinality(unit.rows \cap sketch[g]) ELSE 0

\* alpha * projected load / target - beta * containment, multiplied by
\* 10 * nnz * (rows of the unit): the same order between candidates of a unit.
Score(unit, g) ==
  LET scale == IF unit.rows = {} THEN 1 ELSE Cardinality(unit.rows)
      shared == Cardinality(unit.rows \cap sketch[g])
  IN  10 * NumBGs * (load[g] + unit.len) * scale
        - IF job.policy = "load_similarity" THEN BetaTenths * Nnz * shared ELSE 0

Best(unit, candidates) ==
  LET score == [g \in candidates |-> Score(unit, g)]
  IN  CHOOSE g \in candidates : \A h \in candidates :
        score[g] < score[h] \/ (score[g] = score[h] /\ g <= h)

Mapped == Len(assigned) = Len(units)

PlanInit == /\ job \in Jobs
            /\ units = UnitsOfJob(job)
            /\ assigned = <<>>
            /\ load = [g \in BG |-> 0]
            /\ sketch = [g \in BG |-> {}]

MapTo(unit, g) ==
  /\ assigned' = Append(assigned, g)
  /\ load' = [load EXCEPT ![g] = @ + unit.len]
  /\ sketch' = [sketch EXCEPT ![g] = @ \cup unit.rows]
  /\ UNCHANGED <<job, units>>

Assign ==
  /\ ~Mapped
  /\ \E unit \in {units[Len(assigned) + 1]} :
       \/ job.policy = "round_robin" /\ MapTo(unit, unit.col % NumBGs)
       \/ /\ job.policy # "round_robin"
          /\ \E g \in {Best(unit, candidates) : candidates \in kSubset(job.choices, BG)} :
               MapTo(unit, g)

\* The indices of a sequence of bank groups, bucket after bucket, stably.
Buckets(bgs) ==
  LET Bucket(g) == SelectSeq([i \in DOMAIN bgs |-> i], LAMBDA i : bgs[i] = g)
  IN  FlattenSeq([g \in 1 .. NumBGs |-> Bucket(g - 1)])

UnitOrder == Buckets(assigned)
ColumnBG == [c \in 1 .. Len(Columns) |->
              assigned[CHOOSE i \in DOMAIN units :
                units[i].col = c - 1 /\ units[i].start = Pointers(Columns)[c]]]
Permutation == [k \in 1 .. Len(Columns) |-> Buckets(ColumnBG)[k] - 1]
UnitDescriptors ==
  [k \in DOMAIN UnitOrder |-> [unit |-> units[UnitOrder[k]], bg |-> assigned[UnitOrder[k]]]]

\* The reordered copy of the physical layouts.
Reordered == [k \in 1 .. Len(Columns) |-> Columns[Permutation[k] + 1]]

\* verify(): every nonzero in exactly one descriptor of its own column, and a
\* reordered copy that holds every column once.  The code also compares the inverse
\* permutation and the copied columns, which here are what they are compared with.
Verify ==
  LET descriptors == UnitDescriptors
      ptr == Pointers(Columns)
      CoveredBy(p) == {k \in DOMAIN descriptors :
        LET unit == descriptors[k].unit IN unit.start < p /\ p <= unit.start + unit.len}
  IN  /\ Len(descriptors) = Len(units)
      /\ \A k \in DOMAIN descriptors :
           LET unit == descriptors[k].unit
           IN  /\ descriptors[k].bg \in BG
               /\ unit.start >= ptr[unit.col + 1]
               /\ unit.start + unit.len <= ptr[unit.col + 2]
      /\ \A p \in 1 .. Nnz : Cardinality(CoveredBy(p)) = 1
      /\ ToSet(Permutation) = 0 .. Len(Columns) - 1
      /\ Last(Pointers(Reordered)) = Nnz

\* materialize_aligned(): one unit per column, in the order of the permutation.
AlignedImage == Packed(Columns, assigned, Permutation, 4)

\* validate_aligned()
ValidateAligned(bgs) ==
  LET Owners(col) == {g \in BG : \E d \in ToSet(bgs[g].descriptors) : d.col = col}
      Count(g) == FoldLeft(LAMBDA n, d : n + d.count, 0, bgs[g].descriptors)
  IN  /\ \A g \in BG :
           /\ Len(bgs[g].descriptors) = Len(bgs[g].permutation)
           /\ \A i \in DOMAIN bgs[g].descriptors :
                LET d == bgs[g].descriptors[i]
                IN  /\ d.bg = g /\ d.count # 0
                    /\ d.col < Len(Columns) /\ assigned[d.col + 1] = g
                    /\ d.value % BurstBytes = 0 /\ d.row % BurstBytes = 0
                    /\ d.slot = i - 1 /\ bgs[g].permutation[i] = d.col
                    /\ InsideStreams(bgs[g], d, 4)
                    /\ \A p \in d.row \div IndexBytes + 1 .. d.row \div IndexBytes + d.count :
                         bgs[g].rows[p] < job.matrix.rows
           /\ IsInjective(bgs[g].permutation)
           /\ PaddingIsZero(bgs[g], 4)
      /\ \A c \in DOMAIN Columns :
           Cardinality(Owners(c - 1)) = IF Columns[c] = <<>> THEN 0 ELSE 1
      /\ MapThenSumSet(Count, BG) = Nnz
=============================================================================
