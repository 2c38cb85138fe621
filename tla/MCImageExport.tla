---------------------------- MODULE MCImageExport ----------------------------
(* Small matrices: empty, short, exactly one burst long and longer columns. *)
EXTENDS CSCImageExport

CONSTANTS e1, e2

\* A column of n entries from the row first on; every third value is zero.
Column(first, n) == [k \in 1 .. n |-> [row |-> first + k - 1, value |-> k % 3]]
Matrix(rows, columns) ==
  [rows |-> rows, columns |-> columns, x |-> [c \in DOMAIN columns |-> c % 2]]

Dense == Matrix(20, <<Column(0, 17), Column(3, 8), <<>>, Column(1, 9), Column(0, 16)>>)
Short == Matrix(4, <<Column(0, 1), Column(1, 2), Column(0, 3)>>)
Tiny == Matrix(2, <<Column(1, 1), <<>>, Column(0, 2)>>)

Job(matrix, policy, choices, segment, format, exporters) ==
  [matrix |-> matrix, policy |-> policy, choices |-> choices, segment |-> segment,
   format |-> format, exporters |-> exporters]

MCJobs ==
  {Job(m, p, c, s, "FP32", {}) :
     m \in {Short, Matrix(6, <<Column(0, 5), <<>>, Column(2, 4)>>)},
     p \in {"load_only", "load_similarity"}, c \in {2, 4}, s \in {0, 2}}
  \cup {Job(Dense, p, 4, 0, "FP16", {}) : p \in Policies}
  \cup {Job(Short, "load_only", 2, 0, "FP16", {})}
  \cup {Job(Tiny, "round_robin", 2, 0, f, {e1, e2}) : f \in {"FP32", "FP16"}}
=============================================================================
