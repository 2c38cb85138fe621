-------------------------- MODULE CSCImageStreams --------------------------
(***************************************************************************)
(* The bank-group streams of a column-aligned CSC image, as both exporters *)
(* lay them out: every nonempty column starts at a 32-byte boundary of the *)
(* value stream and of the row-index stream of the bank group that owns it *)
(* and is padded with zeros to the next one.                               *)
(*                                                                         *)
(* A stream is the sequence of its elements (2- or 4-byte values, 4-byte   *)
(* row indices); offsets are in bytes.  Nothing tells a padding element    *)
(* from a stored zero or row 0, as in the files.  Columns and rows count   *)
(* from 0; sequences indexed by a column are read at column + 1.           *)
(***************************************************************************)
EXTENDS Integers, Sequences, FiniteSets, SequencesExt

CONSTANT NumBGs       \* bank groups of the system, 64 in the code

BG == 0 .. NumBGs - 1

BurstBytes == 32
IndexBytes == 4
DescriptorBytes == 32

Align32(bytes) == ((bytes + BurstBytes - 1) \div BurstBytes) * BurstBytes

\* Mutant: a column that fills its last burst exactly gets another one.
Padded_NextBurst(elements, width) ==
  elements \o [i \in 1 .. (BurstBytes \div width) - (Len(elements) % (BurstBytes \div width)) |-> 0]

\* The elements of a column and the zeros that complete its last burst.
Padded(elements, width) ==
  elements \o [i \in 1 .. Align32(Len(elements) * width) \div width - Len(elements) |-> 0]

NoStreams == [values |-> <<>>, rows |-> <<>>, descriptors |-> <<>>, permutation |-> <<>>]
EmptyStreams == [g \in BG |-> NoStreams]

Values(column) == [i \in DOMAIN column |-> column[i].value]
Rows(column) == [i \in DOMAIN column |-> column[i].row]

Descriptor(streams, column, col, g, width) ==
  [value |-> Len(streams.values) * width, row |-> Len(streams.rows) * IndexBytes,
   count |-> Len(column), slot |-> Len(streams.descriptors), col |-> col, bg |-> g]

\* One column goes to the end of its owner's streams; an empty one goes nowhere.
PackColumn(bgs, column, col, g, width) ==
  IF column = <<>> THEN bgs
  ELSE [bgs EXCEPT ![g] =
         [values      |-> @.values \o Padded(Values(column), width),
          rows        |-> @.rows \o Padded(Rows(column), IndexBytes),
          descriptors |-> Append(@.descriptors, Descriptor(@, column, col, g, width)),
          permutation |-> Append(@.permutation, col)]]

\* The columns named by the sequence order, one after the other.
Packed(columns, owner, order, width) ==
  LET Pack(bgs, col) == PackColumn(bgs, columns[col + 1], col, owner[col + 1], width)
  IN  FoldLeft(Pack, EmptyStreams, order)

\* The elements of a stream that some descriptor of the bank group covers.
Covered(descriptors, at, width) ==
  UNION {(d[at] \div width) + 1 .. (d[at] \div width) + d.count : d \in ToSet(descriptors)}

PaddingIsZero(streams, width) ==
  /\ \A i \in DOMAIN streams.values \ Covered(streams.descriptors, "value", width) :
       streams.values[i] = 0
  /\ \A i \in DOMAIN streams.rows \ Covered(streams.descriptors, "row", IndexBytes) :
       streams.rows[i] = 0

InsideStreams(streams, d, width) ==
  /\ d.value + d.count * width <= Len(streams.values) * width
  /\ d.row + d.count * IndexBytes <= Len(streams.rows) * IndexBytes
=============================================================================
