---------------------------- MODULE CSCFp16Image ----------------------------
(***************************************************************************)
(* The FP16 CSC image, version 2: what exportCSCFp16ImageV2 writes for a   *)
(* source and what loadCSCFp16ImageV2 accepts and rebuilds.                *)
(*                                                                         *)
(* An image is the record of its files' contents (the streams of every     *)
(* bank group and the x file) and of its manifest.  A checksum always      *)
(* matches the content here: a file that is not what its manifest was made *)
(* for is refused where files are modelled (CSCImageExport).  A value is   *)
(* its FP16 bits; conversion statistics but the count, and the constant    *)
(* part of the manifest (magic, version, widths), are left out.            *)
(***************************************************************************)
EXTENDS CSCImageStreams

Fp16Bytes == 2

AllDescriptors(bgs) == FlattenSeq([g \in 1 .. NumBGs |-> bgs[g - 1].descriptors])
EntryCount(columns) == FoldLeft(LAMBDA sum, column : sum + Len(column), 0, columns)
Bytes(bgs, stream, width) ==
  FoldLeft(LAMBDA sum, g : sum + Len(bgs[g - 1][stream]) * width, 0, [g \in 1 .. NumBGs |-> g])

FileSizes(streams) ==
  [descriptors |-> Len(streams.descriptors), permutation |-> Len(streams.permutation),
   values |-> Len(streams.values) * Fp16Bytes, rows |-> Len(streams.rows) * IndexBytes]

\* The accounting the exporter computes: logical, physical and padding bytes.
Accounting(nnz, cols, bgs, x) ==
  [descriptors     |-> Len(AllDescriptors(bgs)),
   logicalValues   |-> nnz * Fp16Bytes,
   physicalValues  |-> Bytes(bgs, "values", Fp16Bytes),
   valuePadding    |-> Bytes(bgs, "values", Fp16Bytes) - nnz * Fp16Bytes,
   logicalRows     |-> nnz * IndexBytes,
   physicalRows    |-> Bytes(bgs, "rows", IndexBytes),
   rowPadding      |-> Bytes(bgs, "rows", IndexBytes) - nnz * IndexBytes,
   logicalX        |-> cols * Fp16Bytes,
   physicalX       |-> Len(x) * Fp16Bytes,
   xPadding        |-> (Len(x) - cols) * Fp16Bytes,
   descriptorBytes |-> Len(AllDescriptors(bgs)) * DescriptorBytes,
   conversions     |-> nnz + cols]

Manifest(rows, cols, nnz, owner, bgs, x) ==
  [rows |-> rows, cols |-> cols, nnz |-> nnz, owner |-> owner,
   sizes |-> [g \in BG |-> FileSizes(bgs[g])], accounting |-> Accounting(nnz, cols, bgs, x)]

\* The image of a source, its columns in ascending order.
Fp16Image(matrix, owner) ==
  LET cols == Len(matrix.columns)
      bgs == Packed(matrix.columns, owner, [c \in 1 .. cols |-> c - 1], Fp16Bytes)
      x == Padded(matrix.x, Fp16Bytes)
  IN  [bgs |-> bgs, x |-> x,
       manifest |-> Manifest(matrix.rows, cols, EntryCount(matrix.columns), owner, bgs, x)]

(* ------------------------------ the loader ----------------------------- *)

\* The end of a descriptor's run, where the next one must start.
ValueEnd(d) == d.value + d.count * Fp16Bytes
RowEnd(d) == d.row + d.count * IndexBytes

\* Mutant: offsets are only checked to be aligned.
Consecutive_Aligned(descriptors) ==
  \A i \in DOMAIN descriptors : /\ descriptors[i].value >= 0 /\ descriptors[i].value % BurstBytes = 0
                               /\ descriptors[i].row >= 0 /\ descriptors[i].row % BurstBytes = 0

Consecutive(descriptors) ==
  \A i \in DOMAIN descriptors :
    /\ descriptors[i].value = (IF i = 1 THEN 0 ELSE Align32(ValueEnd(descriptors[i - 1])))
    /\ descriptors[i].row = (IF i = 1 THEN 0 ELSE Align32(RowEnd(descriptors[i - 1])))

StreamsConsumed(streams) ==
  LET d == streams.descriptors
  IN  /\ Len(streams.values) * Fp16Bytes = (IF d = <<>> THEN 0 ELSE Align32(ValueEnd(Last(d))))
      /\ Len(streams.rows) * IndexBytes = (IF d = <<>> THEN 0 ELSE Align32(RowEnd(Last(d))))

DescriptorOK(manifest, streams, g, i) ==
  LET d == streams.descriptors[i]
  IN  /\ d.bg = g /\ d.count > 0 /\ d.slot = i - 1
      /\ d.col \in 0 .. manifest.cols - 1 /\ manifest.owner[d.col + 1] = g
      /\ streams.permutation[i] = d.col

\* The elements of a run; meaningful once the run lies inside its stream.
Run(streams, d) ==
  [k \in 1 .. d.count |-> [row |-> streams.rows[d.row \div IndexBytes + k],
                           value |-> streams.values[d.value \div Fp16Bytes + k]]]

BankGroupOK(manifest, streams, g) ==
  /\ manifest.sizes[g] = FileSizes(streams)
  /\ Len(streams.permutation) = Len(streams.descriptors)
  /\ \A i \in DOMAIN streams.descriptors : DescriptorOK(manifest, streams, g, i)
  /\ Consecutive(streams.descriptors)
  /\ \A d \in ToSet(streams.descriptors) :
       /\ InsideStreams(streams, d, Fp16Bytes)
       /\ \A k \in 1 .. d.count : Run(streams, d)[k].row < manifest.rows
  /\ StreamsConsumed(streams)
  /\ PaddingIsZero(streams, Fp16Bytes)

\* seen[]: no column has two descriptors.
ColumnsSeenOnce(bgs) ==
  LET all == AllDescriptors(bgs)
  IN  \A i, j \in DOMAIN all : all[i].col = all[j].col => i = j

\* The columns rebuilt from the streams; one without a descriptor is empty.
LoadedColumns(image) ==
  [c \in 1 .. image.manifest.cols |->
    LET owner == image.bgs[image.manifest.owner[c]]
        runs == SelectSeq(owner.descriptors, LAMBDA d : d.col = c - 1)
    IN  IF runs = <<>> THEN <<>> ELSE Run(owner, runs[1])]

AccountingOK(image) ==
  LET m == image.manifest
  IN  /\ EntryCount(LoadedColumns(image)) = m.nnz
      /\ m.accounting = Accounting(m.nnz, m.cols, image.bgs, image.x)

XFileOK(image) ==
  /\ Len(image.x) * Fp16Bytes = Align32(image.manifest.cols * Fp16Bytes)
  /\ \A i \in image.manifest.cols + 1 .. Len(image.x) : image.x[i] = 0

\* loadCSCFp16ImageV2 returns; otherwise it throws.
LoadAccepts(image) ==
  /\ Len(image.manifest.owner) = image.manifest.cols
  /\ \A c \in DOMAIN image.manifest.owner : image.manifest.owner[c] \in BG
  /\ \A g \in BG : BankGroupOK(image.manifest, image.bgs[g], g)
  /\ ColumnsSeenOnce(image.bgs)
  /\ AccountingOK(image)
  /\ XFileOK(image)

Loaded(image) ==
  [rows |-> image.manifest.rows, columns |-> LoadedColumns(image),
   x |-> SubSeq(image.x, 1, image.manifest.cols)]
=============================================================================
