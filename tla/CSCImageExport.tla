--------------------------- MODULE CSCImageExport ---------------------------
(***************************************************************************)
(* Publication of an image directory.  When the mapping of a run           *)
(* (CSCLightPreprocess) is complete, its exporters start: processes of     *)
(* the preprocessor (format "FP32", export_aligned) or of the FP16         *)
(* exporter (format "FP16", exportCSCFp16ImageV2), all with the same       *)
(* directory.  Each checks the directory, creates it, writes its files one *)
(* by one, reopens and compares each, and writes the manifest last.        *)
(*                                                                         *)
(* The file system may refuse a call (the exporter throws), lose the end   *)
(* of a file when the stream is closed, which nobody checks, and a process *)
(* may die at any point.  Any writer that keeps the checksums right may    *)
(* produce an image that differs from the exporter's (Edit).               *)
(***************************************************************************)
EXTENDS CSCLightPreprocess, CSCFp16Image

CONSTANTS Exporters,     \* the processes that may export; a job names those it runs
          MaxFaults,     \* bound: calls refused and writes cut short
          MaxCrashes     \* bound: processes that die

ASSUME ExportAssumption ==
  /\ MaxFaults \in Nat /\ MaxCrashes \in Nat
  /\ \A j \in Jobs : /\ j.exporters \subseteq Exporters
                     /\ j.format \in {"FP32", "FP16"}
                     /\ j.exporters # {} => j.segment = 0

VARIABLES
  exporter,   \* per process: where it is and which file it is at
  dir,        \* the directory: files and manifest, with who wrote them
  faults,
  crashes,
  edited      \* the image on disk when another writer made it, else NotEdited

exportVars == <<exporter, dir, faults, crashes, edited>>
vars == <<job, units, assigned, load, sketch, exporter, dir, faults, crashes, edited>>

NotEdited == <<>>
Nobody == "nobody"

\* Every bank group has its four files; FP16 adds the file of x.
FileCount == 4 * NumBGs + IF job.format = "FP16" THEN 1 ELSE 0
File == 1 .. FileCount

\* What is on disk under a name: nothing, a piece, or all that a process wrote.
Missing == [by |-> Nobody, whole |-> FALSE]
Whole(e) == [by |-> e, whole |-> TRUE]
Piece(e) == [by |-> e, whole |-> FALSE]

EmptyDirectory == [exists |-> TRUE, files |-> [f \in File |-> Missing], manifest |-> Missing]
NoDirectory == [EmptyDirectory EXCEPT !.exists = FALSE]

Init ==
  /\ PlanInit
  /\ exporter = [e \in Exporters |-> [pc |-> "start", file |-> 1]]
  /\ dir = NoDirectory
  /\ faults = 0 /\ crashes = 0
  /\ edited = NotEdited

Goto(e, pc) == exporter' = [exporter EXCEPT ![e] = [pc |-> pc, file |-> 1]]

\* The next file, or the next phase after the last one.
Advance(e, then) ==
  IF exporter[e].file = FileCount THEN Goto(e, then)
  ELSE exporter' = [exporter EXCEPT ![e].file = @ + 1]

At(e, pc) == Mapped /\ e \in job.exporters /\ exporter[e].pc = pc
NoFault == UNCHANGED faults
AFault == faults < MaxFaults /\ faults' = faults + 1
Rest == UNCHANGED <<crashes, edited>>

\* An exception inside the try block of the FP16 exporter removes the directory.
Thrown == IF job.format = "FP16" THEN "cleanup" ELSE "failed"

Occupied == /\ dir.exists
            /\ \/ job.format = "FP16"
               \/ dir.manifest # Missing
               \/ \E f \in File : dir.files[f] # Missing

Ended(e) == exporter[e].pc \in {"done", "failed", "crashed"}

\* Nobody runs the preprocessor twice at a time with one directory.
Alone(e) == \A other \in job.exporters \ {e} : exporter[other].pc = "start" \/ Ended(other)

\* Mutant: the check stands inside the try block.
Check_InsideTry(e) ==
  /\ At(e, "start") /\ (job.format = "FP32" => Alone(e))
  /\ Goto(e, IF Occupied THEN Thrown ELSE "create")
  /\ NoFault /\ UNCHANGED dir /\ Rest

Check(e) ==
  /\ At(e, "start") /\ (job.format = "FP32" => Alone(e))
  /\ Goto(e, IF Occupied THEN "failed" ELSE "create")
  /\ NoFault /\ UNCHANGED dir /\ Rest

\* create_directories() makes a directory or finds one; FP16 refuses to find one.
Create(e) ==
  /\ At(e, "create")
  /\ \/ /\ ~dir.exists
        /\ dir' = EmptyDirectory /\ Goto(e, "write") /\ NoFault
     \/ /\ dir.exists
        /\ Goto(e, IF job.format = "FP16" THEN "failed" ELSE "write")
        /\ UNCHANGED dir /\ NoFault
     \/ AFault /\ Goto(e, "failed") /\ UNCHANGED dir
  /\ Rest

Write(e) ==
  /\ At(e, "write")
  /\ \E f \in {exporter[e].file} :
       \/ /\ dir' = [dir EXCEPT !.files[f] = Whole(e)]
          /\ Advance(e, "verify") /\ NoFault
       \/ /\ AFault /\ dir' = [dir EXCEPT !.files[f] = Piece(e)]
          /\ Advance(e, "verify") \/ Goto(e, Thrown)
  /\ Rest

\* Mutant: a file that can be read again is taken as good.
VerifyFile_Opens(e) ==
  /\ At(e, "verify")
  /\ \/ Advance(e, "publish") /\ NoFault
     \/ AFault /\ Goto(e, Thrown)
  /\ UNCHANGED dir /\ Rest

\* Reopen, compare size and checksum with what was meant to be written.
VerifyFile(e) ==
  /\ At(e, "verify")
  /\ \E f \in {exporter[e].file} :
       IF dir.files[f] = Whole(e)
       THEN \/ Advance(e, "publish") /\ NoFault
            \/ AFault /\ Goto(e, Thrown)
       ELSE Goto(e, Thrown) /\ NoFault
  /\ UNCHANGED dir /\ Rest

Publish(e) ==
  /\ At(e, "publish")
  /\ \/ dir' = [dir EXCEPT !.manifest = Whole(e)] /\ Goto(e, "done") /\ NoFault
     \/ /\ AFault /\ dir' = [dir EXCEPT !.manifest = Piece(e)]
        /\ Goto(e, "done") \/ Goto(e, Thrown)
  /\ Rest

\* remove_all(root), then the exception goes on.
Cleanup(e) ==
  /\ At(e, "cleanup")
  /\ dir' = NoDirectory
  /\ Goto(e, "failed")
  /\ NoFault /\ Rest

Crash(e) ==
  /\ Mapped /\ e \in job.exporters /\ ~Ended(e)
  /\ crashes < MaxCrashes /\ crashes' = crashes + 1
  /\ Goto(e, "crashed")
  /\ \/ UNCHANGED dir
     \/ /\ exporter[e].pc = "write"
        /\ dir' = [dir EXCEPT !.files[exporter[e].file] = Piece(e)]
     \/ /\ exporter[e].pc = "publish"
        /\ dir' = [dir EXCEPT !.manifest = Piece(e)]
  /\ UNCHANGED <<faults, edited>>

Exported == Fp16Image(job.matrix, assigned)

(* ------------------------ images of other writers ---------------------- *)

DescriptorVariants(d) ==
  {[d EXCEPT !.value = @ + n] : n \in {-32, 2, 32}}
  \cup {[d EXCEPT !.row = @ + n] : n \in {-32, 4, 32}}
  \cup {[d EXCEPT !.count = @ + n] : n \in {-1, 1}}
  \cup {[d EXCEPT !.slot = 1 - @]}
  \cup {[d EXCEPT !.col = c] : c \in {ColumnIds[k] : k \in DOMAIN ColumnIds}}
  \cup {[d EXCEPT !.bg = g] : g \in BG}

\* One element other than the exporter's, a burst of zeros too many, or one missing.
StreamVariants(stream, perBurst, wrong) ==
  {[stream EXCEPT ![i] = v] : i \in DOMAIN stream, v \in {0, wrong}}
  \cup {stream \o [i \in 1 .. perBurst |-> 0]}
  \cup {SubSeq(stream, 1, Len(stream) - perBurst)}

Variants(image) ==
  UNION {UNION {{[image EXCEPT !.bgs[g].descriptors[i] = d] : d \in DescriptorVariants(image.bgs[g].descriptors[i])}
                  : i \in DOMAIN image.bgs[g].descriptors} : g \in BG}
  \cup UNION {{[image EXCEPT !.bgs[g].values = s] : s \in StreamVariants(image.bgs[g].values, 16, 1)}
                \cup {[image EXCEPT !.bgs[g].rows = s] :
                        s \in StreamVariants(image.bgs[g].rows, 8, job.matrix.rows)}
                \cup {[image EXCEPT !.bgs[g].permutation = Reverse(@)]} : g \in BG}
  \cup {[image EXCEPT !.bgs = Packed(Columns, assigned, Reverse(ColumnIds), Fp16Bytes)]}
  \cup {[image EXCEPT !.manifest.owner[c] = g] : c \in DOMAIN Columns, g \in BG}
  \cup {[image EXCEPT !.x = s] : s \in StreamVariants(image.x, 16, 1)}

\* The manifest the same writer would make for its streams.
Refit(image) ==
  LET m == image.manifest
      nnz == FoldLeft(LAMBDA sum, d : sum + d.count, 0, AllDescriptors(image.bgs))
  IN  [image EXCEPT !.manifest = Manifest(m.rows, m.cols, nnz, m.owner, image.bgs, image.x)]

\* The directory of a job without an exporter holds another writer's image.
Edit ==
  /\ Mapped /\ job.exporters = {} /\ job.format = "FP16" /\ edited = NotEdited
  /\ \E image \in Variants(Exported) : edited' = image \/ edited' = Refit(image)
  /\ UNCHANGED <<planVars, exporter, dir, faults, crashes>>

(* --------------------------- specification ----------------------------- *)

ExportStep(e) ==
  \/ Check(e) \/ Create(e) \/ Write(e) \/ VerifyFile(e)
  \/ Publish(e) \/ Cleanup(e) \/ Crash(e)

Finished == /\ Mapped /\ \A e \in job.exporters : Ended(e)
            /\ job.exporters = {} => edited # NotEdited \/ job.format = "FP32"

Next ==
  \/ Assign /\ UNCHANGED exportVars
  \/ (\E e \in Exporters : ExportStep(e)) /\ UNCHANGED planVars
  \/ Edit
  \/ Finished /\ UNCHANGED vars

Spec == Init /\ [][Next]_vars

(* ------------------------------ properties ----------------------------- *)

\* The mapping is complete and nothing else has happened.
Planned == /\ Mapped /\ edited = NotEdited
           /\ \A e \in Exporters : exporter[e].pc = "start"

\* Whatever the candidates and the segments were, every nonzero lies in exactly
\* one descriptor, of its own column, and the reordered copy holds every column
\* once (verify).  The aligned image passes its validation, and the FP16
\* exporter, which goes over the columns in another order, gives every bank
\* group the same columns in the same x slots and the same row-index stream.
LayoutHolds ==
  Planned =>
    /\ Verify
    /\ job.segment = 0 =>
         /\ ValidateAligned(AlignedImage)
         /\ \A g \in BG : /\ Exported.bgs[g].permutation = AlignedImage[g].permutation
                          /\ Exported.bgs[g].rows = AlignedImage[g].rows

\* With every bank group among the candidates, no bank group is ever ahead of
\* another by more than the longest unit and what a perfect row match is worth
\* in the score of the load_similarity policy.
GreedyBalance ==
  job.policy # "round_robin" /\ job.choices = NumBGs =>
    \A g, h \in BG : \E i \in DOMAIN units :
      10 * NumBGs * (load[g] - load[h] - units[i].len)
        <= IF job.policy = "load_similarity" THEN BetaTenths * Nnz ELSE 0

\* The loader accepts what the FP16 exporter makes of any matrix and any
\* mapping, and rebuilds that matrix and its x: empty columns, columns that fill
\* their last burst exactly, zeros and row 0 beside padding included.
RoundTrips ==
  Planned /\ job.segment = 0 =>
    LoadAccepts(Exported) /\ Loaded(Exported) = job.matrix

\* An export that returned normally left a directory whose every file is whole
\* and its own; the one thing it does not notice is a manifest cut short when
\* its stream was closed.  FP16 exports that all failed left nothing behind.
AllOrNothing ==
  /\ \A e \in Exporters :
       exporter[e].pc = "done" /\ dir.manifest # Piece(e) =>
         dir.manifest = Whole(e) /\ \A f \in File : dir.files[f] = Whole(e)
  /\ job.format = "FP16" /\ job.exporters # {}
       /\ (\A e \in job.exporters : exporter[e].pc = "failed") => ~dir.exists

\* Once a manifest is published no exporter changes or removes the directory,
\* the one that fails on finding it included.
PublishedStays == [][dir.manifest.whole => dir' = dir]_dir

\* Whoever wrote it, an image the loader accepts is element for element what
\* an exporter writes for the matrix it loads as, for some order of columns.
AcceptedIsCanonical ==
  edited # NotEdited /\ LoadAccepts(edited) =>
    LET order == FlattenSeq([g \in 1 .. NumBGs |-> edited.bgs[g - 1].permutation])
    IN  /\ edited.bgs = Packed(Loaded(edited).columns, edited.manifest.owner, order, Fp16Bytes)
        /\ edited.x = Padded(Loaded(edited).x, Fp16Bytes)
        /\ edited.manifest = Fp16Image(Loaded(edited), edited.manifest.owner).manifest
=============================================================================
