----------------------- MODULE CSCImageExport_proofs -----------------------
(***************************************************************************)
(* Proofs about the publication of an image directory, for every matrix,   *)
(* every set of exporters and any number of refused calls, writes cut      *)
(* short and crashes: one exporter at a time holds the directory.          *)
(***************************************************************************)
EXTENDS CSCImageExport, TLAPS

Content == [by : Exporters \cup {Nobody}, whole : BOOLEAN]
Directory == [exists : BOOLEAN, files : [File -> Content], manifest : Content]

\* The preprocessor's check claims the directory, since nobody runs it twice at a
\* time; the FP16 exporter's own create_directories() does.
Holding == {"write", "verify", "publish", "cleanup", "done"}
             \cup IF job.format = "FP32" THEN {"create"} ELSE {}
Waiting == {"start", "failed", "crashed"}
             \cup IF job.format = "FP16" THEN {"create"} ELSE {}

ExportType ==
  /\ job \in Jobs
  /\ exporter \in [Exporters -> [pc : Holding \cup Waiting, file : File]]
  /\ dir \in Directory
  /\ \A e \in Exporters \ job.exporters : exporter[e].pc = "start"

OneHolder ==
  \A e, f \in Exporters : exporter[e].pc \in Holding /\ exporter[f].pc \in Holding => e = f

\* What the holder knows of the directory in each of its phases.
HolderSees(e, pc, n) ==
  /\ pc \in {"write", "verify", "publish", "cleanup", "done"} => dir.exists
  /\ pc \in Holding \ {"cleanup", "done"} => dir.manifest = Missing
  /\ pc = "verify" => \A f \in 1 .. n - 1 : dir.files[f] = Whole(e)
  /\ pc \in {"publish", "done"} => \A f \in File : dir.files[f] = Whole(e)
  /\ pc = "cleanup" => ~dir.manifest.whole /\ job.format = "FP16"
  /\ pc = "done" => dir.manifest \in {Whole(e), Piece(e)}

\* A directory of the FP16 exporter has a holder, or one that died in it.
LeftBehind ==
  job.format = "FP16" /\ dir.exists =>
    \E e \in job.exporters : exporter[e].pc \in Holding \cup {"crashed"}

IInv ==
  /\ ExportType
  /\ OneHolder
  /\ \A e \in Exporters : HolderSees(e, exporter[e].pc, exporter[e].file)
  /\ ~dir.exists => dir = NoDirectory
  /\ LeftBehind

-----------------------------------------------------------------------------
(* Basic facts                                                             *)

LEMMA JobFacts ==
  ASSUME job \in Jobs
  PROVE  /\ job.exporters \subseteq Exporters
         /\ job.format \in {"FP32", "FP16"}
         /\ FileCount \in Nat /\ FileCount >= 1 /\ 1 \in File
<1>1. job.exporters \subseteq Exporters /\ job.format \in {"FP32", "FP16"} BY ExportAssumption
<1>2. NumBGs \in 1 .. 64 BY PreprocessAssumption
<1>3. FileCount \in Nat /\ FileCount >= 1 BY <1>2 DEF FileCount
<1> QED BY <1>1, <1>3 DEF File

\* What depends on the job alone does not change in a run.
LEMMA JobStays ==
  ASSUME job' = job
  PROVE  /\ Holding' = Holding /\ Waiting' = Waiting
         /\ FileCount' = FileCount /\ File' = File
         /\ Directory' = Directory
         /\ EmptyDirectory' = EmptyDirectory /\ NoDirectory' = NoDirectory
<1>1. FileCount' = FileCount BY DEF FileCount
<1>2. File' = File BY <1>1 DEF File
<1>3. EmptyDirectory' = EmptyDirectory BY <1>2 DEF EmptyDirectory
<1> QED BY <1>1, <1>2, <1>3 DEF Holding, Waiting, Directory, NoDirectory

\* The phases in which an exporter holds the directory, and those in which it does not.
LEMMA Phases ==
  ASSUME job.format \in {"FP32", "FP16"}
  PROVE  /\ Holding \cap Waiting = {}
         /\ {"write", "verify", "publish", "cleanup", "done"} \subseteq Holding
         /\ {"start", "failed", "crashed"} \subseteq Waiting
         /\ "create" \in (IF job.format = "FP16" THEN Waiting ELSE Holding)
         /\ Thrown \in Holding \cup Waiting
BY DEF Holding, Waiting, Thrown

\* The two directories an exporter starts from are directories.
LEMMA Directories ==
  ASSUME job \in Jobs
  PROVE  /\ EmptyDirectory \in Directory /\ NoDirectory \in Directory
         /\ EmptyDirectory.exists /\ EmptyDirectory.manifest = Missing
         /\ ~NoDirectory.exists /\ NoDirectory.manifest = Missing
         /\ \A f \in File : EmptyDirectory.files[f] = Missing
<1>1. Missing \in Content BY DEF Missing, Content
<1> QED BY <1>1 DEF EmptyDirectory, NoDirectory, Directory

\* Nobody who waits sees anything, so what one exporter does to the directory while
\* the others wait, and what it does to itself alone, keeps the invariant.
LEMMA OneMoves ==
  ASSUME IInv, job' = job,
         NEW e \in job.exporters, NEW p \in Holding \cup Waiting, NEW n \in File,
         exporter' = [exporter EXCEPT ![e] = [pc |-> p, file |-> n]],
         dir' \in Directory,
         p \in Holding \/ dir' # dir =>
           \A f \in Exporters \ {e} : exporter[f].pc \notin Holding,
         HolderSees(e, p, n)',
         ~dir'.exists => dir' = NoDirectory,
         job.format = "FP16" /\ dir'.exists =>
           \/ p \in Holding \cup {"crashed"}
           \/ dir' = dir /\ exporter[e].pc \notin Holding \cup {"crashed"}
  PROVE  IInv'
<1>1. job \in Jobs /\ exporter \in [Exporters -> [pc : Holding \cup Waiting, file : File]]
  BY DEF IInv, ExportType
<1>2. e \in Exporters /\ job.format \in {"FP32", "FP16"} BY <1>1, JobFacts
<1>3. /\ exporter'[e] = [pc |-> p, file |-> n]
      /\ \A f \in Exporters \ {e} : exporter'[f] = exporter[f]
  BY <1>1, <1>2
<1>4. /\ Holding' = Holding /\ Waiting' = Waiting /\ File' = File
      /\ Directory' = Directory /\ NoDirectory' = NoDirectory
  BY JobStays
<1>5. ExportType'
  <2>1. exporter' \in [Exporters -> [pc : Holding \cup Waiting, file : File]] BY <1>1, <1>2
  <2> QED BY <2>1, <1>1, <1>3, <1>4 DEF IInv, ExportType
<1>6. OneHolder' BY <1>2, <1>3, <1>4 DEF IInv, OneHolder
<1>7. ASSUME NEW f \in Exporters PROVE HolderSees(f, exporter[f].pc, exporter[f].file)'
  <2>1. CASE f = e BY <2>1, <1>3
  <2>2. CASE f # e /\ dir' = dir
    <3>1. HolderSees(f, exporter[f].pc, exporter[f].file) BY DEF IInv
    <3> QED BY <3>1, <2>2, <1>3, <1>4 DEF HolderSees
  <2>3. CASE f # e /\ dir' # dir
    <3>1. exporter[f].pc \notin Holding BY <2>3
    <3>2. exporter[f].pc \notin {"write", "verify", "publish", "cleanup", "done"}
      BY <3>1, <1>2, Phases
    <3> QED BY <3>1, <3>2, <2>3, <1>3, <1>4 DEF HolderSees
  <2> QED BY <2>1, <2>2, <2>3
<1>8. LeftBehind' BY <1>2, <1>3, <1>4, JobFacts, <1>1 DEF IInv, LeftBehind
<1> QED BY <1>4, <1>5, <1>6, <1>7, <1>8 DEF IInv

-----------------------------------------------------------------------------
(* The steps of an exporter                                                *)

\* What the invariant says to the exporter that takes a step.
LEMMA Here ==
  ASSUME IInv, NEW e \in job.exporters
  PROVE  /\ job \in Jobs /\ job.format \in {"FP32", "FP16"} /\ e \in Exporters
         /\ job.exporters \subseteq Exporters
         /\ exporter \in [Exporters -> [pc : Holding \cup Waiting, file : File]]
         /\ exporter[e].pc \in Holding \cup Waiting /\ exporter[e].file \in File
         /\ HolderSees(e, exporter[e].pc, exporter[e].file)
         /\ dir \in Directory
         /\ exporter[e].pc \in Holding =>
              \A f \in Exporters \ {e} : exporter[f].pc \notin Holding
<1>1. /\ job \in Jobs /\ exporter \in [Exporters -> [pc : Holding \cup Waiting, file : File]]
      /\ dir \in Directory
  BY DEF IInv, ExportType
<1>2. job.exporters \subseteq Exporters /\ job.format \in {"FP32", "FP16"} BY <1>1, JobFacts
<1> QED BY <1>1, <1>2 DEF IInv, OneHolder

\* Advance goes to the next file of the same phase or to the first of the next.
LEMMA AdvanceSteps ==
  ASSUME IInv, NEW e \in job.exporters, NEW then \in Holding \cup Waiting, Advance(e, then)
  PROVE  \E p \in Holding \cup Waiting, n \in File :
           /\ exporter' = [exporter EXCEPT ![e] = [pc |-> p, file |-> n]]
           /\ \/ p = then /\ n = 1 /\ exporter[e].file = FileCount
              \/ p = exporter[e].pc /\ n = exporter[e].file + 1
<1>1. /\ e \in Exporters /\ FileCount \in Nat /\ FileCount >= 1 /\ 1 \in File
      /\ exporter \in [Exporters -> [pc : Holding \cup Waiting, file : File]]
  BY Here, JobFacts
<1>2. exporter[e].pc \in Holding \cup Waiting /\ exporter[e].file \in File BY Here
<1>3. CASE exporter[e].file = FileCount
  <2>1. exporter' = [exporter EXCEPT ![e] = [pc |-> then, file |-> 1]] BY <1>3 DEF Advance, Goto
  <2> QED BY <2>1, <1>1, <1>3
<1>4. CASE exporter[e].file # FileCount
  <2>1. exporter[e].file + 1 \in File BY <1>1, <1>2, <1>4 DEF File
  <2>2. exporter' = [exporter EXCEPT ![e] = [exporter[e] EXCEPT !.file = exporter[e].file + 1]]
    BY <1>4 DEF Advance
  <2>3. [exporter[e] EXCEPT !.file = exporter[e].file + 1]
          = [pc |-> exporter[e].pc, file |-> exporter[e].file + 1]
    BY <1>1
  <2>4. exporter' = [exporter EXCEPT ![e] = [pc |-> exporter[e].pc, file |-> exporter[e].file + 1]]
    BY <2>2, <2>3
  <2> QED BY <2>1, <2>4, <1>2
<1> QED BY <1>3, <1>4

\* An exporter that gives up, or dies, leaves the directory to the others.
LEMMA GivesUp ==
  ASSUME IInv, job' = job, NEW e \in job.exporters, NEW pc \in {"failed", "crashed"},
         Goto(e, pc), dir' = dir,
         job.format = "FP16" /\ dir.exists => pc = "crashed" \/ exporter[e].pc \in {"start", "create"}
  PROVE  IInv'
<1>1. job \in Jobs /\ job.format \in {"FP32", "FP16"} /\ dir \in Directory BY Here
<1>2. 1 \in File /\ pc \in Waiting \ Holding BY <1>1, JobFacts, Phases
<1>3. exporter' = [exporter EXCEPT ![e] = [pc |-> pc, file |-> 1]] BY DEF Goto
<1>4. HolderSees(e, pc, 1)' BY <1>1, <1>2, JobStays, Phases DEF HolderSees
<1>5. job.format = "FP16" => "start" \notin Holding \cup {"crashed"} /\ "create" \notin Holding \cup {"crashed"}
  BY Phases
<1>6. NoDirectory' = NoDirectory /\ (~dir'.exists => dir' = NoDirectory) BY JobStays DEF IInv
<1> QED BY <1>1, <1>2, <1>3, <1>4, <1>5, <1>6, OneMoves

\* Finding the output missing, or there already, keeps the invariant.
LEMMA CheckKeeps ==
  ASSUME IInv, job' = job, NEW e \in job.exporters, Check(e)
  PROVE  IInv'
<1>1. CASE Occupied
  <2>1. Goto(e, "failed") /\ dir' = dir /\ exporter[e].pc = "start" BY <1>1 DEF Check, At
  <2> QED BY <2>1, GivesUp
<1>2. CASE ~Occupied
  <2>1. /\ exporter' = [exporter EXCEPT ![e] = [pc |-> "create", file |-> 1]]
        /\ dir' = dir /\ exporter[e].pc = "start" /\ (job.format = "FP32" => Alone(e))
    BY <1>2 DEF Check, At, Goto
  <2>2. /\ job \in Jobs /\ job.format \in {"FP32", "FP16"} /\ dir \in Directory
        /\ e \in Exporters /\ job.exporters \subseteq Exporters
    BY Here
  <2>3. 1 \in File /\ "create" \in Holding \cup Waiting BY <2>2, JobFacts, Phases
  <2>4. CASE job.format = "FP16"
    <3>1. "create" \notin Holding /\ "start" \notin Holding \cup {"crashed"}
      BY <2>2, <2>4, Phases
    <3>2. HolderSees(e, "create", 1)' BY <2>2, <2>4, <3>1, JobStays DEF HolderSees
    <3> QED BY <2>1, <2>2, <2>3, <3>1, <3>2, JobStays, OneMoves DEF IInv
  <2>5. CASE job.format = "FP32"
    <3>1. ASSUME NEW f \in Exporters \ {e} PROVE exporter[f].pc \notin Holding
      <4>1. CASE f \notin job.exporters BY <4>1, <2>2, Phases DEF IInv, ExportType
      <4>2. CASE f \in job.exporters
        <5>1. exporter[f].pc \in {"start", "done", "failed", "crashed"}
          BY <4>2, <2>1, <2>5 DEF Alone, Ended
        <5>2. exporter[f].pc # "done"
          <6>1. exporter[f].pc = "done" => dir.exists /\ dir.files[1] = Whole(f)
            BY <4>2, <2>3, Here DEF HolderSees
          <6>2. Whole(f) # Missing BY DEF Whole, Missing
          <6> QED BY <6>1, <6>2, <2>3, <1>2 DEF Occupied
        <5> QED BY <5>1, <5>2, <2>2, Phases
      <4> QED BY <4>1, <4>2
    <3>2. dir.manifest = Missing BY <1>2, <2>2, <2>5, Directories DEF Occupied, IInv
    <3>3. HolderSees(e, "create", 1)' BY <3>2, <2>1 DEF HolderSees, Missing
    <3> QED BY <2>1, <2>2, <2>3, <2>5, <3>1, <3>3, JobStays, OneMoves DEF IInv
  <2> QED BY <2>2, <2>4, <2>5
<1> QED BY <1>1, <1>2

\* Creating the directory keeps the invariant: one exporter holds it.
LEMMA CreateKeeps ==
  ASSUME IInv, job' = job, NEW e \in job.exporters, Create(e)
  PROVE  IInv'
<1>1. /\ job \in Jobs /\ job.format \in {"FP32", "FP16"} /\ dir \in Directory
      /\ e \in Exporters /\ exporter[e].pc = "create"
  BY Here DEF Create, At
<1>2. 1 \in File /\ "write" \in Holding BY <1>1, JobFacts, Phases
<1>3. ASSUME NEW f \in Exporters \ {e}, ~dir.exists \/ job.format = "FP32"
      PROVE  exporter[f].pc \notin Holding
  <2>1. CASE job.format = "FP32" BY <2>1, <1>1, Here, Phases
  <2>2. CASE job.format = "FP16"
    <3>1. HolderSees(f, exporter[f].pc, exporter[f].file) BY DEF IInv
    <3> QED BY <3>1, <2>2, <1>3 DEF HolderSees, Holding
  <2> QED BY <2>1, <2>2, <1>1
<1>4. CASE ~dir.exists /\ dir' = EmptyDirectory /\ Goto(e, "write")
  <2>1. exporter' = [exporter EXCEPT ![e] = [pc |-> "write", file |-> 1]] BY <1>4 DEF Goto
  <2>2. HolderSees(e, "write", 1)' BY <1>1, <1>4, Directories DEF HolderSees, Missing
  <2> QED BY <2>1, <2>2, <1>1, <1>2, <1>3, <1>4, Directories, OneMoves
<1>5. CASE dir.exists /\ dir' = dir /\ job.format = "FP32" /\ Goto(e, "write")
  <2>1. exporter' = [exporter EXCEPT ![e] = [pc |-> "write", file |-> 1]] BY <1>5 DEF Goto
  <2>2. dir.manifest = Missing BY <1>1, <1>5, Here, Phases DEF HolderSees
  <2>3. HolderSees(e, "write", 1)' BY <2>2, <1>5 DEF HolderSees, Missing
  <2> QED BY <2>1, <2>3, <1>1, <1>2, <1>3, <1>5, OneMoves
<1>6. CASE dir' = dir /\ Goto(e, "failed") BY <1>1, <1>6, GivesUp
<1> QED BY <1>1, <1>4, <1>5, <1>6 DEF Create

\* The holder of the directory goes on in it, hands it to its cleanup or dies in it.
LEMMA HolderMoves ==
  ASSUME IInv, job' = job, NEW e \in job.exporters, exporter[e].pc \in Holding,
         NEW p \in Holding \cup Waiting, NEW n \in File,
         exporter' = [exporter EXCEPT ![e] = [pc |-> p, file |-> n]],
         dir' \in Directory, dir'.exists,
         HolderSees(e, p, n)',
         job.format = "FP16" => p \in Holding \cup {"crashed"}
  PROVE  IInv'
<1>1. \A f \in Exporters \ {e} : exporter[f].pc \notin Holding BY Here
<1> QED BY <1>1, OneMoves

\* Where an exception takes an exporter that knows of no whole manifest.
LEMMA ThrownKeeps ==
  ASSUME IInv, job' = job, NEW e \in job.exporters,
         exporter[e].pc \in {"write", "verify", "publish"}, Goto(e, Thrown),
         dir' \in Directory, dir'.exists, ~dir'.manifest.whole
  PROVE  IInv'
<1>1. job \in Jobs /\ job.format \in {"FP32", "FP16"} BY Here
<1>2. exporter[e].pc \in Holding /\ 1 \in File /\ Thrown \in Holding \cup Waiting
  BY <1>1, Phases, JobFacts
<1>3. exporter' = [exporter EXCEPT ![e] = [pc |-> Thrown, file |-> 1]] BY DEF Goto
<1>4. Thrown' = Thrown /\ Holding' = Holding BY JobStays DEF Thrown
<1>5. HolderSees(e, Thrown, 1)'
  <2>1. CASE job.format = "FP16" BY <2>1, <1>4 DEF HolderSees, Thrown
  <2>2. CASE job.format = "FP32" BY <2>2, <1>1, <1>4, Phases DEF HolderSees, Thrown
  <2> QED BY <2>1, <2>2, <1>1
<1>6. job.format = "FP16" => Thrown \in Holding BY <1>1, Phases DEF Thrown
<1>7. \A p : p = Thrown => HolderSees(e, p, 1)' BY <1>4, <1>5 DEF HolderSees
<1> QED
  <2>1. PICK p \in Holding \cup Waiting : p = Thrown BY <1>2
  <2> QED BY <2>1, <1>2, <1>3, <1>6, <1>7, HolderMoves

\* Writing the next file keeps the invariant.
LEMMA WriteKeeps ==
  ASSUME IInv, job' = job, NEW e \in job.exporters, Write(e)
  PROVE  IInv'
<1>1. /\ job \in Jobs /\ e \in Exporters /\ exporter[e].pc = "write" /\ dir \in Directory
      /\ exporter[e].file \in File /\ job.format \in {"FP32", "FP16"}
  BY Here DEF Write, At
<1>2. "write" \in Holding /\ "verify" \in Holding /\ FileCount \in Nat BY <1>1, Phases, JobFacts
<1>3. dir.exists /\ dir.manifest = Missing BY <1>1, <1>2, Here DEF HolderSees
<1>4. PICK x \in {Whole(e), Piece(e)} : dir' = [dir EXCEPT !.files[exporter[e].file] = x]
  BY DEF Write
<1>5. x \in Content
  <2>1. Whole(e) \in Content /\ Piece(e) \in Content BY <1>1 DEF Whole, Piece, Content
  <2> QED BY <2>1
<1>6. dir' \in Directory /\ dir'.exists /\ dir'.manifest = Missing
  BY <1>1, <1>3, <1>4, <1>5 DEF Directory
<1>7. CASE Advance(e, "verify")
  <2>1. PICK p \in Holding \cup Waiting, n \in File :
          /\ exporter' = [exporter EXCEPT ![e] = [pc |-> p, file |-> n]]
          /\ (p = "verify" /\ n = 1) \/ p = "write"
    BY <1>1, <1>2, <1>7, AdvanceSteps
  <2>2. HolderSees(e, p, n)' BY <2>1, <1>6 DEF HolderSees, Missing
  <2> QED BY <2>1, <2>2, <1>1, <1>2, <1>6, HolderMoves
<1>8. CASE Goto(e, Thrown) BY <1>1, <1>6, <1>8, ThrownKeeps DEF Missing
<1> QED BY <1>7, <1>8 DEF Write

\* Reading a file back keeps the invariant.
LEMMA VerifyFileKeeps ==
  ASSUME IInv, job' = job, NEW e \in job.exporters, VerifyFile(e)
  PROVE  IInv'
<1>1. /\ job \in Jobs /\ e \in Exporters /\ exporter[e].pc = "verify" /\ dir \in Directory
      /\ exporter[e].file \in File /\ job.format \in {"FP32", "FP16"} /\ dir' = dir
  BY Here DEF VerifyFile, At
<1>2. "verify" \in Holding /\ "publish" \in Holding /\ FileCount \in Nat
  BY <1>1, Phases, JobFacts
<1>3. /\ dir.exists /\ dir.manifest = Missing
      /\ \A f \in 1 .. exporter[e].file - 1 : dir.files[f] = Whole(e)
  BY <1>1, <1>2, Here DEF HolderSees
<1>4. dir' \in Directory BY <1>1
<1>5. CASE Goto(e, Thrown) BY <1>1, <1>3, <1>4, <1>5, ThrownKeeps DEF Missing
<1>6. CASE Advance(e, "publish") /\ dir.files[exporter[e].file] = Whole(e)
  <2>1. PICK p \in Holding \cup Waiting, n \in File :
          /\ exporter' = [exporter EXCEPT ![e] = [pc |-> p, file |-> n]]
          /\ \/ p = "publish" /\ n = 1 /\ exporter[e].file = FileCount
             \/ p = "verify" /\ n = exporter[e].file + 1
    BY <1>1, <1>2, <1>6, AdvanceSteps
  <2>2. \A f \in 1 .. exporter[e].file : dir.files[f] = Whole(e) BY <1>1, <1>3, <1>6 DEF File
  <2>3. CASE p = "publish"
    <3>1. \A f \in File' : dir'.files[f] = Whole(e) BY <2>1, <2>2, <2>3, <1>1, JobStays DEF File
    <3>2. HolderSees(e, p, n)' BY <3>1, <2>3, <1>1, <1>3 DEF HolderSees, Missing, Whole
    <3> QED BY <3>2, <2>1, <2>3, <1>1, <1>2, <1>3, HolderMoves
  <2>4. CASE p = "verify"
    <3>1. \A f \in 1 .. n - 1 : dir'.files[f] = Whole(e) BY <2>1, <2>2, <2>4, <1>1 DEF File
    <3>2. HolderSees(e, p, n)' BY <3>1, <2>4, <1>1, <1>3 DEF HolderSees, Missing, Whole
    <3> QED BY <3>2, <2>1, <2>4, <1>1, <1>2, <1>3, HolderMoves
  <2> QED BY <2>1, <2>3, <2>4
<1> QED BY <1>5, <1>6 DEF VerifyFile

\* Renaming the manifest into place keeps the invariant: every file is complete by then.
LEMMA PublishKeeps ==
  ASSUME IInv, job' = job, NEW e \in job.exporters, Publish(e)
  PROVE  IInv'
<1>1. /\ job \in Jobs /\ e \in Exporters /\ exporter[e].pc = "publish" /\ dir \in Directory
      /\ job.format \in {"FP32", "FP16"}
  BY Here DEF Publish, At
<1>2. "publish" \in Holding /\ "done" \in Holding /\ 1 \in File BY <1>1, Phases, JobFacts
<1>3. dir.exists /\ \A f \in File : dir.files[f] = Whole(e) BY <1>1, Here DEF HolderSees
<1>4. PICK x \in {Whole(e), Piece(e)} :
        /\ dir' = [dir EXCEPT !.manifest = x]
        /\ Goto(e, "done") \/ (x = Piece(e) /\ Goto(e, Thrown))
  BY DEF Publish
<1>5. x \in Content
  <2>1. Whole(e) \in Content /\ Piece(e) \in Content BY <1>1 DEF Whole, Piece, Content
  <2> QED BY <2>1
<1>6. dir' \in Directory /\ dir'.exists /\ dir'.manifest = x /\ dir'.files = dir.files
  BY <1>1, <1>3, <1>4, <1>5 DEF Directory
<1>7. CASE Goto(e, "done")
  <2>1. exporter' = [exporter EXCEPT ![e] = [pc |-> "done", file |-> 1]] BY <1>7 DEF Goto
  <2>2. \A f \in File' : dir'.files[f] = Whole(e) BY <1>3, <1>6, JobStays
  <2>3. HolderSees(e, "done", 1)' BY <2>2, <1>4, <1>6 DEF HolderSees, Whole, Piece
  <2> QED BY <2>1, <2>3, <1>1, <1>2, <1>6, HolderMoves
<1>8. CASE x = Piece(e) /\ Goto(e, Thrown) BY <1>1, <1>6, <1>8, ThrownKeeps DEF Piece
<1> QED BY <1>4, <1>7, <1>8

\* Removing what a failed export left keeps the invariant.
LEMMA CleanupKeeps ==
  ASSUME IInv, job' = job, NEW e \in job.exporters, Cleanup(e)
  PROVE  IInv'
<1>1. /\ job \in Jobs /\ job.format \in {"FP32", "FP16"} /\ exporter[e].pc = "cleanup"
      /\ dir' = NoDirectory /\ exporter' = [exporter EXCEPT ![e] = [pc |-> "failed", file |-> 1]]
  BY Here DEF Cleanup, At, Goto
<1>2. 1 \in File /\ "cleanup" \in Holding /\ "failed" \in Waiting \ Holding
  BY <1>1, JobFacts, Phases
<1>3. dir' \in Directory /\ ~dir'.exists BY <1>1, Directories
<1>4. HolderSees(e, "failed", 1)' BY <1>2, JobStays DEF HolderSees
<1>5. \A f \in Exporters \ {e} : exporter[f].pc \notin Holding BY <1>1, <1>2, Here
<1> QED BY <1>1, <1>2, <1>3, <1>4, <1>5, OneMoves

\* A crash keeps the invariant: what it leaves behind has no manifest unless all was written.
LEMMA CrashKeeps ==
  ASSUME IInv, job' = job, NEW e \in job.exporters, Crash(e)
  PROVE  IInv'
<1>1. /\ job \in Jobs /\ job.format \in {"FP32", "FP16"} /\ e \in Exporters /\ dir \in Directory
      /\ exporter[e].file \in File /\ Goto(e, "crashed")
  BY Here DEF Crash
<1>2. CASE dir' = dir BY <1>1, <1>2, GivesUp
<1>3. CASE dir' # dir
  <2>1. exporter[e].pc \in {"write", "publish"} BY <1>3 DEF Crash
  <2>2. exporter[e].pc \in Holding /\ dir.exists BY <2>1, <1>1, Here, Phases DEF HolderSees
  <2>3. Piece(e) \in Content BY <1>1 DEF Piece, Content
  <2>4. \/ dir' = [dir EXCEPT !.files[exporter[e].file] = Piece(e)]
        \/ dir' = [dir EXCEPT !.manifest = Piece(e)]
    BY <1>3 DEF Crash
  <2>5. dir' \in Directory /\ dir'.exists BY <2>2, <2>3, <2>4, <1>1 DEF Directory
  <2>6. 1 \in File /\ "crashed" \in Waiting \ Holding BY <1>1, JobFacts, Phases
  <2>7. HolderSees(e, "crashed", 1)' BY <2>6, JobStays DEF HolderSees
  <2>8. exporter' = [exporter EXCEPT ![e] = [pc |-> "crashed", file |-> 1]] BY <1>1 DEF Goto
  <2> QED BY <2>2, <2>5, <2>6, <2>7, <2>8, HolderMoves
<1> QED BY <1>2, <1>3

-----------------------------------------------------------------------------
(* The inductive invariant and what follows from it                        *)

LEMMA InitHolds == Init => IInv
<1> SUFFICES ASSUME Init PROVE IInv OBVIOUS
<1>1. job \in Jobs BY DEF Init, PlanInit
<1>2. /\ job.format \in {"FP32", "FP16"} /\ 1 \in File
      /\ dir = NoDirectory /\ dir \in Directory /\ ~dir.exists
      /\ exporter = [e \in Exporters |-> [pc |-> "start", file |-> 1]]
  BY <1>1, JobFacts, Directories DEF Init
<1>3. "start" \in Waiting /\ "start" \notin Holding BY <1>2, Phases
<1>4. ExportType BY <1>1, <1>2, <1>3 DEF ExportType
<1>5. OneHolder BY <1>2, <1>3 DEF OneHolder
<1>6. ASSUME NEW e \in Exporters PROVE HolderSees(e, exporter[e].pc, exporter[e].file)
  BY <1>2, <1>3 DEF HolderSees
<1> QED BY <1>2, <1>4, <1>5, <1>6 DEF IInv, LeftBehind

\* Every step keeps the invariant.
LEMMA NextKeeps == IInv /\ [Next]_vars => IInv'
<1> SUFFICES ASSUME IInv, [Next]_vars PROVE IInv' OBVIOUS
<1>1. CASE job' = job /\ exporter' = exporter /\ dir' = dir
  <2>1. /\ Holding' = Holding /\ Waiting' = Waiting /\ File' = File
        /\ Directory' = Directory /\ NoDirectory' = NoDirectory
    BY <1>1, JobStays
  <2>2. ExportType' /\ OneHolder' /\ LeftBehind'
    BY <1>1, <2>1 DEF IInv, ExportType, OneHolder, LeftBehind
  <2>3. ASSUME NEW e \in Exporters PROVE HolderSees(e, exporter[e].pc, exporter[e].file)'
    BY <1>1, <2>1 DEF IInv, HolderSees
  <2> QED BY <1>1, <2>1, <2>2, <2>3 DEF IInv
<1>2. ASSUME NEW e \in Exporters, ExportStep(e), UNCHANGED planVars PROVE IInv'
  <2>1. job' = job /\ e \in job.exporters
    BY <1>2 DEF planVars, ExportStep, Check, Create, Write, VerifyFile, Publish, Cleanup, Crash, At
  <2> QED BY <2>1, <1>2, CheckKeeps, CreateKeeps, WriteKeeps, VerifyFileKeeps, PublishKeeps,
             CleanupKeeps, CrashKeeps DEF ExportStep
<1>3. CASE Assign /\ UNCHANGED exportVars BY <1>3, <1>1 DEF Assign, MapTo, exportVars
<1>4. CASE Edit BY <1>4, <1>1 DEF Edit, planVars
<1>5. CASE UNCHANGED vars BY <1>5, <1>1 DEF vars
<1> QED BY <1>2, <1>3, <1>4, <1>5 DEF Next

\* The invariant implies that a manifest is there only with every file.
LEMMA InvariantGivesAllOrNothing == IInv => AllOrNothing
<1> SUFFICES ASSUME IInv PROVE AllOrNothing OBVIOUS
<1>1. ASSUME NEW e \in Exporters, exporter[e].pc = "done", dir.manifest # Piece(e)
      PROVE  dir.manifest = Whole(e) /\ \A f \in File : dir.files[f] = Whole(e)
  <2>1. HolderSees(e, exporter[e].pc, exporter[e].file) BY DEF IInv
  <2> QED BY <2>1, <1>1 DEF HolderSees
<1>2. ASSUME job.format = "FP16", job.exporters # {},
             \A e \in job.exporters : exporter[e].pc = "failed"
      PROVE  ~dir.exists
  <2>1. "failed" \notin Holding BY <1>2, Phases
  <2> QED BY <1>2, <2>1 DEF IInv, LeftBehind
<1> QED BY <1>1, <1>2 DEF AllOrNothing

\* A holder that could still change the directory knows of no whole manifest.
LEMMA StepLeavesPublished ==
  ASSUME IInv, [Next]_vars, dir.manifest.whole
  PROVE  dir' = dir
<1>1. ASSUME NEW e \in Exporters, ExportStep(e) PROVE dir' = dir
  <2>1. e \in job.exporters
    BY <1>1 DEF ExportStep, Check, Create, Write, VerifyFile, Publish, Cleanup, Crash, At
  <2>2. /\ HolderSees(e, exporter[e].pc, exporter[e].file)
        /\ job \in Jobs /\ job.format \in {"FP32", "FP16"}
    BY <2>1, Here
  <2>3. exporter[e].pc \notin {"write", "publish", "cleanup"}
    BY <2>2, Phases DEF HolderSees, Missing
  <2>4. dir.exists BY <2>2, Directories DEF IInv, Missing
  <2> QED BY <1>1, <2>3, <2>4
          DEF ExportStep, Check, Create, Write, VerifyFile, Publish, Cleanup, Crash, At
<1> QED BY <1>1 DEF Next, Assign, exportVars, Edit, vars

\* The inductive invariant: one exporter at a time holds the directory, and it
\* finds in it what it put there.
THEOREM Invariance == Spec => []IInv
BY InitHolds, NextKeeps, PTL DEF Spec

\* No number of exporters, refused calls, short writes and crashes makes an export
\* that returned leave anything but its own whole files, or an FP16 export that
\* threw leave anything at all.
THEOREM ExportsAllOrNothing == Spec => []AllOrNothing
BY Invariance, InvariantGivesAllOrNothing, PTL

\* A published image is never changed again: not by the exporter that finds the
\* directory occupied, nor by the cleanup of one that lost the race to create it.
THEOREM PublishedForGood == Spec => PublishedStays
<1>1. IInv /\ [Next]_vars => [dir.manifest.whole => dir' = dir]_dir BY StepLeavesPublished
<1> QED BY <1>1, Invariance, PTL DEF Spec, PublishedStays
=============================================================================
