------------------------------ MODULE MCDisks ------------------------------
(* Small instances of ScanJobs, ScanTree, HashJobs and DirSizes for TLC,   *)
(* side by side: they share no state, and a behaviour is one of theirs.    *)
EXTENDS ScanJobs, ScanTree, HashJobs, DirSizes, TLC

CONSTANTS s1, s2, s3, h1, h2, j1, j2, f1, f2,
    Parts    \* the components a run has: "scans", "tree", "hashes", "sizes"
VARIABLE part

\* Two scans of one host; a third is of another, or of the same one where a
\* run asks for that.
Apart    == s1 :> h1 @@ s2 :> h1 @@ s3 :> h2
Together == [s \in Scans |-> h1]

\* A job of two files and a job of one of them.
Overlap == j1 :> {f1, f2} @@ j2 :> {f1}

\* Two directories side by side, one of them two levels deep, and a file.
Family == "a" :> "r" @@ "b" :> "r" @@ "c" :> "a" @@ "d" :> "a" @@ "e" :> "d" @@ "f" :> "r"

\* One directory of each kind.
Mixed == <<"whole", "floor", "nothing">>

\* Only the sizes begin in more than one way.
PartInit ==
    /\ part \in Parts
    /\ ScanInit /\ TreeInit /\ HashInit /\ SizeInit
    /\ part # "sizes" => remote = [nice |-> TRUE, sudo |-> TRUE, flags |-> TRUE] /\ window

PartNext ==
    /\ UNCHANGED part
    /\ \/ part = "scans"  /\ ScanNext /\ UNCHANGED <<treeVars, hashVars, sizeVars>>
       \/ part = "tree"   /\ TreeNext /\ UNCHANGED <<scanVars, hashVars, sizeVars>>
       \/ part = "hashes" /\ HashNext /\ UNCHANGED <<scanVars, treeVars, sizeVars>>
       \/ part = "sizes"  /\ SizeNext /\ UNCHANGED <<scanVars, treeVars, hashVars>>

PartSpec ==
    /\ PartInit /\ [][PartNext]_<<scanVars, treeVars, hashVars, sizeVars, part>>
    /\ part = "sizes" => SizeFair

\* The type invariants.
DiskTypesOK == ScanTypeOK /\ TreeTypeOK /\ HashTypeOK /\ SizeTypeOK

\* Both queues implement the slot pool (ScanQueueRefines, HashQueueRefines).
SlotsAreGiven == ScanQueueRefines /\ HashQueueRefines

\* What a checksum job says and leaves behind is true of the files
\* (ShownDigestIsCurrent, DoneFrameCovers).
DigestsAreCurrent == ShownDigestIsCurrent /\ DoneFrameCovers

\* The figures of the tree map and of the listing are true of the disk
\* (LevelsSumToParent, KindsAreRight, EachAnsweredOnce, FiguresAreTrue).
MeasuresAreTrue == LevelsSumToParent /\ KindsAreRight /\ EachAnsweredOnce /\ FiguresAreTrue

\* What the panels show of the disk is true of it.
ShownIsTrue == DigestsAreCurrent /\ MeasuresAreTrue

\* The reader of a listing that stays is told about every directory.
ReaderIsTold == part = "sizes" => ListingEnds

\* Work that waits is taken up, and a listing is told to its end.
DiskWorkSettles == SlotsAreGiven /\ ReaderIsTold
=============================================================================
