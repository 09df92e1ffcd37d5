--------------------------- MODULE MCTransferRun ---------------------------
(***************************************************************************)
(* Small instances of TransferRun for TLC.  One run explores three jobs,   *)
(* each under constants of its own: the move between hosts that the        *)
(* configuration describes, a copy, and a move within one filesystem,      *)
(* under either kind of rename.                                            *)
(***************************************************************************)
EXTENDS TransferRun, TLC

CONSTANTS fileA, fileB, dirD
VARIABLE kind

\* A file at the top of the selection, and a directory with a file in it.
Tree == fileA :> {} @@ fileB :> {dirD} @@ dirD :> {}

\* The answers: nobody was asked about the directory.
Asked(x, y) == fileA :> x @@ fileB :> y @@ dirD :> "ASK"
SkipAndOver == Asked("SKIP", "OVERWRITE")
OverAndAsk  == Asked("OVERWRITE", "ASK")

\* A copy that keeps both of one file, with two failing calls.
Copy == INSTANCE TransferRun WITH
    IsMove <- FALSE, Decision <- Asked("RENAME", "ASK"), MaxFaults <- 2, MaxBlind <- 0

\* A move by rename or, when the mount table cannot be read, by copying.  Its
\* destination refuses to replace a file, as SFTP does, ...
Fast == INSTANCE TransferRun WITH
    SameHost <- TRUE, SameFs <- TRUE, Decision <- Asked("ASK", "ASK"), Replaces <- FALSE,
    MaxBlind <- 0

\* ... or replaces it, as the local driver does.
Over == INSTANCE TransferRun WITH
    SameHost <- TRUE, SameFs <- TRUE, Decision <- Asked("ASK", "ASK"), Replaces <- TRUE,
    MaxBlind <- 0

KindInit == \/ kind = "move"   /\ Init
            \/ kind = "copy"   /\ Copy!Init
            \/ kind = "rename" /\ Fast!Init
            \/ kind = "replace" /\ Over!Init
KindNext == /\ UNCHANGED kind
            /\ \/ kind = "move"   /\ Next
               \/ kind = "copy"   /\ Copy!Next
               \/ kind = "rename" /\ Fast!Next
               \/ kind = "replace" /\ Over!Next
KindSpec == KindInit /\ [][KindNext]_<<vars, kind>> /\ WF_vars(kind = "move" /\ Run)

\* The job of the configuration alone.
AloneSpec == kind = "move" /\ Init /\ [][KindNext]_<<vars, kind>>

\* TransferRun's properties where they hold for one kind of job only: what the
\* rename path leaves undone is NothingLost's concern and a run's of its own.
CopiedCoversItems == kind \in {"move", "copy"} => DoneCoversItems
MovedSourcesGone  == kind = "move" => SourcesGone
MoveSettles       == kind = "move" => JobSettles

\* A job that calls an item or itself done has done what it says, and no run
\* leaves a part behind that it could discard (DoneArrived, DoneCoversItems,
\* SourcesGone, PartsDiscarded).
DoneIsComplete == DoneArrived /\ CopiedCoversItems /\ MovedSourcesGone /\ PartsDiscarded
=============================================================================
