-------------------------- MODULE MCTransferQueue --------------------------
(* Small instances of TransferQueue for TLC.                               *)
EXTENDS TransferQueue, TLC

CONSTANTS j1, j2, j3, h1, h2
VARIABLE kind

\* Three jobs over two machines; the middle one uses both, so its end can
\* start two others at once and its wait can be overtaken.
Straddle == j1 :> {h1} @@ j2 :> {h1, h2} @@ j3 :> {h2}

\* Two jobs between the same two machines.
Paired == [j \in Jobs |-> {h1, h2}]

\* One job of two entries and its requests at length: cancels, retries, a
\* failing database call and a host that is deleted under it.
Long == INSTANCE TransferQueue WITH
    Items <- {1, 2}, MaxInFlight <- 2, MaxPerHost <- 2, MaxCancels <- 2, MaxRetries <- 2, MaxFaults <- 1,
    Deletable <- {h1}, Moves <- {}

\* The configuration's jobs, ...
AloneSpec == kind = "jobs" /\ Init /\ [][UNCHANGED kind /\ Next]_<<vars, kind>>

\* ... or, beside them, the long life of one.
KindInit == \/ kind = "jobs" /\ Init
            \/ kind = "long" /\ Long!Init
KindNext == /\ UNCHANGED kind
            /\ \/ kind = "jobs" /\ Next
               \/ kind = "long" /\ Long!Next /\ \A j \in Jobs \ {j1} : row'[j] = "absent"
KindSpec == KindInit /\ [][KindNext]_<<vars, kind>> /\ (kind = "jobs" => Fairness)

JobsSettle == kind = "jobs" => EveryJobSettles
=============================================================================
