---------------------------- MODULE TransferRun ----------------------------
(***************************************************************************)
(* What TransferRunner.execute does to the files of one job: directories   *)
(* made, each file written under a hidden name and renamed into place, the *)
(* sources of a move verified and removed, the move that is one rename per *)
(* selected entry, and all of it again after a crash, an abort or a retry. *)
(* A driver call and the row that records it are separate steps.           *)
(*                                                                         *)
(* The queue, the requests and the statuses of many jobs are               *)
(* TransferQueue's subject; here one job is loaded, run and loaded again.  *)
(***************************************************************************)
EXTENDS Naturals, FiniteSets

CONSTANTS
    Items,       \* the planned entries
    Dirs,        \* those that are directories
    Above,       \* Above[i]: the planned directories entry i lies under
    Decision,    \* the answer each entry carries into the job
    IsMove,      \* the operation is MOVE
    SameHost,    \* source and destination are one host
    SameFs,      \* and, by its mount table, one filesystem
    Replaces,    \* the destination's rename replaces a file (POSIX) or refuses
    NoItem,      \* nothing in hand
    MaxNames,    \* MAX_KEEP_BOTH_ATTEMPTS - 1: the last name `keepBoth` may try
    MaxFaults,   \* bounds on the environment: driver and database calls that
    MaxBlind,    \* fail, `stat` calls that fail for another reason than
    MaxCrashes,  \* absence, process ends, aborts, retries, and what
    MaxAborts,   \* somebody else does to the files meanwhile
    MaxRetries,
    MaxMeddles

Files == Items \ Dirs
Names == 1 .. MaxNames      \* 1 is the entry's own name

ASSUME RunAssumption ==
    /\ IsFiniteSet(Items) /\ NoItem \notin Items
    /\ Dirs \subseteq Items
    /\ Above \in [Items -> SUBSET Dirs]
    /\ \A i \in Items : i \notin Above[i]
    /\ \A i \in Items : \A d \in Above[i] : Above[d] \subseteq Above[i]
    /\ Decision \in [Items -> {"ASK", "OVERWRITE", "SKIP", "RENAME"}]
    /\ \A d \in Dirs : Decision[d] = "ASK"
    /\ {IsMove, SameHost, SameFs, Replaces} \subseteq BOOLEAN
    /\ MaxNames \in Nat \ {0}
    /\ {MaxFaults, MaxBlind, MaxCrashes, MaxAborts, MaxRetries, MaxMeddles} \subseteq Nat

VARIABLES
    job,      \* TransferJobs.status
    status,   \* TransferItems.status
    final,    \* TransferItems.finalName, as the name it stands for
    src,      \* the entries still at the source
    made,     \* the directories at the destination
    dst,      \* what is at the destination under each name of a file
    parts,    \* parts[f]: the `.part`s of f at the destination, each name drawn anew
    pc,       \* the phase execute() is in
    plan,     \* the items it loaded
    left,     \* those the phase still has to handle
    hand,     \* the item in hand, what has been done to it, and its name
    abort,    \* the reason its signal was aborted with
    outcome,  \* what run() will write; RUNNING leaves the row alone
    late,     \* history: files taken by somebody after their name was settled
    lost,     \* history: files whose last copy somebody else destroyed
    strays,   \* history: strays[f]: the `.part`s nothing will remove any more
    used      \* how much of each environment bound is spent

rows  == <<status, final>>
disks == <<src, made, dst, parts>>
task  == <<pc, plan, left, hand, outcome>>
past  == <<late, lost, strays>>
vars  == <<job, rows, disks, task, abort, past, used>>

Settled  == {"DONE", "SKIPPED"}
Terminal == {"DONE", "FAILED", "CANCELLED"}
Tops     == {i \in Items : Above[i] = {}}
Under(t) == {i \in Items : i = t \/ t \in Above[i]}
Idle     == [item |-> NoItem, at |-> "idle", name |-> 1]
Has(i, at) == hand.item = i /\ hand.at = at
Take(i, at, n) == hand' = [item |-> i, at |-> at, name |-> n]
Spend(c, max)  == used[c] < max /\ used' = [used EXCEPT ![c] = @ + 1]
Present(f, n)  == dst[f][n] # "none"
Depth(i)       == Cardinality(Above[i])

\* execute() throws, and the catch block of run() tells why.
Throw ==
    /\ hand'    = Idle
    /\ pc'      = "end"
    /\ outcome' = CASE abort = "none"     -> "FAILED"
                    [] abort = "user"     -> "CANCELLED"
                    [] abort = "shutdown" -> "RUNNING"
-----------------------------------------------------------------------------
(* The start of a run.                                                     *)

\* Mutation: an interrupted job is not picked up again.
LoadQueued ==
    /\ pc = "off" /\ job = "QUEUED"
    /\ job'  = "RUNNING"
    /\ plan' = {i \in Items : status[i] \notin Settled}
    /\ left' = plan'
    /\ pc'   = IF IsMove /\ SameHost THEN "mounts" ELSE "dirs"
    /\ outcome' = "DONE"
    /\ UNCHANGED <<rows, disks, hand, abort, past, used>>

\* A queued job is started, or a RUNNING row reclaimed by the next boot.
Load ==
    /\ pc = "off" /\ job \in {"QUEUED", "RUNNING"}
    /\ job'  = "RUNNING"
    /\ plan' = {i \in Items : status[i] \notin Settled}
    /\ left' = plan'
    /\ pc'   = IF IsMove /\ SameHost THEN "mounts" ELSE "dirs"
    /\ outcome' = "DONE"
    /\ UNCHANGED <<rows, disks, hand, abort, past, used>>

\* A host that cannot be reached or a root that no longer allows the path.
Refused ==
    /\ pc \in {"mounts", "dirs"} /\ left = plan /\ hand = Idle
    /\ Spend("faults", MaxFaults)
    /\ Throw
    /\ UNCHANGED <<job, rows, disks, plan, left, abort, past>>

\* The two conditions renameInPlace checks, and the mount table it reads.
Mounts ==
    /\ pc = "mounts" /\ hand = Idle
    /\ LET fast == plan # {} /\ (\A i \in plan : Decision[i] = "ASK") /\ SameFs
       IN  \/ pc' = (IF fast THEN "tops" ELSE "dirs") /\ UNCHANGED used
           \/ fast /\ pc' = "dirs" /\ Spend("faults", MaxFaults)
    /\ UNCHANGED <<job, rows, disks, plan, left, hand, outcome, abort, past>>
-----------------------------------------------------------------------------
(* renameInPlace.                                                          *)

\* One entry the operator selected moves with everything under it.  Onto a
\* file, rename replaces it or refuses; onto a directory, only an empty one.
RenameTop(t) ==
    /\ pc = "tops" /\ hand = Idle /\ t \in left \cap Tops \cap src
    /\ IF t \in Dirs
       THEN \A i \in Under(t) \ {t} : i \notin made /\ (i \in Files => ~Present(i, 1))
       ELSE Replaces \/ ~Present(t, 1)
    /\ src'  = src \ Under(t)
    /\ made' = made \cup (Under(t) \cap Dirs \cap src)
    /\ dst'  = [f \in Files |-> IF f \in Under(t) \cap src
                                THEN [dst[f] EXCEPT ![1] = "copy"] ELSE dst[f]]
    /\ Take(t, "moved", 1)
    /\ UNCHANGED <<job, rows, parts, pc, plan, left, outcome, abort, past, used>>

RefuseTop(t) ==
    /\ pc = "tops" /\ hand = Idle /\ t \in left \cap Tops
    /\ \/ t \notin src /\ UNCHANGED used
       \/ (t \in made \/ (t \in Files /\ Present(t, 1) /\ ~Replaces)) /\ UNCHANGED used
       \/ Spend("faults", MaxFaults)
    /\ Take(t, "refused", 1)
    /\ UNCHANGED <<job, rows, disks, pc, plan, left, outcome, abort, past>>

\* Mutation: the rows of an entry that could not be renamed are marked too.
MarkTopDone(i) ==
    /\ pc = "tops" /\ hand.item # NoItem /\ i \in left \cap Under(hand.item)
    /\ status' = [status EXCEPT ![i] = "DONE"]
    /\ left'   = left \ {i}
    /\ hand'   = IF left' \cap Under(hand.item) = {} THEN Idle ELSE hand
    /\ UNCHANGED <<job, final, disks, pc, plan, outcome, abort, past, used>>

\* The rows of what moved, or did not, one at a time.
MarkTop(i) ==
    /\ pc = "tops" /\ hand.item # NoItem /\ i \in left \cap Under(hand.item)
    /\ status' = [status EXCEPT ![i] = IF hand.at = "moved" THEN "DONE" ELSE "FAILED"]
    /\ left'   = left \ {i}
    /\ hand'   = IF left' \cap Under(hand.item) = {} THEN Idle ELSE hand
    /\ UNCHANGED <<job, final, disks, pc, plan, outcome, abort, past, used>>

TopsDone ==
    /\ pc = "tops" /\ hand = Idle /\ left \cap Tops = {}
    /\ pc' = "end"
    /\ UNCHANGED <<job, rows, disks, plan, left, hand, outcome, abort, past, used>>
-----------------------------------------------------------------------------
(* The general path: directories, then files, then directory stamps.       *)

\* mkdir recursive, shallowest first.
MakeDir(d) ==
    /\ pc = "dirs" /\ hand = Idle /\ abort = "none"
    /\ d \in left /\ \A e \in left \cap Dirs : Depth(d) <= Depth(e)
    /\ made' = made \cup {d} \cup Above[d]
    /\ Take(d, "landed", 1)
    /\ UNCHANGED <<job, rows, src, dst, parts, pc, plan, left, outcome, abort, past, used>>

MakeDirFails(d) ==
    /\ \/ /\ pc = "dirs" /\ hand = Idle /\ abort = "none"
          /\ d \in left /\ \A e \in left \cap Dirs : Depth(d) <= Depth(e)
       \/ Has(d, "landed")
    /\ Spend("faults", MaxFaults)
    /\ Take(d, "broken", 1)
    /\ UNCHANGED <<job, rows, disks, pc, plan, left, outcome, abort, past>>

DirsDone ==
    /\ pc = "dirs" /\ hand = Idle /\ left \cap Dirs = {}
    /\ pc' = "files"
    /\ UNCHANGED <<job, rows, disks, plan, left, hand, outcome, abort, past, used>>

\* The first name `keepBoth` finds free, if any is.
FirstFree(f) == {n \in Names : ~Present(f, n) /\ \A m \in 1 .. n - 1 : Present(f, m)}

\* Mutation: an entry to be skipped is written over what is there.
SettleNameOver(f) ==
    /\ pc = "files" /\ hand = Idle /\ abort = "none" /\ f \in left
    /\ \/ ~Present(f, 1) /\ Take(f, "settled", 1)
       \/ Decision[f] \in {"OVERWRITE", "SKIP"} /\ Take(f, "settled", 1)
       \/ Present(f, 1) /\ Decision[f] = "ASK" /\ Take(f, "nothing", 1)
       \/ Decision[f] = "RENAME" /\ \E n \in FirstFree(f) : Take(f, "settled", n)
       \/ Decision[f] = "RENAME" /\ FirstFree(f) = {} /\ Take(f, "nothing", 1)
    /\ UNCHANGED <<job, rows, disks, pc, plan, left, outcome, abort, past, used>>

\* Mutation: the search for a free name goes one past its limit.
SettleNamePast(f) ==
    /\ pc = "files" /\ hand = Idle /\ abort = "none" /\ f \in left
    /\ \/ ~Present(f, 1) /\ Take(f, "settled", 1)
       \/ Decision[f] = "OVERWRITE" /\ Take(f, "settled", 1)
       \/ Present(f, 1) /\ Decision[f] \in {"SKIP", "ASK"} /\ Take(f, "nothing", 1)
       \/ Decision[f] = "RENAME" /\ \E n \in FirstFree(f) : Take(f, "settled", n)
       \/ Decision[f] = "RENAME" /\ FirstFree(f) = {} /\ Take(f, "settled", MaxNames + 1)
    /\ UNCHANGED <<job, rows, disks, pc, plan, left, outcome, abort, past, used>>

\* settleName: a name, or nothing to write.
SettleName(f) ==
    /\ pc = "files" /\ hand = Idle /\ abort = "none" /\ f \in left
    /\ \/ ~Present(f, 1) /\ Take(f, "settled", 1)
       \/ Decision[f] = "OVERWRITE" /\ Take(f, "settled", 1)
       \/ Present(f, 1) /\ Decision[f] \in {"SKIP", "ASK"} /\ Take(f, "nothing", 1)
       \/ Decision[f] = "RENAME" /\ \E n \in FirstFree(f) : Take(f, "settled", n)
       \/ Decision[f] = "RENAME" /\ FirstFree(f) = {} /\ Take(f, "nothing", 1)
    /\ UNCHANGED <<job, rows, disks, pc, plan, left, outcome, abort, past, used>>

\* exists() takes every error of stat for absence: the name it asked about last
\* is taken, whatever is there.
SettleBlind(f) ==
    /\ pc = "files" /\ hand = Idle /\ abort = "none" /\ f \in left
    /\ Spend("blind", MaxBlind)
    /\ \E n \in Names :
        /\ n = 1 \/ Decision[f] = "RENAME"
        /\ \A m \in 1 .. n - 1 : Present(f, m)
        /\ Take(f, "settled", n)
    /\ UNCHANGED <<job, rows, disks, pc, plan, left, outcome, abort, past>>

MarkSkipped(f) ==
    /\ Has(f, "nothing")
    /\ status' = [status EXCEPT ![f] = "SKIPPED"]
    /\ left'   = left \ {f}
    /\ hand'   = Idle
    /\ UNCHANGED <<job, final, disks, pc, plan, outcome, abort, past, used>>

\* Both streams are open and bytes go to the `.part`.
Open(f) ==
    /\ Has(f, "settled") /\ f \in src /\ Above[f] \subseteq made
    /\ parts' = [parts EXCEPT ![f] = @ + 1]
    /\ Take(f, "bytes", hand.name)
    /\ UNCHANGED <<job, rows, src, made, dst, pc, plan, left, outcome, abort, past, used>>

\* Mutation: renamed to the entry's own name, not to the one that was settled.
LandOwnName(f) ==
    /\ Has(f, "bytes") /\ (Replaces \/ ~Present(f, hand.name))
    /\ dst'   = [dst EXCEPT ![f][1] = "copy"]
    /\ parts' = [parts EXCEPT ![f] = @ - 1]
    /\ Take(f, "landed", hand.name)
    /\ UNCHANGED <<job, rows, src, made, pc, plan, left, outcome, abort, past, used>>

\* The stream has ended cleanly: the `.part` is renamed into place.
Land(f) ==
    /\ Has(f, "bytes") /\ (Replaces \/ ~Present(f, hand.name))
    /\ dst'   = [dst EXCEPT ![f][hand.name] = "copy"]
    /\ parts' = [parts EXCEPT ![f] = @ - 1]
    /\ Take(f, "landed", hand.name)
    /\ UNCHANGED <<job, rows, src, made, pc, plan, left, outcome, abort, past, used>>

MarkDone(i) ==
    /\ Has(i, "landed")
    /\ status' = [status EXCEPT ![i] = "DONE"]
    /\ final'  = IF i \in Files THEN [final EXCEPT ![i] = hand.name] ELSE final
    /\ left'   = left \ {i}
    /\ hand'   = Idle
    /\ UNCHANGED <<job, disks, pc, plan, outcome, abort, past, used>>

\* Something in copyOne throws: what it reads or writes is gone or refused, a
\* row cannot be written, or the signal was aborted while bytes moved.
Fails(f) ==
    /\ hand.item = f
    /\ \/ hand.at = "settled" /\ (f \notin src \/ ~(Above[f] \subseteq made)) /\ UNCHANGED used
       \/ hand.at = "bytes" /\ Present(f, hand.name) /\ ~Replaces /\ UNCHANGED used
       \/ hand.at = "bytes" /\ abort # "none" /\ UNCHANGED used
       \/ hand.at \in {"nothing", "settled", "bytes", "landed"} /\ Spend("faults", MaxFaults)

\* Mutation: the `.part` of an aborted file is left for later.
CopyThrowsLitter(f) ==
    /\ Fails(f)
    /\ abort # "none" \/ (hand.at = "bytes" /\ used' # used)
    /\ Throw
    /\ UNCHANGED <<job, rows, disks, plan, left, abort, past>>

\* discard(): the `.part` is unlinked.  A connection that dropped, or a host that
\* refuses, leaves it there, and nobody is told.
Discard(f) ==
    IF hand.at = "bytes"
    THEN \/ parts'  = [parts EXCEPT ![f] = @ - 1]  /\ UNCHANGED strays
         \/ strays' = [strays EXCEPT ![f] = @ + 1] /\ UNCHANGED parts
    ELSE UNCHANGED <<parts, strays>>

\* The catch block of copyOne: the `.part` is discarded, and an abort or a full
\* destination ends the run, ...
CopyThrows(f) ==
    /\ Fails(f)
    /\ abort # "none" \/ (hand.at = "bytes" /\ used' # used)
    /\ Discard(f)
    /\ Throw
    /\ UNCHANGED <<job, rows, src, made, dst, plan, left, abort, late, lost>>

\* ... while anything else is this item's own failure.
CopyFails(f) ==
    /\ Fails(f) /\ abort = "none"
    /\ Discard(f)
    /\ Take(f, "broken", 1)
    /\ UNCHANGED <<job, rows, src, made, dst, pc, plan, left, outcome, abort, late, lost>>

MarkFailed(i) ==
    /\ Has(i, "broken")
    /\ status' = [status EXCEPT ![i] = "FAILED"]
    /\ left'   = left \ {i}
    /\ hand'   = Idle
    /\ UNCHANGED <<job, final, disks, pc, plan, outcome, abort, past, used>>

\* A row nothing catches the failure of: the run ends there.
RowFails ==
    /\ hand.at \in {"broken", "moved", "refused"}
    /\ Spend("faults", MaxFaults)
    /\ Throw
    /\ UNCHANGED <<job, rows, disks, plan, left, abort, past>>

FilesDone ==
    /\ pc = "files" /\ hand = Idle /\ left = {}
    /\ pc' = "stamps"
    /\ UNCHANGED <<job, rows, disks, plan, left, hand, outcome, abort, past, used>>

\* Modes and times are never fatal.  A move goes on to what its rows call DONE.
Stamped ==
    /\ pc = "stamps" /\ hand = Idle /\ (abort = "none" \/ plan \cap Dirs = {})
    /\ pc'   = IF IsMove THEN "sources" ELSE "end"
    /\ left' = IF IsMove THEN {i \in Items : status[i] = "DONE"} ELSE {}
    /\ UNCHANGED <<job, rows, disks, plan, hand, outcome, abort, past, used>>

\* checkCancelled, before each item of each phase.
Cancelled ==
    /\ hand = Idle /\ abort # "none"
    /\ \/ pc = "dirs" /\ left \cap Dirs # {}
       \/ pc = "stamps" /\ plan \cap Dirs # {}
       \/ pc \in {"files", "sources"} /\ left # {}
    /\ Throw
    /\ UNCHANGED <<job, rows, disks, plan, left, abort, past, used>>
-----------------------------------------------------------------------------
(* removeSources, deepest first.                                           *)

NextUp(i) == /\ pc = "sources" /\ hand = Idle /\ abort = "none"
             /\ i \in left /\ \A e \in left : Depth(e) <= Depth(i)

\* Mutation: a copy that returned without throwing is taken at its word.
VerifyNot(f) ==
    /\ NextUp(f)
    /\ Take(f, "verified", 1)
    /\ UNCHANGED <<job, rows, disks, pc, plan, left, outcome, abort, past, used>>

\* The copy is statted and its size compared.
Verify(f) ==
    /\ NextUp(f)
    /\ Take(f, IF dst[f][final[f]] = "copy" THEN "verified" ELSE "broken", 1)
    /\ UNCHANGED <<job, rows, disks, pc, plan, left, outcome, abort, past, used>>

Unlink(f) ==
    /\ Has(f, "verified") /\ f \in src
    /\ src'  = src \ {f}
    /\ left' = left \ {f}
    /\ hand' = Idle
    /\ UNCHANGED <<job, rows, made, dst, parts, pc, plan, outcome, abort, past, used>>

RemoveDir(d) ==
    /\ NextUp(d) /\ Under(d) \cap src = {d}
    /\ src'  = src \ {d}
    /\ left' = left \ {d}
    /\ UNCHANGED <<job, rows, made, dst, parts, pc, plan, hand, outcome, abort, past, used>>

\* Mutation: what is not there any more counts as removed.
RemoveFailsQuiet(i) ==
    /\ (i \in Dirs /\ NextUp(i)) \/ Has(i, "verified")
    /\ left' = left \ {i}
    /\ hand' = Idle
    /\ UNCHANGED <<job, rows, disks, pc, plan, outcome, abort, past, used>>

\* The source is gone already, a directory is not empty, or a call fails.
RemoveFails(i) ==
    /\ NextUp(i) \/ Has(i, "verified")
    /\ \/ (i \in Dirs \/ hand # Idle) /\ Under(i) \cap src # {i} /\ UNCHANGED used
       \/ Spend("faults", MaxFaults)
    /\ Take(i, "broken", 1)
    /\ UNCHANGED <<job, rows, disks, pc, plan, left, outcome, abort, past>>

SourcesDone ==
    /\ pc = "sources" /\ hand = Idle /\ left = {}
    /\ pc' = "end"
    /\ UNCHANGED <<job, rows, disks, plan, left, hand, outcome, abort, past, used>>
-----------------------------------------------------------------------------
(* The end of a run, and what happens around it.                           *)

\* Mutation: items that failed do not fail the job.
EndDone ==
    /\ pc = "end"
    /\ job' = outcome
    /\ pc' = "off" /\ plan' = {} /\ left' = {} /\ abort' = "none" /\ outcome' = "RUNNING"
    /\ UNCHANGED <<rows, disks, hand, past, used>>

\* The failed items are counted and the row written.
End ==
    /\ pc = "end"
    /\ job' = IF outcome = "DONE" /\ \E i \in Items : status[i] = "FAILED"
              THEN "FAILED" ELSE outcome
    /\ pc' = "off" /\ plan' = {} /\ left' = {} /\ abort' = "none" /\ outcome' = "RUNNING"
    /\ UNCHANGED <<rows, disks, hand, past, used>>

\* A cancel, or a process that is asked to stop.
Abort ==
    /\ pc # "off" /\ abort = "none" /\ Spend("aborts", MaxAborts)
    /\ abort' \in {"user", "shutdown"}
    /\ UNCHANGED <<job, rows, disks, task, past>>

\* The process dies: the row is still RUNNING, and a `.part` stays.
Crash ==
    /\ pc # "off" /\ Spend("crashes", MaxCrashes)
    /\ pc' = "off" /\ plan' = {} /\ left' = {} /\ hand' = Idle
    /\ abort' = "none" /\ outcome' = "RUNNING"
    /\ strays' = [f \in Files |-> IF Has(f, "bytes") THEN strays[f] + 1 ELSE strays[f]]
    /\ UNCHANGED <<job, rows, disks, late, lost>>

\* Mutation: a retry runs the whole job again.
RetryAll ==
    /\ pc = "off" /\ job \in Terminal /\ \E i \in Items : status[i] = "FAILED"
    /\ Spend("retries", MaxRetries)
    /\ job'    = "QUEUED"
    /\ status' = [i \in Items |-> "PENDING"]
    /\ UNCHANGED <<final, disks, task, abort, past>>

Retry ==
    /\ pc = "off" /\ job \in Terminal /\ \E i \in Items : status[i] = "FAILED"
    /\ Spend("retries", MaxRetries)
    /\ job'    = "QUEUED"
    /\ status' = [i \in Items |-> IF status[i] = "FAILED" THEN "PENDING" ELSE status[i]]
    /\ UNCHANGED <<final, disks, task, abort, past>>

\* Somebody else writes a file at the destination.
Meddle(f, n) ==
    /\ Above[f] \subseteq made /\ dst[f][n] # "other" /\ Spend("meddles", MaxMeddles)
    /\ dst'  = [dst EXCEPT ![f][n] = "other"]
    /\ late' = IF hand.item = f /\ hand.at \in {"settled", "bytes"} /\ hand.name = n
               THEN late \cup {f} ELSE late
    /\ lost' = IF /\ dst[f][n] = "copy" /\ \A m \in Names \ {n} : dst[f][m] # "copy"
                  /\ f \notin src \/ Has(f, "verified")
               THEN lost \cup {f} ELSE lost
    /\ UNCHANGED <<job, rows, src, made, parts, task, abort, strays>>

\* Somebody else removes a file from the source.
Vanish(f) ==
    /\ f \in src /\ Spend("meddles", MaxMeddles)
    /\ src'  = src \ {f}
    /\ lost' = IF \A n \in Names : dst[f][n] # "copy" THEN lost \cup {f} ELSE lost
    /\ UNCHANGED <<job, rows, made, dst, parts, task, abort, late, strays>>
-----------------------------------------------------------------------------
\* The plan: what has an answer is in conflict, and so is somebody's file.
Init ==
    /\ job    = "QUEUED"
    /\ status = [i \in Items |-> "PENDING"]
    /\ final  = [f \in Files |-> 1]
    /\ src    = Items
    /\ made \in {M \in SUBSET Dirs : /\ \A d \in M : Above[d] \subseteq M
                                     /\ \A f \in Files : Decision[f] # "ASK" => Above[f] \subseteq M}
    /\ dst    = [f \in Files |-> [n \in Names |->
                    IF n = 1 /\ Decision[f] # "ASK" THEN "other" ELSE "none"]]
    /\ parts  = [f \in Files |-> 0]
    /\ pc = "off" /\ plan = {} /\ left = {} /\ hand = Idle
    /\ abort = "none" /\ outcome = "RUNNING"
    /\ late = {} /\ lost = {} /\ strays = [f \in Files |-> 0]
    /\ used = [faults |-> 0, blind |-> 0, crashes |-> 0, aborts |-> 0, retries |-> 0, meddles |-> 0]

Rename(i) == RenameTop(i) \/ RefuseTop(i) \/ MarkTop(i)
Folder(d) == MakeDir(d) \/ MakeDirFails(d) \/ RemoveDir(d)
File(f)   == \/ SettleName(f) \/ SettleBlind(f) \/ MarkSkipped(f) \/ Open(f) \/ Land(f)
             \/ CopyThrows(f) \/ CopyFails(f) \/ Verify(f) \/ Unlink(f)
Mark(i)   == MarkDone(i) \/ MarkFailed(i) \/ RemoveFails(i)
Phase     == \/ Load \/ Refused \/ Mounts \/ TopsDone \/ DirsDone \/ FilesDone \/ Stamped
             \/ SourcesDone \/ RowFails \/ Cancelled \/ End
Run       == \/ Phase
             \/ \E i \in Items : Rename(i) \/ Mark(i)
             \/ \E d \in Dirs : Folder(d)
             \/ \E f \in Files : File(f)
World     == \/ Abort \/ Crash \/ Retry
             \/ \E f \in Files : Vanish(f) \/ \E n \in Names : Meddle(f, n)

Next == Run \/ World
Spec == Init /\ [][Next]_vars

\* A run advances, and a boot reclaims: driver calls answer or time out.
FairSpec == Spec /\ WF_vars(Run)
-----------------------------------------------------------------------------
(* Properties.                                                             *)

Counters == {"faults", "blind", "crashes", "aborts", "retries", "meddles"}
Places   == {"idle", "moved", "refused", "nothing", "settled", "bytes", "landed", "broken",
             "verified"}

\* Every variable keeps its type, and nothing is in hand between runs.
TypeOK ==
    /\ job     \in {"QUEUED", "RUNNING"} \cup Terminal
    /\ status  \in [Items -> {"PENDING", "FAILED"} \cup Settled]
    /\ final   \in [Files -> Names]
    /\ src     \subseteq Items
    /\ made    \subseteq Dirs
    /\ dst     \in [Files -> [Names -> {"none", "copy", "other"}]]
    /\ parts   \in [Files -> Nat] /\ strays \in [Files -> Nat]
    /\ pc      \in {"off", "mounts", "tops", "dirs", "files", "stamps", "sources", "end"}
    /\ plan    \subseteq Items /\ left \subseteq Items
    /\ hand    \in [item : Items \cup {NoItem}, at : Places, name : Names]
    /\ abort   \in {"none", "user", "shutdown"}
    /\ outcome \in {"RUNNING"} \cup Terminal
    /\ late    \subseteq Files /\ lost \subseteq Files
    /\ used    \in [Counters -> Nat]
    /\ (hand.item = NoItem \/ pc \in {"off", "end"}) => hand = Idle

\* "A move never deletes before the destination is verified": a file is at the
\* source or at the destination, through crashes, retries and failures, unless
\* somebody else destroyed its last copy.
NothingLost ==
    \A f \in Files : f \in src \/ f \in lost \/ \E n \in Names : dst[f][n] = "copy"

\* What was at the destination stays unless the answer was to overwrite it, it
\* appeared under a name the run had already settled, a stat that failed was
\* taken for its absence, or it has the name of a selected file that moves by a
\* rename that replaces: the rename path trusts the conflicts of the plan.
\* What is in a selected directory is kept there, too.
OthersKept ==
    [][\A f \in Files, n \in Names : dst[f][n] = "other" /\ dst'[f][n] # "other" =>
            \/ Decision[f] = "OVERWRITE" \/ f \in late \/ used.blind > 0
            \/ pc = "tops" /\ Replaces /\ Above[f] = {} /\ n = 1]_dst

\* An entry whose row is DONE is at the destination, under the name its row
\* gives it, as long as nobody else touches it.
DoneArrived ==
    used.meddles = 0 => \A i \in Items : status[i] = "DONE" =>
        IF i \in Dirs THEN i \in made ELSE dst[i][final[i]] = "copy"

\* "Saying DONE over nine hundred moved files and one that did not": a DONE job
\* has settled all of its items.
DoneCoversItems ==
    job = "DONE" => \A i \in Items : status[i] \in Settled

\* A DONE move has removed the source of every item it calls DONE.
SourcesGone ==
    job = "DONE" /\ IsMove => \A i \in Items : status[i] = "DONE" => i \notin src

\* "A failed item gives its bytes back ... the `.part` they were in is already
\* gone": a run leaves no `.part` of a file that landed, failed or was aborted,
\* but for the one it wrote when its process died and those whose discard failed.
PartsDiscarded ==
    pc = "off" => parts = strays

\* The item is the unit of failure: a retry or a reclaim never runs an item
\* again that is DONE and not a source still to be removed.
DoneStays ==
    [][\A i \in Items : status[i] \in Settled /\ status'[i] # status[i] => pc = "sources"]_status

\* A job that was queued or interrupted is settled in the end.
JobSettles == job \in {"QUEUED", "RUNNING"} ~> job \in Terminal
=============================================================================
