--------------------------- MODULE TransferQueue ---------------------------
(***************************************************************************)
(* The life of a transfer job: the rows in MySQL, the in-memory line and   *)
(* the running set of TransferQueueService, the create, cancel and retry   *)
(* requests of TransferService, the job-level half of TransferRunner, and  *)
(* the restarts in between.  Every `await` of the code ends an action, so  *)
(* two handlers interleave exactly where the event loop lets them.         *)
(*                                                                         *)
(* What happens to the files of one job is TransferRun's subject; here an  *)
(* item is only a row whose status the runner settles.                     *)
(***************************************************************************)
EXTENDS Naturals, FiniteSets

CONSTANTS
    Jobs,         \* transfer ids
    Hosts,        \* host ids
    Items,        \* the planned entries, the same set for every job
    HostsOf,      \* HostsOf[j]: the source and destination host of job j
    Moves,        \* the jobs whose operation is MOVE
    Deletable,    \* the hosts somebody may delete
    MaxInFlight,  \* maxInFlight()
    MaxPerHost,   \* maxPerHost()
    MaxCancels,   \* bounds on what the environment does, each named for what
    MaxRetries,   \* it counts: cancel requests, retry requests, process ends,
    MaxCrashes,   \* database calls that fail outside the runner's own `try`
    MaxFaults

ASSUME QueueAssumption ==
    /\ IsFiniteSet(Jobs)
    /\ HostsOf \in [Jobs -> SUBSET Hosts]
    /\ Moves \subseteq Jobs
    /\ Deletable \subseteq Hosts
    /\ MaxInFlight \in Nat \ {0}
    /\ MaxPerHost \in Nat \ {0}
    /\ {MaxCancels, MaxRetries, MaxCrashes, MaxFaults} \subseteq Nat

VARIABLES
    row,      \* TransferJobs.status, "absent" before the row is created
    item,     \* TransferItems.status
    born,     \* the order of TransferJobs.createdAt, 0 before the row exists
    gone,     \* the hosts that were deleted
    line,     \* `waiting`: the 1-based index of a job, 0 when it is not in line
    running,  \* the keys of `running`
    held,     \* the hosts recorded with an entry of `waiting` or `running`
    abort,    \* the reason its AbortController was aborted with
    run,      \* where TransferRunner.run stands
    todo,     \* the items that run loaded and has not settled
    outcome,  \* its local `outcome`
    create,   \* where the create request of a job stands
    cancel,   \* where a cancel request stands
    retry,    \* where a retry request stands
    asked,    \* the hosts a retry request read with the row
    up,       \* the process is running
    stopping, \* onModuleDestroy has run
    used      \* how much of each environment bound is spent

db   == <<row, item, born, gone>>
pool == <<line, running, held, abort, run>>
work == <<todo, outcome>>
http == <<create, cancel, retry, asked>>
proc == <<up, stopping>>
vars == <<db, pool, work, http, proc, used>>

Terminal == {"DONE", "FAILED", "CANCELLED"}
Settled  == {"DONE", "SKIPPED"}
-----------------------------------------------------------------------------
(* The line.                                                               *)

Waiting == {j \in Jobs : line[j] > 0}

\* The line with some jobs taken out of it, the others keeping their order.
Without(ln, out) ==
    [j \in Jobs |->
        IF ln[j] = 0 \/ j \in out THEN 0
        ELSE Cardinality({k \in Jobs \ out : ln[k] > 0 /\ ln[k] <= ln[j]})]

\* A job fits beside the busy ones.
Fits(j, busy, hs) ==
    /\ Cardinality(busy) < MaxInFlight
    /\ \A h \in hs[j] : Cardinality({k \in busy : h \in hs[k]}) < MaxPerHost

\* What one scan of the whole line starts: each waiting job is started iff it
\* fits beside the busy ones and those the scan started before reaching it.
Scans(ln, busy, hs) ==
    {S \in SUBSET {j \in Jobs : ln[j] > 0} :
        \A j \in Jobs : ln[j] > 0 =>
            (j \in S <=> Fits(j, busy \cup {k \in S : ln[k] < ln[j]}, hs))}

\* Mutation: a job that starts is not spliced out of the line.
PumpUnspliced(ln, busy, hs) ==
    \E S \in IF stopping THEN {{}} ELSE Scans(ln, busy, hs) :
        /\ line'    = ln
        /\ running' = busy \cup S
        /\ held'    = [j \in Jobs |-> IF j \in busy \/ ln[j] > 0 THEN hs[j] ELSE {}]
        /\ abort'   = [j \in Jobs |-> IF j \in busy THEN abort[j] ELSE "none"]
        /\ run'     = [j \in Jobs |-> IF j \in S THEN "load"
                                      ELSE IF j \in busy THEN run[j] ELSE "off"]

\* pump() over a line and a running set, and start() for what it starts.
Pump(ln, busy, hs) ==
    \E S \in IF stopping THEN {{}} ELSE Scans(ln, busy, hs) :
        /\ line'    = Without(ln, S)
        /\ running' = busy \cup S
        /\ held'    = [j \in Jobs |-> IF j \in busy \/ ln[j] > 0 THEN hs[j] ELSE {}]
        /\ abort'   = [j \in Jobs |-> IF j \in busy THEN abort[j] ELSE "none"]
        /\ run'     = [j \in Jobs |-> IF j \in S THEN "load"
                                      ELSE IF j \in busy THEN run[j] ELSE "off"]

Enqueue(j, hs) ==
    IF stopping \/ j \in running \/ j \in Waiting
    THEN UNCHANGED pool
    ELSE Pump([line EXCEPT ![j] = Cardinality(Waiting) + 1], running, [held EXCEPT ![j] = hs])
-----------------------------------------------------------------------------
(* Requests.  Each waits for the database between its steps.               *)

\* The job row is committed first, alone.
CreateRow(j) ==
    /\ up /\ create[j] = "new"
    /\ HostsOf[j] \cap gone = {}
    /\ row'    = [row EXCEPT ![j] = "QUEUED"]
    /\ born'   = [born EXCEPT ![j] = Cardinality({k \in Jobs : row[k] # "absent"}) + 1]
    /\ create' = [create EXCEPT ![j] = "items"]
    /\ UNCHANGED <<item, gone, pool, work, cancel, retry, asked, proc, used>>

\* Then its items, one createMany per batch; a batch is one item here.
CreateItems(j) ==
    /\ up /\ create[j] = "items"
    /\ \E i \in Items :
        /\ item[j][i] = "absent"
        /\ item'   = [item EXCEPT ![j][i] = "PENDING"]
        /\ create' = [create EXCEPT ![j] =
                        IF \A k \in Items \ {i} : item[j][k] # "absent" THEN "enqueue" ELSE @]
    /\ UNCHANGED <<row, born, gone, pool, work, cancel, retry, asked, proc, used>>

CreateEnqueue(j) ==
    /\ up /\ create[j] = "enqueue"
    /\ create' = [create EXCEPT ![j] = "done"]
    /\ Enqueue(j, HostsOf[j])
    /\ UNCHANGED <<db, work, cancel, retry, asked, proc, used>>

\* A finished row refuses the request here, which changes nothing.
CancelRead(j) ==
    /\ up /\ cancel[j] = "idle" /\ used.cancels < MaxCancels
    /\ row[j] \in {"QUEUED", "RUNNING"}
    /\ cancel' = [cancel EXCEPT ![j] = "read"]
    /\ used'   = [used EXCEPT !.cancels = @ + 1]
    /\ UNCHANGED <<db, pool, work, create, retry, asked, proc>>

\* queue.cancel(): abort a running job and answer, or drop a waiting one (or
\* none) and go on to write the row.  A second abort() keeps the first reason.
CancelAct(j) ==
    /\ up /\ cancel[j] = "read"
    /\ IF j \in running
       THEN /\ abort'  = [abort EXCEPT ![j] = IF @ = "none" THEN "user" ELSE @]
            /\ cancel' = [cancel EXCEPT ![j] = "idle"]
            /\ UNCHANGED <<line, held>>
       ELSE /\ line'   = Without(line, {j})
            /\ held'   = [held EXCEPT ![j] = {}]
            /\ cancel' = [cancel EXCEPT ![j] = "write"]
            /\ UNCHANGED abort
    /\ UNCHANGED <<db, running, run, work, create, retry, asked, proc, used>>

CancelWrite(j) ==
    /\ up /\ cancel[j] = "write"
    /\ row'    = [row EXCEPT ![j] = "CANCELLED"]
    /\ cancel' = [cancel EXCEPT ![j] = "idle"]
    /\ UNCHANGED <<item, born, gone, pool, work, create, retry, asked, proc, used>>

\* A job still going refuses the request here, which changes nothing.
RetryRead(j) ==
    /\ up /\ retry[j] = "idle" /\ used.retries < MaxRetries
    /\ row[j] \in Terminal
    /\ retry' = [retry EXCEPT ![j] = "items"]
    /\ asked' = [asked EXCEPT ![j] = HostsOf[j] \ gone]
    /\ used'  = [used EXCEPT !.retries = @ + 1]
    /\ UNCHANGED <<db, pool, work, create, cancel, proc>>

\* FAILED items go back to PENDING; with none the request is refused.
RetryItems(j) ==
    /\ up /\ retry[j] = "items"
    /\ item'  = [item EXCEPT ![j] =
                    [i \in Items |-> IF @[i] = "FAILED" THEN "PENDING" ELSE @[i]]]
    /\ retry' = [retry EXCEPT ![j] =
                    IF \E i \in Items : item[j][i] = "FAILED" THEN "row" ELSE "idle"]
    /\ UNCHANGED <<row, born, gone, pool, work, create, cancel, asked, proc, used>>

RetryRow(j) ==
    /\ up /\ retry[j] = "row"
    /\ row'   = [row EXCEPT ![j] = "QUEUED"]
    /\ retry' = [retry EXCEPT ![j] = "enqueue"]
    /\ UNCHANGED <<item, born, gone, pool, work, create, cancel, asked, proc, used>>

RetryEnqueue(j) ==
    /\ up /\ retry[j] = "enqueue"
    /\ retry' = [retry EXCEPT ![j] = "idle"]
    /\ Enqueue(j, asked[j])
    /\ UNCHANGED <<db, work, create, cancel, asked, proc, used>>

\* hosts.remove(): onDelete SetNull clears the job rows' host columns.
DeleteHost(h) ==
    /\ up /\ h \in Deletable \ gone
    /\ gone' = gone \cup {h}
    /\ UNCHANGED <<row, item, born, pool, work, http, proc, used>>
-----------------------------------------------------------------------------
(* The runner, job level.                                                  *)

\* run[j] moves on; the line and the other runs are left alone.
Step(j, to) ==
    /\ run' = [run EXCEPT ![j] = to]
    /\ UNCHANGED <<line, running, held, abort>>

\* Mutation: the run starts over with every item, settled or not.
RunLoadAll(j) ==
    /\ run[j] = "load"
    /\ IF HostsOf[j] \cap gone # {}
       THEN Step(j, "fail") /\ UNCHANGED todo
       ELSE /\ Step(j, "mark")
            /\ todo' = [todo EXCEPT ![j] = {i \in Items : item[j][i] # "absent"}]
    /\ UNCHANGED <<db, outcome, http, proc, used>>

\* findUnique: the job, its hosts and its items as they are now.
RunLoad(j) ==
    /\ run[j] = "load"
    /\ IF HostsOf[j] \cap gone # {}
       THEN Step(j, "fail") /\ UNCHANGED todo
       ELSE /\ Step(j, "mark")
            /\ todo' = [todo EXCEPT ![j] = {i \in Items : item[j][i] \notin Settled \cup {"absent"}}]
    /\ UNCHANGED <<db, outcome, http, proc, used>>

\* fail(): a host was deleted.
RunFail(j) ==
    /\ run[j] = "fail"
    /\ row' = [row EXCEPT ![j] = "FAILED"]
    /\ Step(j, "leave")
    /\ UNCHANGED <<item, born, gone, work, http, proc, used>>

\* After audit.open: the row is RUNNING and execution begins.
RunMark(j) ==
    /\ run[j] = "mark"
    /\ row' = [row EXCEPT ![j] = "RUNNING"]
    /\ Step(j, "exec")
    /\ UNCHANGED <<item, born, gone, work, http, proc, used>>

\* checkCancelled before an item.  The rename of a same-filesystem move has no
\* such check.
RunNext(j) ==
    /\ run[j] = "exec" /\ todo[j] # {}
    /\ abort[j] = "none" \/ j \in Moves
    /\ Step(j, "item")
    /\ UNCHANGED <<db, work, http, proc, used>>

\* One item settled, well or badly, and its row written.
RunSettle(j) ==
    /\ run[j] = "item"
    /\ \E i \in todo[j], s \in {"DONE", "SKIPPED", "FAILED"} :
        /\ item' = [item EXCEPT ![j][i] = s]
        /\ todo' = [todo EXCEPT ![j] = @ \ {i}]
    /\ Step(j, "exec")
    /\ UNCHANGED <<row, born, gone, outcome, http, proc, used>>

\* removeSources of a move: a copy that cannot be verified, or a source that
\* cannot be removed, fails an item that was DONE.
RunUnverified(j) ==
    /\ run[j] = "exec" /\ todo[j] = {} /\ j \in Moves /\ abort[j] = "none"
    /\ \E i \in Items :
        /\ item[j][i] = "DONE"
        /\ item' = [item EXCEPT ![j][i] = "FAILED"]
    /\ UNCHANGED <<row, born, gone, pool, work, http, proc, used>>

\* execute() returns.  The rename of a move with entries already DONE may leave
\* some of what it loaded untouched (TransferRun has the detail).
RunReturn(j) ==
    /\ run[j] = "exec"
    /\ todo[j] = {} \/ (j \in Moves /\ \E i \in Items : item[j][i] = "DONE")
    /\ outcome' = [outcome EXCEPT ![j] = "DONE"]
    /\ Step(j, "count")
    /\ UNCHANGED <<db, todo, http, proc, used>>

\* Mutation: every abort is taken for a shutdown.
RunThrowLeaves(j) ==
    /\ run[j] \in {"exec", "item"}
    /\ IF abort[j] # "none"
       THEN Step(j, "leave") /\ UNCHANGED outcome
       ELSE Step(j, "count") /\ outcome' = [outcome EXCEPT ![j] = "FAILED"]
    /\ UNCHANGED <<db, todo, http, proc, used>>

\* execute() throws: refused by a host, out of space, or aborted; and the
\* catch block that tells a shutdown from a cancellation from a failure.
RunThrow(j) ==
    /\ run[j] \in {"exec", "item"}
    /\ IF abort[j] = "shutdown"
       THEN Step(j, "leave") /\ UNCHANGED outcome
       ELSE /\ Step(j, "count")
            /\ outcome' = [outcome EXCEPT ![j] =
                                IF abort[j] = "user" THEN "CANCELLED" ELSE "FAILED"]
    /\ UNCHANGED <<db, todo, http, proc, used>>

\* Mutation: failed items are not counted.
RunCountNone(j) ==
    /\ run[j] = "count"
    /\ Step(j, "write")
    /\ UNCHANGED <<db, work, http, proc, used>>

\* A job whose items all ran but some of which failed is FAILED.
RunCount(j) ==
    /\ run[j] = "count"
    /\ outcome' = [outcome EXCEPT ![j] =
                      IF @ = "DONE" /\ \E i \in Items : item[j][i] = "FAILED"
                      THEN "FAILED" ELSE @]
    /\ Step(j, "write")
    /\ UNCHANGED <<db, todo, http, proc, used>>

\* The terminal status is written; audit.settle() is still to be awaited.
RunWrite(j) ==
    /\ run[j] = "write"
    /\ row' = [row EXCEPT ![j] = outcome[j]]
    /\ Step(j, "leave")
    /\ UNCHANGED <<item, born, gone, work, http, proc, used>>

\* Mutation: the queue forgets to pump when a run ends.
RunLeaveUnpumped(j) ==
    /\ run[j] = "leave"
    /\ running' = running \ {j}
    /\ held'    = [held EXCEPT ![j] = {}]
    /\ abort'   = [abort EXCEPT ![j] = "none"]
    /\ run'     = [run EXCEPT ![j] = "off"]
    /\ todo'    = [todo EXCEPT ![j] = {}]
    /\ outcome' = [outcome EXCEPT ![j] = "none"]
    /\ UNCHANGED <<db, line, http, proc, used>>

\* Mutation: the entry stays in the running map after its run ended.
RunLeaveKept(j) ==
    /\ run[j] = "leave"
    /\ run'     = [run EXCEPT ![j] = "off"]
    /\ todo'    = [todo EXCEPT ![j] = {}]
    /\ outcome' = [outcome EXCEPT ![j] = "none"]
    /\ UNCHANGED <<db, line, running, held, abort, http, proc, used>>

\* run() has settled: the queue's finally.
RunLeave(j) ==
    /\ run[j] = "leave"
    /\ Pump(line, running \ {j}, held)
    /\ todo'    = [todo EXCEPT ![j] = {}]
    /\ outcome' = [outcome EXCEPT ![j] = "none"]
    /\ UNCHANGED <<db, http, proc, used>>

\* A database call outside the runner's `try` fails and run() rejects.
RunEscape(j) ==
    /\ run[j] \in {"load", "fail", "mark", "count", "write"}
    /\ used.faults < MaxFaults
    /\ used' = [used EXCEPT !.faults = @ + 1]
    /\ Step(j, "leave")
    /\ UNCHANGED <<db, work, http, proc>>
-----------------------------------------------------------------------------
(* The process.                                                            *)

\* onModuleDestroy.
Shutdown ==
    /\ up /\ ~stopping /\ used.crashes < MaxCrashes
    /\ stopping' = TRUE
    /\ line'  = [j \in Jobs |-> 0]
    /\ held'  = [j \in Jobs |-> IF j \in running THEN held[j] ELSE {}]
    /\ abort' = [j \in Jobs |-> IF j \in running /\ abort[j] = "none" THEN "shutdown" ELSE abort[j]]
    /\ used'  = [used EXCEPT !.crashes = @ + 1]
    /\ UNCHANGED <<db, running, run, work, http, up>>

\* The process ends, after a shutdown or without one: memory is lost.
Exit ==
    /\ up
    /\ stopping \/ used.crashes < MaxCrashes
    /\ used' = IF stopping THEN used ELSE [used EXCEPT !.crashes = @ + 1]
    /\ up' = FALSE /\ stopping' = FALSE
    /\ line'    = [j \in Jobs |-> 0]
    /\ running' = {}
    /\ held'    = [j \in Jobs |-> {}]
    /\ abort'   = [j \in Jobs |-> "none"]
    /\ run'     = [j \in Jobs |-> "off"]
    /\ todo'    = [j \in Jobs |-> {}]
    /\ outcome' = [j \in Jobs |-> "none"]
    /\ create'  = [j \in Jobs |-> IF create[j] = "new" THEN "new" ELSE "done"]
    /\ cancel'  = [j \in Jobs |-> "idle"]
    /\ retry'   = [j \in Jobs |-> "idle"]
    /\ asked'   = [j \in Jobs |-> {}]
    /\ UNCHANGED db

\* Mutation: the boot starts what it reclaims without the queue's caps.
BootAtOnce ==
    LET stranded == {j \in Jobs : row[j] \in {"QUEUED", "RUNNING"}}
    IN  /\ ~up
        /\ up' = TRUE
        /\ running' = stranded
        /\ held' = [j \in Jobs |-> IF j \in stranded THEN HostsOf[j] \ gone ELSE {}]
        /\ run'  = [j \in Jobs |-> IF j \in stranded THEN "load" ELSE "off"]
        /\ UNCHANGED <<db, line, abort, work, http, stopping, used>>

\* Mutation: only interrupted jobs are reclaimed, queued ones are forgotten.
BootInterrupted ==
    /\ ~up
    /\ up' = TRUE
    /\ LET stranded == {j \in Jobs : row[j] = "RUNNING"}
       IN  Pump([j \in Jobs |-> IF j \notin stranded THEN 0
                                ELSE Cardinality({k \in stranded : born[k] <= born[j]})],
                {}, [j \in Jobs |-> HostsOf[j] \ gone])
    /\ UNCHANGED <<db, work, http, stopping, used>>

\* Mutation: everything that is not DONE is reclaimed.
BootUnfinished ==
    /\ ~up
    /\ up' = TRUE
    /\ LET stranded == {j \in Jobs : row[j] \in {"QUEUED", "RUNNING", "FAILED"}}
       IN  Pump([j \in Jobs |-> IF j \notin stranded THEN 0
                                ELSE Cardinality({k \in stranded : born[k] <= born[j]})],
                {}, [j \in Jobs |-> HostsOf[j] \ gone])
    /\ UNCHANGED <<db, work, http, stopping, used>>

\* onApplicationBootstrap: every job left QUEUED or RUNNING is enqueued, oldest
\* first.  Nothing else runs yet, and a job that did not fit is not helped by
\* one that started, so pumping after each enqueue is one scan at the end.
Boot ==
    /\ ~up
    /\ up' = TRUE
    /\ LET stranded == {j \in Jobs : row[j] \in {"QUEUED", "RUNNING"}}
       IN  Pump([j \in Jobs |-> IF j \notin stranded THEN 0
                                ELSE Cardinality({k \in stranded : born[k] <= born[j]})],
                {}, [j \in Jobs |-> HostsOf[j] \ gone])
    /\ UNCHANGED <<db, work, http, stopping, used>>

\* The same, with a database that does not answer: logged and swallowed.
BootUnreclaimed ==
    /\ ~up /\ used.faults < MaxFaults
    /\ up' = TRUE
    /\ used' = [used EXCEPT !.faults = @ + 1]
    /\ UNCHANGED <<db, pool, work, http, stopping>>
-----------------------------------------------------------------------------
Init ==
    /\ row     = [j \in Jobs |-> "absent"]
    /\ item    = [j \in Jobs |-> [i \in Items |-> "absent"]]
    /\ born    = [j \in Jobs |-> 0]
    /\ gone    = {}
    /\ line    = [j \in Jobs |-> 0]
    /\ running = {}
    /\ held    = [j \in Jobs |-> {}]
    /\ abort   = [j \in Jobs |-> "none"]
    /\ run     = [j \in Jobs |-> "off"]
    /\ todo    = [j \in Jobs |-> {}]
    /\ outcome = [j \in Jobs |-> "none"]
    /\ create  = [j \in Jobs |-> "new"]
    /\ cancel  = [j \in Jobs |-> "idle"]
    /\ retry   = [j \in Jobs |-> "idle"]
    /\ asked   = [j \in Jobs |-> {}]
    /\ up = TRUE /\ stopping = FALSE
    /\ used    = [cancels |-> 0, retries |-> 0, crashes |-> 0, faults |-> 0]

Create(j) == CreateRow(j) \/ CreateItems(j) \/ CreateEnqueue(j)
Cancel(j) == CancelRead(j) \/ CancelAct(j) \/ CancelWrite(j)
Retry(j)  == RetryRead(j) \/ RetryItems(j) \/ RetryRow(j) \/ RetryEnqueue(j)
Run(j)    == \/ RunLoad(j) \/ RunFail(j) \/ RunMark(j) \/ RunNext(j) \/ RunSettle(j)
             \/ RunUnverified(j) \/ RunReturn(j) \/ RunThrow(j) \/ RunCount(j)
             \/ RunWrite(j) \/ RunLeave(j)

Next ==
    \/ \E j \in Jobs : Create(j) \/ Cancel(j) \/ Retry(j) \/ Run(j) \/ RunEscape(j)
    \/ \E h \in Hosts : DeleteHost(h)
    \/ Shutdown \/ Exit \/ Boot \/ BootUnreclaimed

Spec == Init /\ [][Next]_vars

\* What the process does on its own: a handler that was entered is finished, a
\* run advances (ssh2's keepalive turns a dead peer into an error, so a driver
\* call ends), and pm2 brings the process back.  Requests are never owed.
Fairness ==
    /\ \A j \in Jobs : /\ WF_vars(CreateItems(j) \/ CreateEnqueue(j))
                       /\ WF_vars(CancelAct(j) \/ CancelWrite(j))
                       /\ WF_vars(RetryItems(j) \/ RetryRow(j) \/ RetryEnqueue(j))
                       /\ WF_vars(Run(j))
    /\ WF_vars(Boot)
    /\ WF_vars(stopping /\ Exit)

FairSpec == Spec /\ Fairness
-----------------------------------------------------------------------------
(* Properties.                                                             *)

RowStatus  == {"absent", "QUEUED", "RUNNING"} \cup Terminal
ItemStatus == {"absent", "PENDING", "FAILED"} \cup Settled
RunPlace   == {"off", "load", "fail", "mark", "exec", "item", "count", "write", "leave"}
Counters   == {"cancels", "retries", "crashes", "faults"}

\* Every variable keeps its type; in particular no place in the line exceeds
\* the number of jobs, and a run has a place exactly while it is in `running`.
TypeOK ==
    /\ row     \in [Jobs -> RowStatus]
    /\ item    \in [Jobs -> [Items -> ItemStatus]]
    /\ born    \in [Jobs -> 0 .. Cardinality(Jobs)]
    /\ gone    \subseteq Hosts
    /\ line    \in [Jobs -> 0 .. Cardinality(Jobs)]
    /\ running \subseteq Jobs
    /\ held    \in [Jobs -> SUBSET Hosts]
    /\ abort   \in [Jobs -> {"none", "user", "shutdown"}]
    /\ run     \in [Jobs -> RunPlace]
    /\ todo    \in [Jobs -> SUBSET Items]
    /\ outcome \in [Jobs -> Terminal \cup {"none"}]
    /\ create  \in [Jobs -> {"new", "items", "enqueue", "done"}]
    /\ cancel  \in [Jobs -> {"idle", "read", "write"}]
    /\ retry   \in [Jobs -> {"idle", "items", "row", "enqueue"}]
    /\ asked   \in [Jobs -> SUBSET Hosts]
    /\ up \in BOOLEAN /\ stopping \in BOOLEAN
    /\ used    \in [Counters -> Nat]
    /\ \A j \in Jobs : run[j] # "off" <=> j \in running

\* The two caps hold through every overlap of enqueues, finishes that start
\* several jobs at once, aborts that have not unwound yet, and reclaims.
CapsRespected ==
    /\ Cardinality(running) <= MaxInFlight
    /\ \A h \in Hosts : Cardinality({j \in running : h \in held[j]}) <= MaxPerHost

\* The line is one: places are 1..n without a gap or a tie, and no job is both
\* in line and running, so a job never has two runs.
LineIsALine ==
    /\ Waiting \cap running = {}
    /\ \A j, k \in Waiting : line[j] = line[k] => j = k
    /\ \A j \in Waiting : line[j] <= Cardinality(Waiting)

\* "A slot never sits idle while something is waiting for it": in every state
\* of a process that is not stopping, no waiting job fits beside the running.
NoIdleSlot ==
    up /\ ~stopping => \A j \in Waiting : ~Fits(j, running, held)

\* The queue gives jobs their slots as SlotPool promises: each request, end of a
\* run, shutdown, crash and boot is one of its steps or none.
Slots == INSTANCE SlotPool WITH
    Tasks <- Jobs, Machines <- Hosts, Cap <- MaxInFlight, PerMachine <- MaxPerHost,
    waiting <- Waiting, running <- running, on <- held

RefinesSlotPool == Slots!Spec

\* While the process is not stopping, a RUNNING row has a run behind it, or
\* after a reclaim a place in line, or a cancel about to overwrite it.
RowsOwned ==
    up /\ ~stopping => \A j \in Jobs : row[j] = "RUNNING" =>
        j \in running \/ j \in Waiting \/ cancel[j] = "write"

\* "Nothing else can leave one there": only a process that died strands a
\* RUNNING row, or a database call that failed outside the runner's `try`.
RunningRowHasRun == used.faults = 0 => RowsOwned

\* A DONE row never stands over an item that failed, whatever was cancelled,
\* retried or reclaimed on the way.
DoneHasNoFailure ==
    \A j \in Jobs : row[j] = "DONE" => \A i \in Items : item[j][i] # "FAILED"

\* What succeeded keeps its DONE: no retry or reclaim of a copy runs an item
\* again once it is DONE or SKIPPED; and what the run of a job nobody retries
\* ended with is written over only by a cancel that read the row before.
EndedStays ==
    [][\A j \in Jobs :
        /\ j \notin Moves => \A i \in Items : item[j][i] \in Settled => item'[j][i] = item[j][i]
        /\ used.retries = 0 /\ row[j] \in {"DONE", "FAILED"} /\ row'[j] # row[j] =>
              cancel[j] = "write" /\ row'[j] = "CANCELLED"]_<<row, item>>

\* Every job that was queued is settled in the end, through restarts and
\* cancellations, as long as nobody retries (see QueuedHasAPlace).
EveryJobSettles ==
    \A j \in Jobs : row[j] \in {"QUEUED", "RUNNING"} ~> row[j] \in Terminal

\* A queued row is in line, running, or in the hands of a request that will
\* put it there: "put a job in line, runs immediately when there is room".
QueuedHasAPlace ==
    up /\ ~stopping => \A j \in Jobs : row[j] = "QUEUED" =>
        \/ j \in Waiting \/ j \in running
        \/ create[j] # "done" \/ retry[j] # "idle" \/ cancel[j] = "write"

\* The inductive invariant behind the properties of the queue.  Its further
\* conjuncts: a job without a row is nowhere; creation times are distinct, so
\* that a reclaim builds a line; a dead process holds nothing; and a run that
\* reached its end knows its outcome.
AbsentIsNowhere ==
    \A j \in Jobs :
        /\ row[j] = "absent" <=> create[j] = "new"
        /\ row[j] = "absent" => /\ j \notin Waiting /\ j \notin running
                                /\ cancel[j] = "idle" /\ retry[j] = "idle"

BornInOrder ==
    LET made == {j \in Jobs : row[j] # "absent"}
    IN  /\ \A j \in made : born[j] \in 1 .. Cardinality(made)
        /\ \A j, k \in made : born[j] = born[k] => j = k

DownIsEmpty ==
    ~up => ~stopping /\ Waiting = {} /\ running = {}

OutcomeKnown ==
    \A j \in Jobs : run[j] \in {"count", "write"} => outcome[j] \in Terminal

QueueInv ==
    /\ TypeOK
    /\ CapsRespected
    /\ LineIsALine
    /\ NoIdleSlot
    /\ AbsentIsNowhere
    /\ BornInOrder
    /\ DownIsEmpty
    /\ OutcomeKnown

\* What RunningRowHasRun rests on: only a stopping process aborts with the
\* shutdown reason, and a run about to leave the queue has written its row.
RowInv ==
    /\ RowsOwned
    /\ \A j \in Jobs : abort[j] = "shutdown" => stopping
    /\ ~stopping => \A j \in Jobs : run[j] = "leave" => row[j] # "RUNNING"

\* What DoneHasNoFailure rests on: from the moment a run has marked its row
\* until it writes it, nothing else writes DONE there, and an outcome that is
\* about to be written DONE was counted over items none of which failed since.
DoneInv ==
    /\ DoneHasNoFailure
    /\ \A j \in Jobs : run[j] \in {"exec", "item", "count", "write"} => row[j] # "DONE"
    /\ \A j \in Jobs : run[j] = "write" /\ outcome[j] = "DONE" =>
          \A i \in Items : item[j][i] # "FAILED"
=============================================================================
