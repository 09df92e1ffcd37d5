------------------------------ MODULE ScanJobs ------------------------------
(***************************************************************************)
(* Disk scans: the rows in MySQL, the line and the running map of          *)
(* ScanQueueService, the start and cancel requests of ScanService, and     *)
(* ScanRunnerService from the walk to the terminal write.  An action ends  *)
(* where the code awaits.  What a walk measures is ScanTree's subject.     *)
(***************************************************************************)
EXTENDS Naturals, Sequences, FiniteSets, FiniteSetsExt, SequencesExt

CONSTANTS
    Scans,           \* scan ids, one start request each
    ScanHosts,
    NoScan,
    HostOf,          \* HostOf[s]: the host a request names
    ScansInFlight,   \* MAX_SCANS_IN_FLIGHT
    KeepPerRoot,     \* KEEP_SCANS_PER_ROOT; a host has one root here
    MaxScanCancels,  \* bounds on the environment: cancel requests,
    MaxScanEnds,     \* process ends, refused database calls
    MaxScanFaults

ASSUME ScanAssumption ==
    /\ IsFiniteSet(Scans) /\ NoScan \notin Scans
    /\ HostOf \in [Scans -> ScanHosts]
    /\ {ScansInFlight, KeepPerRoot} \subseteq Nat \ {0}
    /\ {MaxScanCancels, MaxScanEnds, MaxScanFaults} \subseteq Nat

VARIABLES
    scan,    \* DiskScans.status; RUNNING is also what holds runningSlot
    older,   \* DiskScans.supersedesId
    began,   \* the order of DiskScans.startedAt
    ask,     \* where the start request stands
    sline,   \* `waiting`
    srun,    \* where ScanRunnerService.run stands, "off" outside `running`
    sabort,  \* the reason its controller was aborted with
    ending,  \* its local `ending`
    drop,    \* where a cancel request of a host stands: a step and the row read
    sproc,   \* "up", "stopping" or "down"
    sused

scanDb   == <<scan, older, began>>
scanPool == <<sline, srun, sabort, ending>>
scanVars == <<scanDb, ask, scanPool, drop, sproc, sused>>

SRunning      == {s \in Scans : srun[s] # "off"}
Lined         == ToSet(sline)
Busy(h)       == \E s \in SRunning : HostOf[s] = h
Of(h, status) == {s \in Scans : HostOf[s] = h /\ scan[s] = status}
Newest(S)     == IF S = {} THEN NoScan ELSE CHOOSE s \in S : \A t \in S : began[t] <= began[s]
Fault         == sused.faults < MaxScanFaults /\ sused' = [sused EXCEPT !.faults = @ + 1]
-----------------------------------------------------------------------------
(* The queue.                                                              *)

\* Mutation: a scan does not look whether its host has one running.
SPumpAnyHost(ln, busy) ==
    IF sproc # "up" \/ ln = <<>> \/ Cardinality(busy) >= ScansInFlight
    THEN sline' = ln /\ srun' = [s \in Scans |-> IF s \in busy THEN srun[s] ELSE "off"]
    ELSE /\ sline' = Tail(ln)
         /\ srun'  = [s \in Scans |-> IF s = Head(ln) THEN "walk"
                                      ELSE IF s \in busy THEN srun[s] ELSE "off"]

\* pump(): the first in line whose host is free, while there is room.  One is
\* enough: it is called after one slot was freed or one scan was put in line.
SPump(ln, busy) ==
    LET free == {i \in DOMAIN ln : \A s \in busy : HostOf[s] # HostOf[ln[i]]}
    IN  IF sproc # "up" \/ free = {} \/ Cardinality(busy) >= ScansInFlight
        THEN sline' = ln /\ srun' = [s \in Scans |-> IF s \in busy THEN srun[s] ELSE "off"]
        ELSE /\ sline' = RemoveAt(ln, Min(free))
             /\ srun'  = [s \in Scans |-> IF s = ln[Min(free)] THEN "walk"
                                          ELSE IF s \in busy THEN srun[s] ELSE "off"]

\* run() has settled: the queue's finally.
ScanLeave(s) ==
    /\ srun[s] = "leave"
    /\ SPump(sline, SRunning \ {s})
    /\ sabort' = [sabort EXCEPT ![s] = "none"]
    /\ ending' = [ending EXCEPT ![s] = "none"]
    /\ UNCHANGED <<scanDb, ask, drop, sproc, sused>>
-----------------------------------------------------------------------------
(* Requests.                                                               *)

\* reapStaleSlot: a row older than the ceiling whose host has nothing running.
\* Six hours may have passed for any row that is not being created right now.
ScanAsk(s) ==
    /\ sproc # "down" /\ ask[s] = "new"
    /\ ask' = [ask EXCEPT ![s] = "previous"]
    /\ \/ UNCHANGED scan
       \/ /\ ~Busy(HostOf[s])
          /\ \E old \in (SUBSET {t \in Of(HostOf[s], "RUNNING") : ask[t] = "done"}) \ {{}} :
                scan' = [t \in Scans |-> IF t \in old THEN "FAILED" ELSE scan[t]]
    /\ UNCHANGED <<older, began, scanPool, drop, sproc, sused>>

\* The newest finished scan of the root, after the path guard's awaits.
ScanPrevious(s) ==
    /\ sproc # "down" /\ ask[s] = "previous"
    /\ older' = [older EXCEPT ![s] = Newest(Of(HostOf[s], "DONE"))]
    /\ ask'   = [ask EXCEPT ![s] = "create"]
    /\ UNCHANGED <<scan, began, scanPool, drop, sproc, sused>>

\* What the database refuses: a second runningSlot of the host, a second row
\* with the same supersedesId, or one that points at a row that is gone.
ScanRefused(s) ==
    \/ Of(HostOf[s], "RUNNING") # {}
    \/ /\ older[s] # NoScan
       /\ \/ \E t \in Scans \ {s} : scan[t] \notin {"absent", "gone"} /\ older[t] = older[s]
          \/ scan[older[s]] = "gone"

ScanCreate(s) ==
    /\ sproc # "down" /\ ask[s] = "create"
    /\ IF ScanRefused(s)
       THEN /\ older' = [older EXCEPT ![s] = NoScan]
            /\ ask'   = [ask EXCEPT ![s] = "refused"]
            /\ UNCHANGED <<scan, began>>
       ELSE /\ scan'  = [scan EXCEPT ![s] = "RUNNING"]
            /\ began' = [began EXCEPT ![s] = Cardinality({t \in Scans : scan[t] # "absent"}) + 1]
            /\ ask'   = [ask EXCEPT ![s] = "enqueue"]
            /\ UNCHANGED older
    /\ UNCHANGED <<scanPool, drop, sproc, sused>>

ScanEnqueue(s) ==
    /\ sproc # "down" /\ ask[s] = "enqueue"
    /\ ask' = [ask EXCEPT ![s] = "done"]
    /\ IF sproc = "stopping" THEN UNCHANGED <<sline, srun>> ELSE SPump(Append(sline, s), SRunning)
    /\ UNCHANGED <<scanDb, sabort, ending, drop, sproc, sused>>

\* A host with no RUNNING row answers 404 here, which changes nothing.
CancelRead(h) ==
    /\ sproc # "down" /\ drop[h].step = "idle" /\ sused.cancels < MaxScanCancels
    /\ Of(h, "RUNNING") # {}
    /\ drop'  = [drop EXCEPT ![h] = [step |-> "read", of |-> Newest(Of(h, "RUNNING"))]]
    /\ sused' = [sused EXCEPT !.cancels = @ + 1]
    /\ UNCHANGED <<scanDb, ask, scanPool, sproc>>

\* queue.cancel(): a running scan is aborted, a waiting or unknown one is
\* taken out of the line, where it stands once, and its row is written here.
CancelAct(h) ==
    /\ sproc # "down" /\ drop[h].step = "read"
    /\ LET s == drop[h].of
       IN  IF s \in SRunning
           THEN /\ sabort' = [sabort EXCEPT ![s] = IF @ = "none" THEN "user" ELSE @]
                /\ drop'   = [drop EXCEPT ![h] = [step |-> "idle", of |-> NoScan]]
                /\ UNCHANGED sline
           ELSE /\ \/ \E i \in DOMAIN sline : sline[i] = s /\ sline' = RemoveAt(sline, i)
                   \/ s \notin Lined /\ UNCHANGED sline
                /\ drop' = [drop EXCEPT ![h].step = "write"]
                /\ UNCHANGED sabort
    /\ UNCHANGED <<scanDb, ask, srun, ending, sproc, sused>>

\* An update of a row that is gone is refused.
CancelWrite(h) ==
    /\ sproc # "down" /\ drop[h].step = "write"
    /\ scan' = [scan EXCEPT ![drop[h].of] = IF @ = "gone" THEN @ ELSE "CANCELLED"]
    /\ drop' = [drop EXCEPT ![h] = [step |-> "idle", of |-> NoScan]]
    /\ UNCHANGED <<older, began, ask, scanPool, sproc, sused>>
-----------------------------------------------------------------------------
(* The runner.                                                             *)

SMove(s, to) == srun' = [srun EXCEPT ![s] = to] /\ UNCHANGED <<sline, sabort>>

\* The walk and the duplicate pass end, or throw, and the signal is read.
ScanWalk(s) ==
    /\ srun[s] = "walk"
    /\ IF sabort[s] = "shutdown"
       THEN SMove(s, "leave") /\ UNCHANGED ending
       ELSE /\ SMove(s, "save")
            /\ \E e \in IF sabort[s] = "user" THEN {"CANCELLED"} ELSE {"DONE", "FAILED"} :
                ending' = [ending EXCEPT ![s] = e]
    /\ UNCHANGED <<scanDb, ask, drop, sproc, sused>>

\* Deleted rows, and the pointers at them that onDelete SetNull clears.
Delete(out) ==
    older' = [t \in Scans |-> IF scan[t] # "absent" /\ older[t] \in out THEN NoScan ELSE older[t]]

\* Mutation: the superseded scan is deleted before the new one is recorded.
ScanSaveFirst(s) ==
    /\ srun[s] = "save"
    /\ LET out == {older[s]} \ {NoScan}
       IN  /\ scan' = [t \in Scans |-> IF t \in out THEN "gone"
                                       ELSE IF t = s THEN ending[s] ELSE scan[t]]
           /\ Delete(out)
    /\ SMove(s, IF ending[s] = "DONE" THEN "trim" ELSE "leave")
    /\ UNCHANGED <<began, ask, ending, drop, sproc, sused>>

\* settle(): one transaction writes DONE and deletes the superseded scan; any
\* other ending is one update.
ScanSave(s) ==
    /\ srun[s] = "save"
    /\ LET out == IF ending[s] = "DONE" THEN {older[s]} \ {NoScan} ELSE {}
       IN  /\ scan' = [t \in Scans |-> IF t \in out THEN "gone"
                                       ELSE IF t = s THEN ending[s] ELSE scan[t]]
           /\ Delete(out)
    /\ SMove(s, IF ending[s] = "DONE" THEN "trim" ELSE "leave")
    /\ UNCHANGED <<began, ask, ending, drop, sproc, sused>>

\* The database refused the result: FAILED, or nothing when it refuses again.
ScanSaveRefused(s) ==
    /\ srun[s] = "save" /\ Fault
    /\ \/ scan' = [scan EXCEPT ![s] = "FAILED"]
       \/ UNCHANGED scan
    /\ SMove(s, "leave")
    /\ UNCHANGED <<older, began, ask, ending, drop, sproc>>

\* Mutation: the newest finished scan is skipped over, not kept.
ScanTrimAll(s) ==
    /\ srun[s] = "trim"
    /\ LET out == Of(HostOf[s], "DONE")
       IN  scan' = [t \in Scans |-> IF t \in out THEN "gone" ELSE scan[t]] /\ Delete(out)
    /\ SMove(s, "leave")
    /\ UNCHANGED <<began, ask, ending, drop, sproc, sused>>

\* Finished scans of the root past the newest KeepPerRoot.  Read and delete are
\* two calls; only this root's one running scan could add a row in between.
ScanTrim(s) ==
    /\ srun[s] = "trim"
    /\ LET done == Of(HostOf[s], "DONE")
           out  == {t \in done : Cardinality({u \in done : began[u] > began[t]}) >= KeepPerRoot}
       IN  scan' = [t \in Scans |-> IF t \in out THEN "gone" ELSE scan[t]] /\ Delete(out)
    /\ SMove(s, "leave")
    /\ UNCHANGED <<began, ask, ending, drop, sproc, sused>>
-----------------------------------------------------------------------------
(* The process.                                                            *)

\* onModuleDestroy.
ScanShutdown ==
    /\ sproc = "up" /\ sused.ends < MaxScanEnds
    /\ sproc'  = "stopping"
    /\ sline'  = <<>>
    /\ sabort' = [s \in Scans |-> IF s \in SRunning /\ sabort[s] = "none" THEN "shutdown" ELSE sabort[s]]
    /\ sused'  = [sused EXCEPT !.ends = @ + 1]
    /\ UNCHANGED <<scanDb, ask, srun, ending, drop>>

\* The process ends, after a shutdown or without one.
ScanExit ==
    /\ sproc = "stopping" \/ (sproc = "up" /\ sused.ends < MaxScanEnds)
    /\ sused'  = IF sproc = "stopping" THEN sused ELSE [sused EXCEPT !.ends = @ + 1]
    /\ sproc'  = "down"
    /\ sline'  = <<>>
    /\ srun'   = [s \in Scans |-> "off"]
    /\ sabort' = [s \in Scans |-> "none"]
    /\ ending' = [s \in Scans |-> "none"]
    /\ ask'    = [s \in Scans |-> IF ask[s] \in {"new", "refused"} THEN ask[s] ELSE "done"]
    /\ older'  = [s \in Scans |-> IF scan[s] = "absent" THEN NoScan ELSE older[s]]
    /\ drop'   = [h \in ScanHosts |-> [step |-> "idle", of |-> NoScan]]
    /\ UNCHANGED <<scan, began>>

\* Mutation: the boot leaves RUNNING rows for somebody to resume.
ScanBootLeaves ==
    /\ sproc = "down"
    /\ sproc' = "up"
    /\ UNCHANGED <<scanDb, ask, scanPool, drop, sused>>

\* onApplicationBootstrap: every RUNNING row is FAILED, or, when the database
\* does not answer, none.
ScanBoot ==
    /\ sproc = "down"
    /\ sproc' = "up"
    /\ \/ /\ scan' = [s \in Scans |-> IF scan[s] = "RUNNING" THEN "FAILED" ELSE scan[s]]
          /\ UNCHANGED sused
       \/ Fault /\ UNCHANGED scan
    /\ UNCHANGED <<older, began, ask, scanPool, drop>>
-----------------------------------------------------------------------------
ScanInit ==
    /\ scan   = [s \in Scans |-> "absent"]
    /\ older  = [s \in Scans |-> NoScan]
    /\ began  = [s \in Scans |-> 0]
    /\ ask    = [s \in Scans |-> "new"]
    /\ sline  = <<>>
    /\ srun   = [s \in Scans |-> "off"]
    /\ sabort = [s \in Scans |-> "none"]
    /\ ending = [s \in Scans |-> "none"]
    /\ drop   = [h \in ScanHosts |-> [step |-> "idle", of |-> NoScan]]
    /\ sproc  = "up"
    /\ sused  = [cancels |-> 0, ends |-> 0, faults |-> 0]

ScanNext ==
    \/ \E s \in Scans : \/ ScanAsk(s) \/ ScanPrevious(s) \/ ScanCreate(s) \/ ScanEnqueue(s)
                        \/ ScanWalk(s) \/ ScanSave(s) \/ ScanSaveRefused(s) \/ ScanTrim(s)
                        \/ ScanLeave(s)
    \/ \E h \in ScanHosts : CancelRead(h) \/ CancelAct(h) \/ CancelWrite(h)
    \/ ScanShutdown \/ ScanExit \/ ScanBoot

ScanSpec == ScanInit /\ [][ScanNext]_scanVars
-----------------------------------------------------------------------------
(* Properties.                                                             *)

ScanTypeOK ==
    /\ scan   \in [Scans -> {"absent", "RUNNING", "DONE", "FAILED", "CANCELLED", "gone"}]
    /\ older  \in [Scans -> Scans \cup {NoScan}]
    /\ began  \in [Scans -> 0 .. Cardinality(Scans)]
    /\ ask    \in [Scans -> {"new", "previous", "create", "refused", "enqueue", "done"}]
    /\ sline  \in Seq(Scans) /\ IsInjective(sline)
    /\ srun   \in [Scans -> {"off", "walk", "save", "trim", "leave"}]
    /\ sabort \in [Scans -> {"none", "user", "shutdown"}]
    /\ ending \in [Scans -> {"none", "DONE", "FAILED", "CANCELLED"}]
    /\ drop   \in [ScanHosts -> [step : {"idle", "read", "write"}, of : Scans \cup {NoScan}]]
    /\ sproc  \in {"up", "stopping", "down"}

\* The queue gives scans their slots as SlotPool promises, one per host.
ScanOn == [s \in Scans |-> IF s \in SRunning \cup Lined THEN {HostOf[s]} ELSE {}]

ScanSlots == INSTANCE SlotPool WITH
    Tasks <- Scans, Machines <- ScanHosts, Cap <- ScansInFlight, PerMachine <- 1,
    waiting <- Lined, running <- SRunning, on <- ScanOn

ScanQueueRefines == ScanSlots!Spec

\* "A RUNNING row left by a crash holds this key and locks the host out": with
\* a database that answers, a RUNNING row always has somebody who will end it.
RunningScanHasOwner ==
    sproc = "up" /\ sused.faults = 0 => \A s \in Scans : scan[s] = "RUNNING" =>
        \/ ask[s] = "enqueue" \/ s \in SRunning \cup Lined
        \/ \E h \in ScanHosts : drop[h] = [step |-> "write", of |-> s]

\* "So the panel never goes blank": a root that has a finished scan keeps one,
\* whatever fails, is cancelled, superseded or trimmed; only a cancel that read
\* the row before the scan finished takes it (see README, known deviations).
PanelKeepsAScan ==
    [][\A h \in ScanHosts :
        Of(h, "DONE") # {} /\ (\A s \in Scans : HostOf[s] = h => scan'[s] # "DONE")
            => drop[h].step = "write" /\ drop'[h].step = "idle"]_scan

\* The 409 of a start carries "the scan that is already running": a start that
\* the database refuses finds a scan of that host running.
RefusedMeansRunning ==
    [][\A s \in Scans : ask[s] = "create" /\ ask'[s] = "refused"
            => Of(HostOf[s], "RUNNING") # {}]_ask
=============================================================================
