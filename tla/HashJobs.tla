------------------------------ MODULE HashJobs ------------------------------
(***************************************************************************)
(* Checksum jobs: HashService.start, the line and the running map of       *)
(* HashQueueService, HashRunnerService, and the FileHashes rows it fills.  *)
(* A job is never a row: a process that ends forgets it, and keeps what it *)
(* cached.  A file is the number of times it was written, which is also    *)
(* its modification time.                                                  *)
(***************************************************************************)
EXTENDS Naturals, Sequences, FiniteSets, SequencesExt

CONSTANTS
    HashIds,         \* job ids
    HashFiles,
    TargetsOf,       \* TargetsOf[j]: the files the selection of a job expands to
    HashInFlight,    \* MAX_JOBS_IN_FLIGHT
    ArgsPerCall,     \* MAX_ARGS_PER_CALL
    MaxFileWrites,   \* bounds on the environment: how often somebody writes a
    MaxHashCancels   \* file, and how many jobs are cancelled

ASSUME HashAssumption ==
    /\ IsFiniteSet(HashIds) /\ IsFiniteSet(HashFiles)
    /\ TargetsOf \in [HashIds -> SUBSET HashFiles \ {{}}]
    /\ {HashInFlight, ArgsPerCall} \subseteq Nat \ {0}
    /\ {MaxFileWrites, MaxHashCancels} \subseteq Nat

VARIABLES
    text,      \* the files on the host
    digestOf,  \* the rows of FileHashes, functions with no row absent
    post,      \* where the start request of a job stands
    seen,      \* the modification times its walk read
    hline,     \* `waiting`
    hrun,      \* where HashRunnerService.run stands, "off" outside `running`
    habort,    \* the reason its controller was aborted with
    todoOn,    \* hashOnHost's `targets`, then what is left to stream
    chunk,     \* the paths of the sha256sum call under way
    fresh,     \* the digests it printed and nobody saved yet
    rest,      \* the targets no chunk has reached
    counts,    \* filesDone and filesFailed
    frame,     \* the status of the terminal frame
    hstop,     \* `stopping`
    hcancels

hashJob  == <<todoOn, chunk, fresh, rest, counts, frame>>
hashLine == <<hline, hrun, habort>>
hashVars == <<text, digestOf, post, seen, hashLine, hashJob, hstop, hcancels>>

HRunning == {j \in HashIds : hrun[j] # "off"}
HLined   == ToSet(hline)
NoRow    == [at |-> 0, of |-> 0]   \* files are written once before the story begins
-----------------------------------------------------------------------------
(* The queue and the requests.                                             *)

\* Mutation: a slot too many.
HPumpOver(ln, busy) ==
    IF hstop \/ ln = <<>> \/ Cardinality(busy) > HashInFlight
    THEN hline' = ln /\ hrun' = [j \in HashIds |-> IF j \in busy THEN hrun[j] ELSE "off"]
    ELSE /\ hline' = Tail(ln)
         /\ hrun'  = [j \in HashIds |-> IF j = Head(ln) THEN "lookup"
                                        ELSE IF j \in busy THEN hrun[j] ELSE "off"]

\* pump(), called after one slot was freed or one job was put in line.
HPump(ln, busy) ==
    IF hstop \/ ln = <<>> \/ Cardinality(busy) >= HashInFlight
    THEN hline' = ln /\ hrun' = [j \in HashIds |-> IF j \in busy THEN hrun[j] ELSE "off"]
    ELSE /\ hline' = Tail(ln)
         /\ hrun'  = [j \in HashIds |-> IF j = Head(ln) THEN "lookup"
                                        ELSE IF j \in busy THEN hrun[j] ELSE "off"]

\* expand(): every file the selection names, with the times it has now.
HashWalk(j) ==
    /\ post[j] = "new"
    /\ post' = [post EXCEPT ![j] = "walked"]
    /\ seen' = [seen EXCEPT ![j] = text]
    /\ UNCHANGED <<text, digestOf, hashLine, hashJob, hstop, hcancels>>

HashEnqueue(j) ==
    /\ post[j] = "walked"
    /\ post' = [post EXCEPT ![j] = "done"]
    /\ IF hstop THEN UNCHANGED <<hline, hrun>> ELSE HPump(Append(hline, j), HRunning)
    /\ UNCHANGED <<text, digestOf, seen, habort, hashJob, hstop, hcancels>>

\* cancel(): abort a running job, or drop a waiting one; any other is a 404.
HashCancel(j) ==
    /\ hcancels < MaxHashCancels
    /\ hcancels' = hcancels + 1
    /\ \/ /\ j \in HRunning
          /\ habort' = [habort EXCEPT ![j] = IF @ = "none" THEN "user" ELSE @]
          /\ UNCHANGED hline
       \/ /\ \E i \in DOMAIN hline : hline[i] = j /\ hline' = RemoveAt(hline, i)
          /\ UNCHANGED habort
    /\ UNCHANGED <<text, digestOf, post, seen, hrun, hashJob, hstop>>

\* onModuleDestroy.
HashShutdown ==
    /\ ~hstop
    /\ hstop'  = TRUE
    /\ hline'  = <<>>
    /\ habort' = [j \in HashIds |-> IF j \in HRunning /\ habort[j] = "none" THEN "shutdown" ELSE habort[j]]
    /\ UNCHANGED <<text, digestOf, post, seen, hrun, hashJob, hcancels>>

\* Somebody on the host writes a file.
HashTouch(f) ==
    /\ text[f] <= MaxFileWrites
    /\ text' = [text EXCEPT ![f] = @ + 1]
    /\ UNCHANGED <<digestOf, post, seen, hashLine, hashJob, hstop, hcancels>>
-----------------------------------------------------------------------------
(* The runner.                                                             *)

HMove(j, to) == hrun' = [hrun EXCEPT ![j] = to] /\ UNCHANGED <<hline, habort>>

\* uncached(): a row is good while the time it was read at still holds.
HashLookup(j) ==
    LET cached == {f \in TargetsOf[j] : digestOf[f].at = seen[j][f]}
    IN  /\ hrun[j] = "lookup"
        /\ counts' = [counts EXCEPT ![j].done = Cardinality(cached)]
        /\ todoOn' = [todoOn EXCEPT ![j] = TargetsOf[j] \ cached]
        /\ rest'   = [rest EXCEPT ![j] = TargetsOf[j] \ cached]
        /\ HMove(j, "chunk")
        /\ UNCHANGED <<text, digestOf, post, seen, chunk, fresh, frame, hstop, hcancels>>

\* The lookup, the driver or the host throws.
HashThrow(j) ==
    /\ hrun[j] \in {"lookup", "chunk"} /\ rest[j] = todoOn[j]
    /\ frame' = [frame EXCEPT ![j] = IF habort[j] = "none" THEN "FAILED" ELSE "CANCELLED"]
    /\ HMove(j, "leave")
    /\ UNCHANGED <<text, digestOf, post, seen, todoOn, chunk, fresh, rest, counts, hstop, hcancels>>

\* The next sha256sum call, unless the job is over or was aborted.
HashNextChunk(j) ==
    /\ hrun[j] = "chunk" /\ rest[j] # {} /\ habort[j] = "none"
    /\ \E c \in SUBSET rest[j] :
        /\ c # {} /\ Cardinality(c) <= ArgsPerCall
        /\ Cardinality(c) < ArgsPerCall => c = rest[j]
        /\ chunk' = [chunk EXCEPT ![j] = c]
        /\ rest'  = [rest EXCEPT ![j] = @ \ c]
    /\ fresh' = [fresh EXCEPT ![j] = [f \in {} |-> 0]]
    /\ HMove(j, "sum")
    /\ UNCHANGED <<text, digestOf, post, seen, todoOn, counts, frame, hstop, hcancels>>

\* onDigest: one line, printed when the file has been read.
HashDigest(j) ==
    /\ hrun[j] = "sum"
    /\ \E f \in chunk[j] \ DOMAIN fresh[j] :
        fresh' = [fresh EXCEPT ![j] = [g \in DOMAIN @ \cup {f} |-> IF g = f THEN text[f] ELSE @[g]]]
    /\ counts' = [counts EXCEPT ![j].done = @ + 1]
    /\ UNCHANGED <<text, digestOf, post, seen, hashLine, todoOn, chunk, rest, frame, hstop, hcancels>>

\* Mutation: a row is keyed on the time the file has when it is saved.
HashSaveRestat(j) ==
    /\ hrun[j] = "sum" /\ DOMAIN fresh[j] # {}
    /\ \E taken \in SUBSET DOMAIN fresh[j] :
        digestOf' = [f \in HashFiles |->
            IF f \in taken THEN [at |-> text[f], of |-> fresh[j][f]] ELSE digestOf[f]]
    /\ counts' = [counts EXCEPT ![j].failed = @ + Cardinality(chunk[j] \ DOMAIN fresh[j])]
    /\ HMove(j, "chunk")
    /\ UNCHANGED <<text, post, seen, todoOn, chunk, fresh, rest, frame, hstop, hcancels>>

\* Mutation: a path without a line of its own is not counted.
HashSaveUncounted(j) ==
    /\ hrun[j] = "sum" /\ DOMAIN fresh[j] # {}
    /\ \E taken \in SUBSET DOMAIN fresh[j] :
        digestOf' = [f \in HashFiles |->
            IF f \in taken THEN [at |-> seen[j][f], of |-> fresh[j][f]] ELSE digestOf[f]]
    /\ HMove(j, "chunk")
    /\ UNCHANGED <<text, post, seen, hashJob, hstop, hcancels>>

\* The call ended with output: what it printed is saved under the times of the
\* walk, unless the database refuses a row, and the other paths have failed.
HashSave(j) ==
    /\ hrun[j] = "sum" /\ DOMAIN fresh[j] # {}
    /\ \E taken \in SUBSET DOMAIN fresh[j] :
        digestOf' = [f \in HashFiles |->
            IF f \in taken THEN [at |-> seen[j][f], of |-> fresh[j][f]] ELSE digestOf[f]]
    /\ counts' = [counts EXCEPT ![j].failed = @ + Cardinality(chunk[j] \ DOMAIN fresh[j])]
    /\ HMove(j, "chunk")
    /\ UNCHANGED <<text, post, seen, todoOn, chunk, fresh, rest, frame, hstop, hcancels>>

\* The host refused, the channel dropped or the job was aborted: `failed`, for
\* the whole chunk, whatever it had printed.
HashChunkFails(j) ==
    /\ hrun[j] = "sum"
    /\ counts' = [counts EXCEPT ![j].failed = @ + Cardinality(chunk[j])]
    /\ HMove(j, "chunk")
    /\ UNCHANGED <<text, digestOf, post, seen, todoOn, chunk, fresh, rest, frame, hstop, hcancels>>

\* No sha256sum on the host: every target of the job but those this chunk
\* printed, which is none, goes across the network.
HashAbsent(j) ==
    /\ hrun[j] = "sum" /\ DOMAIN fresh[j] = {}
    /\ HMove(j, "stream")
    /\ UNCHANGED <<text, digestOf, post, seen, hashJob, hstop, hcancels>>

\* hashByStreaming, one file: read and folded, or counted as failed.
HashStream(j) ==
    /\ hrun[j] = "stream" /\ habort[j] = "none"
    /\ \E f \in todoOn[j] :
        /\ todoOn' = [todoOn EXCEPT ![j] = @ \ {f}]
        /\ \/ /\ fresh' = [fresh EXCEPT ![j] = [g \in {f} |-> text[f]]]
              /\ HMove(j, "keep")
              /\ UNCHANGED counts
           \/ /\ counts' = [counts EXCEPT ![j].failed = @ + 1]
              /\ UNCHANGED <<fresh, hashLine>>
    /\ UNCHANGED <<text, digestOf, post, seen, chunk, rest, frame, hstop, hcancels>>

\* The save of a streamed file.
HashKeep(j) ==
    /\ hrun[j] = "keep"
    /\ \E taken \in SUBSET DOMAIN fresh[j] :
        digestOf' = [f \in HashFiles |->
            IF f \in taken THEN [at |-> seen[j][f], of |-> fresh[j][f]] ELSE digestOf[f]]
    /\ counts' = [counts EXCEPT ![j].done = @ + 1]
    /\ HMove(j, "stream")
    /\ UNCHANGED <<text, post, seen, todoOn, chunk, fresh, rest, frame, hstop, hcancels>>

\* The route is exhausted or was cut short, and the terminal frame goes out.
HashEmit(j) ==
    /\ \/ hrun[j] = "chunk"  /\ (rest[j] = {} \/ habort[j] # "none")
       \/ hrun[j] = "stream" /\ (todoOn[j] = {} \/ habort[j] # "none")
    /\ frame' = [frame EXCEPT ![j] = IF habort[j] = "none" THEN "DONE" ELSE "CANCELLED"]
    /\ HMove(j, "leave")
    /\ UNCHANGED <<text, digestOf, post, seen, todoOn, chunk, fresh, rest, counts, hstop, hcancels>>

HashLeave(j) ==
    /\ hrun[j] = "leave"
    /\ HPump(hline, HRunning \ {j})
    /\ habort' = [habort EXCEPT ![j] = "none"]
    /\ UNCHANGED <<text, digestOf, post, seen, hashJob, hstop, hcancels>>
-----------------------------------------------------------------------------
HashInit ==
    /\ text     = [f \in HashFiles |-> 1]
    /\ digestOf = [f \in HashFiles |-> NoRow]
    /\ post     = [j \in HashIds |-> "new"]
    /\ seen     = [j \in HashIds |-> text]
    /\ hline    = <<>>
    /\ hrun     = [j \in HashIds |-> "off"]
    /\ habort   = [j \in HashIds |-> "none"]
    /\ todoOn   = [j \in HashIds |-> {}]
    /\ chunk    = [j \in HashIds |-> {}]
    /\ fresh    = [j \in HashIds |-> [f \in {} |-> 0]]
    /\ rest     = [j \in HashIds |-> {}]
    /\ counts   = [j \in HashIds |-> [done |-> 0, failed |-> 0]]
    /\ frame    = [j \in HashIds |-> "none"]
    /\ hstop = FALSE /\ hcancels = 0

HashRun(j) ==
    \/ HashLookup(j) \/ HashThrow(j) \/ HashNextChunk(j) \/ HashDigest(j) \/ HashSave(j)
    \/ HashChunkFails(j) \/ HashAbsent(j) \/ HashStream(j) \/ HashKeep(j) \/ HashEmit(j)
    \/ HashLeave(j)

HashNext ==
    \/ \E j \in HashIds : HashWalk(j) \/ HashEnqueue(j) \/ HashCancel(j) \/ HashRun(j)
    \/ \E f \in HashFiles : HashTouch(f)
    \/ HashShutdown

HashSpec == HashInit /\ [][HashNext]_hashVars
-----------------------------------------------------------------------------
(* Properties.                                                             *)

HashTypeOK ==
    /\ text     \in [HashFiles -> 1 .. MaxFileWrites + 1]
    /\ digestOf \in [HashFiles -> [at : 0 .. MaxFileWrites + 1, of : 0 .. MaxFileWrites + 1]]
    /\ post     \in [HashIds -> {"new", "walked", "done"}]
    /\ hline    \in Seq(HashIds) /\ IsInjective(hline)
    /\ hrun     \in [HashIds -> {"off", "lookup", "chunk", "sum", "stream", "keep", "leave"}]
    /\ habort   \in [HashIds -> {"none", "user", "shutdown"}]
    /\ \A j \in HashIds : /\ todoOn[j] \cup chunk[j] \cup rest[j] \subseteq TargetsOf[j]
                          /\ DOMAIN fresh[j] \subseteq TargetsOf[j]
    /\ counts   \in [HashIds -> [done : Nat, failed : Nat]]
    /\ frame    \in [HashIds -> {"none", "DONE", "FAILED", "CANCELLED"}]

\* The queue gives jobs their slots as SlotPool promises, whatever the machine.
HashSlots == INSTANCE SlotPool WITH
    Tasks <- HashIds, Machines <- {}, Cap <- HashInFlight, PerMachine <- 1,
    waiting <- HLined, running <- HRunning, on <- [j \in HashIds |-> {}]

HashQueueRefines == HashSlots!Spec

\* "The cache invalidates itself": a digest the inspector shows, because its
\* row has the time the file has now, is the digest of what the file holds now,
\* whoever wrote the file between a walk, a read and a save, and however two
\* jobs over one file interleave.
ShownDigestIsCurrent ==
    \A f \in HashFiles : digestOf[f].at = text[f] => digestOf[f].of = text[f]

\* A job reported DONE has accounted for every file, as done or as failed,
\* "rather than being silently absent from the total".
DoneFrameCovers ==
    \A j \in HashIds : frame[j] = "DONE" =>
        counts[j].done + counts[j].failed >= Cardinality(TargetsOf[j])

\* "Files that could not be hashed": no file is counted as done and as failed.
FrameAddsUp ==
    \A j \in HashIds : counts[j].done + counts[j].failed <= Cardinality(TargetsOf[j])
=============================================================================
