---------------------------- MODULE TailRegistry ----------------------------
(***************************************************************************)
(* Live tails: TailRegistryService, the route that opens a stream over it, *)
(* and the life of a source as the registry sees it.  An entry shares one  *)
(* source among the streams of a file and outlives the last of them by the *)
(* linger.  Every handler is synchronous, so every action is a whole one.  *)
(***************************************************************************)
EXTENDS Naturals, FiniteSets, FiniteSetsExt

CONSTANTS
    Streams,           \* the GETs of /fs/tail, a reconnect being another one
    TailFiles,         \* the files of one host
    FileOf,            \* FileOf[c]: the file a stream asks for
    SessionOf,         \* SessionOf[c]: the session it belongs to
    Follows,           \* Follows[c]: the streams whose last id it may present
    MaxTailsPerHost,   \* MAX_TAILS_PER_HOST
    MaxTailsPerSession,\* MAX_TAILS_PER_SESSION
    RingLines,         \* TAIL_RING_LINES
    MaxLines           \* a bound on the lines a file grows by in one entry

ASSUME TailAssumption ==
    /\ IsFiniteSet(Streams) /\ "none" \notin Streams
    /\ FileOf \in [Streams -> TailFiles]
    /\ Follows \in [Streams -> SUBSET Streams]
    /\ {MaxTailsPerHost, MaxTailsPerSession, RingLines} \subseteq Nat \ {0}
    /\ MaxLines \in Nat

\* An entry is named by the stream that opened it.
NoEntry == "none"
NoId    == [entry |-> NoEntry, n |-> 0]

VARIABLES
    entryAt,   \* `entries`
    source,    \* what became of the source of an entry
    total,     \* `total`, the number the next line gets
    ring,      \* the number of lines in `ring`
    subs,      \* `subscribers`
    reaper,    \* the entries whose `reaper` is set
    strays,    \* the timers of a file that no entry points at
    stream,    \* where a stream stands
    slow,      \* the streams whose socket is over the buffer
    told,      \* the lines a stream was sent or told were dropped, by number
    lastId,    \* the id of the last lines frame a stream was sent
    dropped,   \* `dropped`
    perSession \* `perSession`

tailEntry == <<entryAt, source, total, ring, reaper, strays>>
tailHeld  == <<slow, told, lastId, dropped>>
tailVars  == <<tailEntry, subs, stream, tailHeld, perSession>>

Sessions == {SessionOf[c] : c \in Streams}
Mapped   == {entryAt[f] : f \in TailFiles} \ {NoEntry}
-----------------------------------------------------------------------------
(* Opening.                                                                *)

Admitted(c) ==
    /\ entryAt[FileOf[c]] = NoEntry => Cardinality(Mapped) < MaxTailsPerHost
    /\ perSession[SessionOf[c]] < MaxTailsPerSession

\* subscribe() to a file nobody follows: a new entry, whose source starts.
TailOpen(c) ==
    /\ stream[c] = "new" /\ Admitted(c) /\ entryAt[FileOf[c]] = NoEntry
    /\ entryAt' = [entryAt EXCEPT ![FileOf[c]] = c]
    /\ source'  = [source EXCEPT ![c] = "live"]
    /\ subs'    = [subs EXCEPT ![c] = {c}]
    /\ stream'  = [stream EXCEPT ![c] = "open"]
    /\ perSession' = [perSession EXCEPT ![SessionOf[c]] = @ + 1]
    /\ UNCHANGED <<total, ring, reaper, strays, tailHeld>>

\* Mutation: the ring is cut one line late.
ReplayedLate(e, id) ==
    LET first == total[e] - ring[e]
        from  == id.n + 1
    IN  IF id = NoId THEN [sent |-> ring[e], gap |-> 0]
        ELSE IF total[e] = 0 THEN [sent |-> 0, gap |-> 0]
        ELSE IF from >= total[e] THEN [sent |-> 0, gap |-> 0]
        ELSE IF from < first THEN [sent |-> ring[e], gap |-> first - from]
        ELSE [sent |-> total[e] - from - 1, gap |-> 0]

\* replay(): what a stream that joins an entry is sent before the live lines.
\* Without an id it is the last lines, all of the ring here.
Replayed(e, id) ==
    LET first == total[e] - ring[e]
        from  == id.n + 1
    IN  IF id = NoId THEN [sent |-> ring[e], gap |-> 0]
        ELSE IF total[e] = 0 THEN [sent |-> 0, gap |-> 0]
        ELSE IF from >= total[e] THEN [sent |-> 0, gap |-> 0]
        ELSE IF from < first THEN [sent |-> ring[e], gap |-> first - from]
        ELSE [sent |-> total[e] - from, gap |-> 0]

\* subscribe() to a file with an entry.  A reaper that was set is cleared and
\* the source is left as it is.  What replay sends goes out before openStream
\* writes the head, which then throws: the route ends with its close handler
\* not attached, and nothing will unsubscribe it.
TailJoin(c) ==
    LET e == entryAt[FileOf[c]]
    IN  /\ stream[c] = "new" /\ Admitted(c) /\ e # NoEntry
        /\ reaper' = reaper \ {e}
        /\ subs'   = [subs EXCEPT ![e] = @ \cup {c}]
        /\ \E id \in {NoId} \cup {lastId[p] : p \in Follows[c]} :
            LET r    == Replayed(e, id)
                from == IF id.entry = e THEN id.n + 1 ELSE total[e] - r.sent
            IN  /\ told'    = [told EXCEPT ![c] = from + r.gap + r.sent]
                /\ lastId'  = [lastId EXCEPT ![c] =
                                  IF r.sent > 0 THEN [entry |-> e, n |-> total[e] - 1] ELSE id]
                /\ stream'  = [stream EXCEPT ![c] = IF r.sent + r.gap > 0 THEN "thrown" ELSE "open"]
        /\ perSession' = [perSession EXCEPT ![SessionOf[c]] = @ + 1]
        /\ UNCHANGED <<entryAt, source, total, ring, strays, slow, dropped>>
-----------------------------------------------------------------------------
(* Delivery.                                                               *)

\* broadcast() of a frame of n lines, or of one that is not lines (n = 0): a
\* slow stream skips it and counts, another is told of what it skipped first.
Broadcast(e, n) ==
    LET heard == {c \in subs[e] : stream[c] # "closed"}
        skip  == heard \cap slow
        take  == heard \ slow
    IN  /\ dropped' = [c \in Streams |-> IF c \in skip THEN dropped[c] + (IF n = 0 THEN 1 ELSE n)
                                         ELSE IF c \in take THEN 0 ELSE dropped[c]]
        /\ told'    = [c \in Streams |-> IF c \in take THEN told[c] + dropped[c] + n ELSE told[c]]
        /\ lastId'  = [c \in Streams |-> IF c \in take /\ n > 0
                                         THEN [entry |-> e, n |-> total[e] + n - 1] ELSE lastId[c]]

\* Mutation: the ring is trimmed one line late.
TailPublishLong(e) ==
    /\ source[e] \in {"live", "ending"} /\ total[e] < MaxLines
    /\ total'  = [total EXCEPT ![e] = @ + 1]
    /\ ring'   = [ring EXCEPT ![e] = Min({@ + 1, RingLines + 1})]
    /\ source' = [source EXCEPT ![e] = IF @ = "ending" THEN "dead" ELSE @]
    /\ Broadcast(e, 1)
    /\ UNCHANGED <<entryAt, reaper, strays, subs, stream, slow, perSession>>

\* publish(): a line.  A read under way when the source was stopped still ends.
TailPublish(e) ==
    /\ source[e] \in {"live", "ending"} /\ total[e] < MaxLines
    /\ total'  = [total EXCEPT ![e] = @ + 1]
    /\ ring'   = [ring EXCEPT ![e] = Min({@ + 1, RingLines})]
    /\ source' = [source EXCEPT ![e] = IF @ = "ending" THEN "dead" ELSE @]
    /\ Broadcast(e, 1)
    /\ UNCHANGED <<entryAt, reaper, strays, subs, stream, slow, perSession>>

\* A frame that is not lines is counted as one line by a stream that skips it.
\* As a bound, only while no stream was told of more lines than there are.
TailRotated(e) ==
    /\ source[e] = "live" /\ \A c \in subs[e] : told[c] + dropped[c] <= total[e]
    /\ Broadcast(e, 0)
    /\ UNCHANGED <<tailEntry, subs, stream, slow, perSession>>

\* A socket falls behind, or catches up.
TailSlow(c) ==
    /\ stream[c] = "open"
    /\ slow' = IF c \in slow THEN slow \ {c} ELSE slow \cup {c}
    /\ UNCHANGED <<tailEntry, subs, stream, told, lastId, dropped, perSession>>
-----------------------------------------------------------------------------
(* Ending.                                                                 *)

Stopped(e) == [source EXCEPT ![e] = IF @ = "live" THEN "ending" ELSE @]

\* A fatal error: closeEntry ends every response and drops the entry; the close
\* events of those responses come later.
TailFatal(e) ==
    /\ source[e] = "live"
    /\ source'  = [source EXCEPT ![e] = "dead"]
    /\ reaper'  = reaper \ {e}
    /\ subs'    = [subs EXCEPT ![e] = {}]
    /\ stream'  = [c \in Streams |-> IF c \in subs[e] /\ stream[c] = "open" THEN "ended" ELSE stream[c]]
    /\ entryAt' = [f \in TailFiles |-> IF f = FileOf[e] THEN NoEntry ELSE entryAt[f]]
    /\ UNCHANGED <<total, ring, strays, tailHeld, perSession>>

\* Mutation: a response that a fatal error ended gives nothing back.
TailCloseEnded(c) ==
    LET e == entryAt[FileOf[c]]
    IN  /\ stream[c] \in {"open", "ended"}
        /\ stream' = [stream EXCEPT ![c] = "closed"]
        /\ slow'   = slow \ {c}
        /\ told'    = [told EXCEPT ![c] = 0]
        /\ dropped' = [dropped EXCEPT ![c] = 0]
        /\ perSession' = IF stream[c] = "ended" THEN perSession
                         ELSE [perSession EXCEPT ![SessionOf[c]] = @ - 1]
        /\ IF e = NoEntry THEN UNCHANGED <<subs, source, reaper, strays>>
           ELSE /\ subs' = [subs EXCEPT ![e] = @ \ {c}]
                /\ IF subs[e] \subseteq {c}
                   THEN /\ source' = Stopped(e)
                        /\ strays' = IF e \in reaper THEN [strays EXCEPT ![FileOf[c]] = @ + 1] ELSE strays
                        /\ reaper' = reaper \cup {e}
                   ELSE UNCHANGED <<source, reaper, strays>>
        /\ UNCHANGED <<entryAt, total, ring, lastId>>

\* The response closes: unsubscribe() from whatever entry the file has now.
\* With nobody left the source is stopped and a reaper set; one that was set
\* already is no longer pointed at, and still runs.
TailClose(c) ==
    LET e == entryAt[FileOf[c]]
    IN  /\ stream[c] \in {"open", "ended"}
        /\ stream' = [stream EXCEPT ![c] = "closed"]
        /\ slow'   = slow \ {c}
        /\ told'    = [told EXCEPT ![c] = 0]
        /\ dropped' = [dropped EXCEPT ![c] = 0]
        /\ perSession' = [perSession EXCEPT ![SessionOf[c]] = @ - 1]
        /\ IF e = NoEntry THEN UNCHANGED <<subs, source, reaper, strays>>
           ELSE /\ subs' = [subs EXCEPT ![e] = @ \ {c}]
                /\ IF subs[e] \subseteq {c}
                   THEN /\ source' = Stopped(e)
                        /\ strays' = IF e \in reaper THEN [strays EXCEPT ![FileOf[c]] = @ + 1] ELSE strays
                        /\ reaper' = reaper \cup {e}
                   ELSE UNCHANGED <<source, reaper, strays>>
        /\ UNCHANGED <<entryAt, total, ring, lastId>>

\* A timer of the linger runs out, the oldest first, and deletes whatever entry
\* the file has.  One that is not pointed at is older than the one that is.
TailReap(f) ==
    LET e == entryAt[f]
    IN  /\ strays[f] > 0 \/ e \in reaper
        /\ reaper'  = reaper \ {e}
        /\ strays'  = [strays EXCEPT ![f] = IF @ > 0 /\ e \notin reaper THEN @ - 1 ELSE @]
        /\ entryAt' = [entryAt EXCEPT ![f] = NoEntry]
        /\ UNCHANGED <<source, total, ring, subs, stream, tailHeld, perSession>>
-----------------------------------------------------------------------------
TailInit ==
    /\ entryAt = [f \in TailFiles |-> NoEntry]
    /\ source  = [c \in Streams |-> "none"]
    /\ total   = [c \in Streams |-> 0]
    /\ ring    = [c \in Streams |-> 0]
    /\ subs    = [c \in Streams |-> {}]
    /\ reaper = {} /\ strays = [f \in TailFiles |-> 0]
    /\ stream  = [c \in Streams |-> "new"]
    /\ slow = {}
    /\ told    = [c \in Streams |-> 0]
    /\ lastId  = [c \in Streams |-> NoId]
    /\ dropped = [c \in Streams |-> 0]
    /\ perSession = [s \in Sessions |-> 0]

TailNext ==
    \/ \E c \in Streams : \/ TailOpen(c) \/ TailJoin(c) \/ TailSlow(c) \/ TailClose(c)
                          \/ TailPublish(c) \/ TailRotated(c) \/ TailFatal(c)
    \/ \E f \in TailFiles : TailReap(f)

TailSpec == TailInit /\ [][TailNext]_tailVars
-----------------------------------------------------------------------------
(* Properties.                                                             *)

TailTypeOK ==
    /\ entryAt \in [TailFiles -> Streams \cup {NoEntry}]
    /\ source  \in [Streams -> {"none", "live", "ending", "dead"}]
    /\ \A e \in Streams : ring[e] <= total[e] /\ total[e] <= MaxLines /\ ring[e] <= RingLines
    /\ subs    \in [Streams -> SUBSET Streams] /\ reaper \subseteq Streams
    /\ strays  \in [TailFiles -> Nat]
    /\ stream  \in [Streams -> {"new", "open", "thrown", "ended", "closed"}]
    /\ slow \subseteq Streams
    /\ told \in [Streams -> Nat] /\ dropped \in [Streams -> Nat]
    /\ lastId  \in [Streams -> [entry : Streams \cup {NoEntry}, n : Nat]]
    /\ perSession \in [Sessions -> Nat]

\* "The source stops the instant the last subscriber leaves": a source that runs
\* and can be found has a subscriber, through fatal errors, late close events
\* and timers that outlive their entry.
SourceIsWatched ==
    \A e \in Mapped : source[e] = "live" => subs[e] # {}

\* "A subscriber left behind is a source that never learns nobody is listening":
\* a source that runs can be found, so that its last subscriber can stop it.
NoOrphanSource ==
    \A e \in Streams : source[e] = "live" => e \in Mapped

\* A session is charged for exactly the streams it has not closed, and a host
\* never has more entries than its cap.
TailsAreCounted ==
    /\ Cardinality(Mapped) <= MaxTailsPerHost
    /\ \A s \in Sessions : perSession[s] =
        Cardinality({c \in Streams : SessionOf[c] = s /\ stream[c] \in {"open", "thrown", "ended"}})

\* "Say so rather than letting the lines simply not be there": a subscriber
\* that began in an entry, or came back to the one its id is from, was sent
\* every line since, or told how many it was not, or will be told.
NoLineIsMissed ==
    \A e \in Streams : \A c \in subs[e] :
        stream[c] # "closed" /\ lastId[c].entry = e => told[c] + dropped[c] >= total[e]

\* "So that an EventSource reconnecting three seconds later resumes": whoever
\* watches an entry watches a source that runs.
WatchedIsFollowed ==
    \A e \in Streams : subs[e] # {} => source[e] = "live"

\* Every subscription belongs to a route that will give it back.
SubscriptionIsHeld ==
    \A e \in Streams : \A c \in subs[e] : stream[c] \in {"open", "ended"}
=============================================================================
