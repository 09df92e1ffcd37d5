------------------------------ MODULE DirSizes ------------------------------
(***************************************************************************)
(* DirSizeService: a stream of `du -s` answers for the directories of a    *)
(* listing.  A few workers share one cursor and one `rungs`, what they     *)
(* have learnt about the host: whether it has nice, whether sudo works and *)
(* whether its du knows the flags.  A walk is started with what `rungs`    *)
(* said then and judged by what it says when the walk is over.             *)
(***************************************************************************)
EXTENDS Naturals, Sequences, FiniteSets

CONSTANTS
    Dirs,        \* the directories of the listing, as the numbers 1..n
    Workers,     \* DIR_SIZE_CONCURRENCY
    Readable     \* Readable[d]: what du sees as the login user, one of Sight

Sight == {"whole", "floor", "nothing"}

ASSUME SizeAssumption ==
    /\ IsFiniteSet(Dirs) /\ Dirs = 1..Cardinality(Dirs)
    /\ Readable \in [Dirs -> Sight]

VARIABLES
    remote,   \* what the host has: `nice`, sudo for this account, GNU flags
    probed,   \* probeFlavour said GNU
    window,   \* a sudo window is open for the session
    rungs,    \* RungState
    cursor,   \* `cursor`
    walk,     \* the walk a worker is in, or NoWalk
    frames,   \* the frames emitted
    left,     \* the workers that returned
    aborted   \* signal.aborted

sizeVars == <<remote, probed, window, rungs, cursor, walk, frames, left, aborted>>

NoWalk == [dir |-> 0]
Rungs  == {0, 1}              \* DU_SIZE_RUNGS, in bytes and in KiB
UnitOf(r) == IF r = 0 THEN 1 ELSE 1024
-----------------------------------------------------------------------------
(* What one process comes to, by the prefixes and the flags it was given.  *)

\* nice is outside sudo, and sudo outside du.
Outcome(w) ==
    IF w.niced /\ ~remote.nice THEN "no nice"
    ELSE IF w.elevated /\ ~remote.sudo THEN "no sudo"
    ELSE IF w.rung = 0 /\ ~remote.flags THEN "no flag"
    ELSE IF w.elevated THEN "whole" ELSE Readable[w.dir]

\* execStream, with `rungs` and the password as they are now.
Walk(d) == [dir |-> d, rung |-> rungs.index, niced |-> rungs.niced,
            elevated |-> rungs.elevate /\ window]

\* drain(): the probe is cached and may be of another day.
SizeOpen ==
    /\ rungs.index = 2 /\ ~aborted
    /\ probed' \in BOOLEAN
    /\ rungs' = [rungs EXCEPT !.index = IF probed' THEN 0 ELSE 1]
    /\ UNCHANGED <<remote, window, cursor, walk, frames, left, aborted>>

\* Mutation: a worker stops one directory past the last.
SizeTakePast(w) ==
    /\ rungs.index \in Rungs /\ walk[w] = NoWalk /\ w \notin left
    /\ IF aborted \/ cursor \notin Dirs \cup {0}
       THEN left' = left \cup {w} /\ UNCHANGED <<cursor, walk>>
       ELSE /\ cursor' = cursor + 1
            /\ walk' = [walk EXCEPT ![w] = [NoWalk EXCEPT !.dir = cursor + 1]]
            /\ UNCHANGED left
    /\ UNCHANGED <<remote, probed, window, rungs, frames, aborted>>

\* A worker takes the next directory, or returns when there is none.
SizeTake(w) ==
    /\ rungs.index \in Rungs /\ walk[w] = NoWalk /\ w \notin left
    /\ IF aborted \/ cursor + 1 \notin Dirs
       THEN left' = left \cup {w} /\ UNCHANGED <<cursor, walk>>
       ELSE /\ cursor' = cursor + 1
            /\ walk' = [walk EXCEPT ![w] = Walk(cursor + 1)]
            /\ UNCHANGED left
    /\ UNCHANGED <<remote, probed, window, rungs, frames, aborted>>

Emit(d, answer, unit) ==
    frames' = Append(frames, [dir |-> d, answer |-> answer, unit |-> unit])

\* The walk is over and its output read: another try with one thing less, or a
\* frame.  The tests are made in this order, and on `rungs` as it is now.
SizeSettle(w) ==
    LET k == walk[w]
        o == Outcome(k)
        silent == o \notin {"whole", "floor"}
        \* shouldDemote: an exit of 2 or more, or a complaint about usage
        refused == o \in {"no nice", "no flag"}
    IN  /\ k # NoWalk
        /\ \/ /\ aborted
              /\ walk' = [walk EXCEPT ![w] = NoWalk]
              /\ left' = left \cup {w}
              /\ UNCHANGED <<rungs, frames>>
           \/ /\ ~aborted /\ rungs.niced /\ o = "no nice"
              /\ rungs' = [rungs EXCEPT !.niced = FALSE]
              /\ walk' = [walk EXCEPT ![w] = [Walk(k.dir) EXCEPT !.niced = FALSE]]
              /\ UNCHANGED <<frames, left>>
           \/ /\ ~aborted /\ k.elevated /\ o = "no sudo"
              /\ rungs' = [rungs EXCEPT !.elevate = FALSE]
              /\ walk' = [walk EXCEPT ![w] = [Walk(k.dir) EXCEPT !.elevated = FALSE]]
              /\ UNCHANGED <<frames, left>>
           \/ /\ ~aborted /\ refused /\ ~(rungs.niced /\ o = "no nice") /\ rungs.index = 0
              /\ rungs' = [rungs EXCEPT !.index = 1]
              /\ walk' = [walk EXCEPT ![w] = [Walk(k.dir) EXCEPT !.rung = 1]]
              /\ UNCHANGED <<frames, left>>
           \/ /\ ~aborted /\ ~(rungs.niced /\ o = "no nice") /\ o # "no sudo"
              /\ refused => rungs.index # 0
              /\ Emit(k.dir, IF silent THEN "error" ELSE o, UnitOf(k.rung))
              /\ walk' = [walk EXCEPT ![w] = NoWalk]
              /\ UNCHANGED <<rungs, left>>
        /\ UNCHANGED <<remote, probed, window, cursor, aborted>>

\* Mutation: a walk whose channel is gone is forgotten.
SizeThrowQuiet(w) ==
    /\ walk[w] # NoWalk
    /\ IF aborted THEN left' = left \cup {w} ELSE UNCHANGED left
    /\ walk' = [walk EXCEPT ![w] = NoWalk]
    /\ UNCHANGED <<remote, probed, window, rungs, cursor, frames, aborted>>

\* execStream or the read of its output rejects: the SSH channel is gone.
SizeThrow(w) ==
    /\ walk[w] # NoWalk
    /\ \/ ~aborted /\ Emit(walk[w].dir, "thrown", 0) /\ UNCHANGED left
       \/ aborted /\ left' = left \cup {w} /\ UNCHANGED frames
    /\ walk' = [walk EXCEPT ![w] = NoWalk]
    /\ UNCHANGED <<remote, probed, window, rungs, cursor, aborted>>

\* The response closes: cancel().
SizeCancel ==
    /\ rungs.index \in Rungs /\ ~aborted
    /\ aborted' = TRUE
    /\ UNCHANGED <<remote, probed, window, rungs, cursor, walk, frames, left>>

\* The sudo window of the session is closed, or runs out.
SizeWindow ==
    /\ window /\ window' = FALSE
    /\ UNCHANGED <<remote, probed, rungs, cursor, walk, frames, left, aborted>>
-----------------------------------------------------------------------------
SizeInit ==
    /\ remote \in [nice : BOOLEAN, sudo : BOOLEAN, flags : BOOLEAN]
    /\ probed = FALSE /\ window \in BOOLEAN
    /\ rungs = [index |-> 2, niced |-> TRUE, elevate |-> TRUE]
    /\ cursor = 0
    /\ walk = [w \in Workers |-> NoWalk]
    /\ frames = <<>> /\ left = {} /\ aborted = FALSE

SizeNext ==
    \/ SizeOpen \/ SizeCancel \/ SizeWindow
    \/ \E w \in Workers : SizeTake(w) \/ SizeSettle(w) \/ SizeThrow(w)

SizeSpec == SizeInit /\ [][SizeNext]_sizeVars

\* The walks end and the workers go on; nobody has to leave the page.
SizeFair ==
    /\ WF_sizeVars(SizeOpen)
    /\ \A w \in Workers : WF_sizeVars(SizeTake(w)) /\ WF_sizeVars(SizeSettle(w) \/ SizeThrow(w))
-----------------------------------------------------------------------------
(* Properties.                                                             *)

SizeTypeOK ==
    /\ remote \in [nice : BOOLEAN, sudo : BOOLEAN, flags : BOOLEAN]
    /\ probed \in BOOLEAN /\ window \in BOOLEAN /\ aborted \in BOOLEAN
    /\ rungs \in [index : 0..2, niced : BOOLEAN, elevate : BOOLEAN]
    /\ cursor \in 0..Cardinality(Dirs)
    /\ walk \in [Workers -> {NoWalk} \cup
           [dir : Dirs, rung : Rungs, niced : BOOLEAN, elevated : BOOLEAN]]
    /\ left \subseteq Workers

\* "Nothing is skipped": of the directories the cursor has passed each has one
\* frame or one worker walking it, and never two of either, whatever a worker
\* had to try again; only a reader that left may miss one.
EachAnsweredOnce ==
    \A d \in Dirs :
        LET said == Cardinality({i \in DOMAIN frames : frames[i].dir = d})
            busy == Cardinality({w \in Workers : walk[w].dir = d})
        IN  /\ said + busy <= (IF d <= cursor THEN 1 ELSE 0)
            /\ ~aborted => said + busy = (IF d <= cursor THEN 1 ELSE 0)

\* "A wrong unit is worse than a refused flag": a figure is multiplied by the
\* unit its own walk was asked for, and a floor is said to be one, though other
\* workers change the rung and the window closes while the walk runs.
FiguresAreTrue ==
    \A i \in DOMAIN frames :
        LET f == frames[i]
        IN  /\ f.answer \in {"whole", "floor"} /\ f.unit = 1 => remote.flags
            /\ f.answer = "whole" => Readable[f.dir] = "whole" \/ remote.sudo

\* "`nice` missing from the host, rather than anything about `du`.  Drop the
\* prefix for every walk on this stream and run this one again": a directory
\* du can measure is measured, unless the channel broke.
ReadableIsMeasured ==
    \A i \in DOMAIN frames :
        frames[i].answer = "error" => Readable[frames[i].dir] = "nothing"

\* The reader that stays is told about every directory.
ListingEnds == <>(aborted \/ (left = Workers /\ Len(frames) = Cardinality(Dirs)))
=============================================================================
