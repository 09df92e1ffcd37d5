------------------------------ MODULE SizesFeed ------------------------------
(***************************************************************************)
(* useDirSizes: the figures of the directory a pane shows, over a stream   *)
(* that is never reopened by the browser.  Answers are buffered and        *)
(* applied together; a stream is opened by a commit that changed what it   *)
(* is of, after the one before was closed.                                 *)
(***************************************************************************)
EXTENDS Naturals, Sequences, FiniteSets

CONSTANTS
    Listed,       \* the directories of a listing, of the same names everywhere
    MaxStreams, \* bound on the streams a pane opens
    MaxWindows  \* bound on the sudo windows that open

ASSUME SizesAssumption == {MaxStreams, MaxWindows} \subseteq Nat /\ IsFiniteSet(Listed)

VARIABLES
    at,      \* the directory, or 0 while its listing is in flight
    sudo,    \* elevated, and the windows seen to open
    sizes,   \* known, as the stream each figure is from, and walking
    src,     \* the EventSource: the stream, whether open, what is on its way
    closure, \* closures[s]: the buffer and the timer of stream s's closure
    streams, \* streams opened
    answered \* history: the rows each stream answered for before it ended

sizesVars == <<at, sudo, sizes, src, closure, streams, answered>>

Nothing == [known |-> [r \in {} |-> 0], walking |-> FALSE]
Fresh   == [pending |-> {}, timer |-> FALSE]
Gone    == [n |-> 0, open |-> FALSE, wire |-> <<>>, sent |-> {}]

\* withAnswers.
With(known, batch, s) == [r \in DOMAIN known \cup batch |-> IF r \in batch THEN s ELSE known[r]]

\* Mutation: the timer of the stream before is left to run.
CleanupLeavesTimer == closure

\* The cleanup: close() clears the timer.
Cleanup == [s \in DOMAIN closure |-> IF s = src.n THEN [closure[s] EXCEPT !.timer = FALSE] ELSE closure[s]]

\* The effect: a new directory knows nothing.
Opens ==
    /\ streams < MaxStreams /\ streams' = streams + 1
    /\ sizes' = [known |-> [r \in {} |-> 0], walking |-> TRUE]
    /\ src' = [n |-> streams + 1, open |-> TRUE, wire |-> <<>>, sent |-> {}]
    /\ closure' = Cleanup
    /\ UNCHANGED answered

\* The pane goes elsewhere: there is no stream until the listing is read.
SizesLeave ==
    /\ at > 0 /\ at' = 0 /\ sizes' = Nothing /\ src' = Gone /\ closure' = Cleanup
    /\ UNCHANGED <<sudo, streams, answered>>

SizesArrive ==
    /\ at = 0 /\ \E d \in {1, 2} : at' = d
    /\ Opens /\ UNCHANGED sudo

\* A sudo window opens, which measures again, or expires, which does not.
SudoOpens ==
    /\ ~sudo.on /\ sudo.windows < MaxWindows
    /\ sudo' = [on |-> TRUE, windows |-> sudo.windows + 1]
    /\ IF at > 0 THEN Opens ELSE UNCHANGED <<sizes, src, closure, streams, answered>>
    /\ UNCHANGED at

SudoExpires ==
    /\ sudo.on /\ sudo' = [sudo EXCEPT !.on = FALSE]
    /\ UNCHANGED <<at, sizes, src, closure, streams, answered>>
-----------------------------------------------------------------------------
\* The route: a row's figure, or the end of the walk.
WalkAnswers ==
    /\ src.open /\ Len(src.wire) < 2
    /\ \E r \in (Listed \cup {"done"}) \ src.sent :
        /\ (r = "done") => Listed \subseteq src.sent
        /\ src' = [src EXCEPT !.wire = Append(@, r), !.sent = @ \cup {r}]
    /\ UNCHANGED <<at, sudo, sizes, closure, streams, answered>>

\* Mutation: what is buffered stays there.
FinishOnly ==
    /\ sizes' = [sizes EXCEPT !.walking = FALSE]
    /\ closure' = [closure EXCEPT ![src.n] = Fresh]
    /\ src' = [src EXCEPT !.open = FALSE, !.wire = <<>>]

\* finish: what is buffered lands with the end.
Finish ==
    /\ sizes' = [known |-> With(sizes.known, closure[src.n].pending, src.n), walking |-> FALSE]
    /\ closure' = [closure EXCEPT ![src.n] = Fresh]
    /\ src' = [src EXCEPT !.open = FALSE, !.wire = <<>>]

\* onmessage.
SizesHear ==
    /\ src.open /\ src.wire # <<>>
    /\ IF Head(src.wire) = "done"
       THEN Finish /\ UNCHANGED answered
       ELSE /\ closure' = [closure EXCEPT ![src.n] = [pending |-> @.pending \cup {Head(src.wire)}, timer |-> TRUE]]
            /\ src' = [src EXCEPT !.wire = Tail(@)]
            /\ answered' = [answered EXCEPT ![src.n] = @ \cup {Head(src.wire)}]
            /\ UNCHANGED sizes
    /\ UNCHANGED <<at, sudo, streams>>

\* onerror: not a retry.
SizesErr ==
    /\ src.open /\ Finish
    /\ UNCHANGED <<at, sudo, streams, answered>>

\* flush, of whichever closure the timer is.
SizesFlush ==
    /\ \E s \in DOMAIN closure :
        /\ closure[s].timer
        /\ closure' = [closure EXCEPT ![s] = Fresh]
        /\ sizes' = [sizes EXCEPT !.known = With(@, closure[s].pending, s)]
    /\ UNCHANGED <<at, sudo, src, streams, answered>>
-----------------------------------------------------------------------------
SizesInit ==
    /\ at = 0 /\ sudo = [on |-> FALSE, windows |-> 0] /\ sizes = Nothing /\ src = Gone
    /\ closure = [s \in 1 .. MaxStreams |-> Fresh] /\ streams = 0
    /\ answered = [s \in 1 .. MaxStreams |-> {}]

SizesNext == \/ SizesLeave \/ SizesArrive \/ SudoOpens \/ SudoExpires
             \/ WalkAnswers \/ SizesHear \/ SizesErr \/ SizesFlush

SizesSpec == SizesInit /\ [][SizesNext]_sizesVars
-----------------------------------------------------------------------------
(* Properties.                                                             *)

SizesTypeOK ==
    /\ at \in 0 .. 2 /\ streams \in 0 .. MaxStreams /\ sudo.windows \in 0 .. MaxWindows
    /\ DOMAIN sizes.known \subseteq Listed
    /\ \A s \in DOMAIN closure : closure[s].pending \subseteq Listed

\* "Must not show the last one's figures against rows that happen to share a
\* name": every figure on screen is of the stream of this directory and of the
\* latest window.
FiguresAreOfHere == \A r \in DOMAIN sizes.known : sizes.known[r] = src.n

\* "A finished walk is never missing its last few figures": once the walk is
\* over, by its end or by an error, every answer that came is on screen.
FinishMissesNothing ==
    at > 0 /\ ~sizes.walking => DOMAIN sizes.known = answered[src.n]
=============================================================================
