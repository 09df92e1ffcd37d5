------------------------------- MODULE SshCalls -------------------------------
(***************************************************************************)
(* The calls a driver makes over one pooled connection: SFTP operations    *)
(* and collected commands with a deadline, streamed commands with a signal *)
(* and a grace, and file streams.  Each borrows a slot and gives it back.  *)
(* The remote side may be late, be silent, exit or drop the channel.       *)
(***************************************************************************)
EXTENDS Naturals, FiniteSets

CONSTANTS
    Commands,   \* the calls
    Slots       \* the slots of the connection they share

ASSUME CallAssumption == IsFiniteSet(Commands) /\ Slots \in Nat \ {0}

VARIABLES
    kind,     \* kind[c]: "sftp", "exec", "stream" or "file"
    endless,  \* the streamed commands that only end when they are stopped: `tail -F`
    at,       \* at[c]: "idle", "acquire", "open", "run" or "over"
    held,     \* the calls whose lease is not released
    channel,  \* channel[c]: "none", "asked", "open" or "closed"
    aborted,  \* the streamed calls whose signal has been aborted
    stopping, \* `cancelled`: abort() ran, and the grace timer with it
    exited,   \* the commands whose exit was reported
    told,   \* told[c]: what the caller was told, "none" yet
    deaf      \* history: aborted between the check of the signal and the listener

sshVars == <<kind, endless, at, held, channel, aborted, stopping, exited, told, deaf>>
fixed    == <<kind, endless>>

CallKinds     == {"sftp", "exec", "stream", "file"}
Bounded       == {"sftp", "exec"}    \* those operationTimeoutMs bounds
MovesTo(c, p) == at' = [at EXCEPT ![c] = p]
Wire(c, s)    == channel' = [channel EXCEPT ![c] = s]

\* finish, and the finally of withSftp: the first settles the call and gives
\* the lease back.
Finish(c, a) ==
    IF at[c] = "over" THEN UNCHANGED <<at, held, told>>
    ELSE MovesTo(c, "over") /\ held' = held \ {c} /\ told' = [told EXCEPT ![c] = a]
-----------------------------------------------------------------------------
(* The slot.                                                               *)

\* A signal that is aborted by now refuses a streamed command.
CallBegins(c) ==
    /\ at[c] = "idle"
    /\ IF c \in aborted THEN Finish(c, "failed") ELSE MovesTo(c, "acquire") /\ UNCHANGED <<held, told>>
    /\ UNCHANGED <<fixed, channel, aborted, stopping, exited, deaf>>

\* acquire answers while the connection has a slot; a command asks for its channel.
CallLeased(c) ==
    /\ at[c] = "acquire" /\ Cardinality(held) < Slots /\ held' = held \cup {c}
    /\ IF kind[c] \in {"exec", "stream"} THEN MovesTo(c, "open") /\ Wire(c, "asked")
       ELSE MovesTo(c, "run") /\ UNCHANGED channel
    /\ UNCHANGED <<fixed, aborted, stopping, exited, told, deaf>>

\* acquire throws: there is nothing to give back.
CallUnleased(c) ==
    /\ at[c] = "acquire" /\ Finish(c, "failed")
    /\ UNCHANGED <<fixed, channel, aborted, stopping, exited, deaf>>
-----------------------------------------------------------------------------
(* What the remote side does.                                              *)

\* The SFTP callback, within the deadline.
SftpAnswers(c) ==
    /\ kind[c] = "sftp" /\ at[c] = "run"
    /\ \E a \in {"done", "failed"} : Finish(c, a)
    /\ UNCHANGED <<fixed, channel, aborted, stopping, exited, deaf>>

\* A file stream ends, fails or is closed by its reader.
FileEnds(c) ==
    /\ kind[c] = "file" /\ at[c] = "run" /\ Finish(c, "done")
    /\ UNCHANGED <<fixed, channel, aborted, stopping, exited, deaf>>

\* client.exec calls back, perhaps after a collected command was given up; from
\* here a streamed one listens to its signal.
ChannelOpens(c) ==
    /\ channel[c] = "asked" /\ Wire(c, "open")
    /\ IF at[c] = "open" THEN MovesTo(c, "run") ELSE UNCHANGED at
    /\ UNCHANGED <<fixed, held, aborted, stopping, exited, told, deaf>>

ChannelFails(c) ==
    /\ channel[c] = "asked" /\ Wire(c, "closed") /\ Finish(c, "failed")
    /\ UNCHANGED <<fixed, aborted, stopping, exited, deaf>>

CommandExits(c) ==
    /\ channel[c] = "open" /\ c \notin exited \cup endless /\ exited' = exited \cup {c}
    /\ UNCHANGED <<fixed, at, held, channel, aborted, stopping, told, deaf>>

\* Mutation: a streamed command that closed is a command that ended.
ClosedFlat(c) == "done"

\* A close with no exit is the connection going away, unless the caller asked.
\* A collected command resolves with what it has.
ClosedAs(c) ==
    IF kind[c] = "stream" /\ c \notin exited \cup stopping THEN "failed" ELSE "done"

\* The channel closes: after the exit, because it was asked to, or with the
\* connection.
ChannelCloses(c) ==
    /\ channel[c] = "open" /\ Wire(c, "closed") /\ Finish(c, ClosedAs(c))
    /\ UNCHANGED <<fixed, aborted, stopping, exited, deaf>>
-----------------------------------------------------------------------------
(* Timers and the signal.                                                  *)

\* Mutation: a call that is given up waits for its callback to give the slot back.
TimesOutHolding(c) ==
    /\ kind[c] \in Bounded /\ at[c] \in {"open", "run"}
    /\ MovesTo(c, "over") /\ told' = [told EXCEPT ![c] = "failed"] /\ UNCHANGED held
    /\ UNCHANGED <<fixed, channel, aborted, stopping, exited, deaf>>

\* operationTimeoutMs, or the command's own: the slot comes back, whatever the
\* remote side goes on doing.
TimesOut(c) ==
    /\ kind[c] \in Bounded /\ at[c] \in {"open", "run"} /\ Finish(c, "failed")
    /\ UNCHANGED <<fixed, channel, aborted, stopping, exited, deaf>>

\* The caller aborts; abort() runs where it is listened to.  The listener's own
\* `once`, and a deadline that fires it too, add nothing.
SignalAborts(c) ==
    /\ kind[c] = "stream" /\ c \notin aborted /\ aborted' = aborted \cup {c}
    /\ stopping' = IF at[c] = "run" THEN stopping \cup {c} ELSE stopping
    /\ deaf' = IF at[c] \in {"acquire", "open"} THEN deaf \cup {c} ELSE deaf
    /\ UNCHANGED <<fixed, at, held, channel, exited, told>>

\* A streamed command's own timeoutMs, where the caller gave one.
DeadlinePasses(c) ==
    /\ kind[c] = "stream" /\ at[c] = "run" /\ c \notin endless /\ stopping' = stopping \cup {c}
    /\ UNCHANGED <<fixed, at, held, channel, aborted, exited, told, deaf>>

\* Mutation: a cancelled command is waited for.
GraceForgotten(c) == FALSE /\ UNCHANGED sshVars

\* KILL_GRACE_MS after abort(): the lease is taken back anyway.
GracePasses(c) ==
    /\ c \in stopping /\ at[c] = "run" /\ Finish(c, "done")
    /\ UNCHANGED <<fixed, channel, aborted, stopping, exited, deaf>>

CallInit ==
    /\ kind \in [Commands -> CallKinds] /\ endless \in SUBSET {c \in Commands : kind[c] = "stream"}
    /\ at = [c \in Commands |-> "idle"] /\ held = {} /\ channel = [c \in Commands |-> "none"]
    /\ aborted = {} /\ stopping = {} /\ exited = {}
    /\ told = [c \in Commands |-> "none"] /\ deaf = {}

CallNext == \E c \in Commands :
    \/ CallBegins(c) \/ CallLeased(c) \/ CallUnleased(c)
    \/ SftpAnswers(c) \/ FileEnds(c) \/ ChannelOpens(c) \/ ChannelFails(c)
    \/ CommandExits(c) \/ ChannelCloses(c)
    \/ TimesOut(c) \/ SignalAborts(c) \/ DeadlinePasses(c) \/ GracePasses(c)

\* Timers fire; whoever reads a file ends it; a channel that is asked for is
\* answered or goes with its connection, and one that exited closes.  A command
\* that runs need not exit unless it is finite, and nobody need abort it.
CallMustGoOn(c) ==
    \/ TimesOut(c) \/ GracePasses(c) \/ FileEnds(c)
    \/ ChannelOpens(c) \/ ChannelFails(c)
    \/ c \notin endless /\ CommandExits(c)
    \/ c \in exited /\ ChannelCloses(c)

\* A call takes each of these at most once, so that one fairness is each's.
CallFair == WF_sshVars(\E c \in Commands : CallMustGoOn(c))

CallSpec == CallInit /\ [][CallNext]_sshVars /\ CallFair
-----------------------------------------------------------------------------
(* Properties.                                                             *)

CallTypeOK ==
    /\ kind \in [Commands -> CallKinds] /\ at \in [Commands -> {"idle", "acquire", "open", "run", "over"}]
    /\ Cardinality(held) <= Slots
    /\ channel \in [Commands -> {"none", "asked", "open", "closed"}]
    /\ told \in [Commands -> {"none", "done", "failed"}]
    /\ deaf \subseteq aborted /\ stopping \subseteq {c \in Commands : kind[c] = "stream"}

\* "Every call borrows a slot from the pool and returns it, including on
\* failure": a lease is held while its call is under way and no longer.
LeaseIsOfItsCall == \A c \in Commands : c \in held <=> at[c] \in {"open", "run"}

\* "Calling it success would hand the caller a truncated walk labelled
\* complete": a streamed command that is done has exited or was stopped.
DoneHasExited ==
    \A c \in Commands : kind[c] = "stream" /\ told[c] = "done" => c \in exited \cup stopping

\* "A leaked slot is indistinguishable from a hung host": every lease comes
\* back, but for a command that does not end and was not heard to be stopped.
LeasesComeBack ==
    \A c \in Commands : c \in held ~> c \notin held \/ (c \in endless /\ c \notin aborted \ deaf)

\* "`signal`: stops the command."
AbortStopsIt == \A c \in Commands : c \in aborted /\ at[c] = "run" ~> at[c] = "over"
=============================================================================
