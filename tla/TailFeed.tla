------------------------------- MODULE TailFeed -------------------------------
(***************************************************************************)
(* One followed file as the strip shows it: useTail over an EventSource    *)
(* that reconnects by itself, and what the route may answer it with.  The  *)
(* lines of the file are numbers; the registry is here as far as an answer *)
(* tells, with what it is known to do to a stream that joins.              *)
(***************************************************************************)
EXTENDS Naturals, Sequences

CONSTANTS
    MaxEntries,  \* MAX_ENTRIES
    Backfill,    \* the lines a fresh source begins with
    MaxWritten,  \* bound on the lines of the file
    MaxLost,     \* bound on lost connections
    MaxAttempts, \* bound on the presses of retry
    MaxOnWire    \* bound on frames on their way

ASSUME TailFeedAssumption ==
    /\ {MaxEntries, MaxOnWire} \subseteq Nat \ {0}
    /\ {Backfill, MaxWritten, MaxLost, MaxAttempts} \subseteq Nat

VARIABLES
    entries, \* entries: the number of a line, or a marker
    status,
    link,    \* the EventSource: its state, and what is on its way
    sentTo,  \* the last line the route sent this client
    lastId,  \* the last id the browser saw, 0 for none
    met,     \* `connected`: a ready frame came before
    written, \* lines of the file
    diag,    \* attempts whose refusal is being asked about
    attempt, lost,
    skipped  \* history: lines after which a stream was resumed past others

feedVars == <<entries, status, link, sentTo, lastId, met, written, diag, attempt, lost, skipped>>

Markers == {"gap", "rotated", "restart"}
\* Mutation: the cap is on what is appended and not on the buffer.
CutNot(s) == s

Cut(s) == IF Len(s) > MaxEntries THEN SubSeq(s, Len(s) - MaxEntries + 1, Len(s)) ELSE s
NoLink     == [st |-> "closed", wire |-> <<>>]
IsLine(e) == e \notin {[marker |-> m] : m \in Markers}
Line(n)   == [line |-> n]
Marker(m) == [marker |-> m]
Frame(k, a, b) == [kind |-> k, from |-> a, to |-> b]
-----------------------------------------------------------------------------
(* The route and the network.                                              *)

FileGrows ==
    /\ written < MaxWritten /\ written' = written + 1
    /\ UNCHANGED <<entries, status, link, sentTo, lastId, met, diag, attempt, lost, skipped>>

\* What a request for the stream, the first or a reconnect, is answered with:
\* a source of its own that begins with the last lines; an entry with nothing to
\* replay, which goes on where the id says or, when the id is of an earlier
\* entry, where the file is; or a refusal, the answer of one that has to replay
\* among them.
RouteAnswers ==
    /\ link.st = "connecting"
    /\ \/ LET first == IF written > Backfill THEN written - Backfill ELSE 0 IN
          /\ link' = [st |-> "open", wire |-> <<Frame("ready", 0, 0)>>]
          /\ sentTo' = first /\ UNCHANGED skipped
       \/ /\ lastId > 0
          /\ link' = [st |-> "open", wire |-> <<Frame("resumed", 0, 0)>>]
          /\ sentTo' \in lastId .. written
          /\ skipped' = IF sentTo' > lastId THEN skipped \cup {lastId} ELSE skipped
       \/ link' = [st |-> "refused", wire |-> <<>>] /\ UNCHANGED <<sentTo, skipped>>
    /\ UNCHANGED <<entries, status, lastId, met, written, diag, attempt, lost>>

\* Lines, or the lines a slow client was not sent; a rotation; or a source
\* that fails for good.
RouteSends ==
    /\ link.st = "open" /\ Len(link.wire) < MaxOnWire
    /\ \E k \in {"lines", "gap"} :
        /\ sentTo < written
        /\ \E to \in sentTo + 1 .. written :
             link' = [link EXCEPT !.wire = Append(@, Frame(k, sentTo + 1, to))] /\ sentTo' = to
    /\ UNCHANGED <<entries, status, lastId, met, written, diag, attempt, lost, skipped>>

RouteNotes ==
    /\ link.st = "open" /\ Len(link.wire) < MaxOnWire
    /\ \E k \in {"rotated", "fatal"} : link' = [link EXCEPT !.wire = Append(@, Frame(k, 0, 0))]
    /\ UNCHANGED <<entries, status, sentTo, lastId, met, written, diag, attempt, lost, skipped>>

\* The connection is lost with what was on its way, and the browser will retry.
LinkLost ==
    /\ link.st = "open" /\ lost < MaxLost /\ lost' = lost + 1
    /\ link' = [st |-> "failed", wire |-> <<>>]
    /\ UNCHANGED <<entries, status, sentTo, lastId, met, written, diag, attempt, skipped>>
-----------------------------------------------------------------------------
(* useTail.                                                                *)

\* append.
Appended(added) == entries' = Cut(entries \o added)

Numbered(a, b) == [i \in 1 .. b - a + 1 |-> Line(a + i - 1)]

\* Mutation: what is on screen stays there when the stream starts again.
ReadyKept(resumed) ==
    /\ status' = "live" /\ met' = TRUE
    /\ entries' = IF met /\ ~resumed THEN Cut(Append(entries, Marker("restart"))) ELSE entries

\* The ready frame: the second and later tell of a reconnection, and one that
\* cannot carry on starts the buffer anew.
Ready(resumed) ==
    /\ status' = "live" /\ met' = TRUE
    /\ entries' = IF met /\ ~resumed THEN <<Marker("restart")>> ELSE entries

\* Mutation: a fatal error is a status, and the browser reconnects.
FatalReconnects ==
    /\ status' = "ended" /\ link' = [st |-> "failed", wire |-> <<>>] /\ UNCHANGED <<entries, lastId, met>>

\* A fatal error closes the stream, or the browser would reconnect.
Fatal == status' = "ended" /\ link' = NoLink /\ UNCHANGED <<entries, lastId, met>>

FeedHears ==
    /\ link.wire # <<>>
    /\ LET f == Head(link.wire)
           rest == [link EXCEPT !.wire = Tail(@)]
       IN  CASE f.kind \in {"ready", "resumed"} -> Ready(f.kind = "resumed") /\ link' = rest /\ UNCHANGED lastId
             [] f.kind = "lines" -> /\ Appended(Numbered(f.from, f.to)) /\ link' = rest /\ lastId' = f.to
                                    /\ UNCHANGED <<status, met>>
             [] f.kind \in Markers -> /\ Appended(<<Marker(f.kind)>>) /\ link' = rest
                                      /\ UNCHANGED <<status, lastId, met>>
             [] f.kind = "fatal" -> Fatal
    /\ UNCHANGED <<sentTo, written, diag, attempt, lost, skipped>>

\* onerror: the browser retries, or the connection failed and is asked about.
FeedErrs ==
    /\ \/ /\ link.st = "failed" /\ link' = [st |-> "connecting", wire |-> <<>>]
          /\ status' = IF status = "ended" THEN status ELSE "reconnecting"
          /\ UNCHANGED diag
       \/ /\ link.st = "refused" /\ link' = NoLink
          /\ status' = "ended" /\ diag' = diag \cup {attempt}
    /\ UNCHANGED <<entries, sentTo, lastId, met, written, attempt, lost, skipped>>

\* The answer of diagnoseTail says why, and changes nothing else.
FeedDiagnosed ==
    /\ \E a \in diag : diag' = diag \ {a}
    /\ UNCHANGED <<entries, status, link, sentTo, lastId, met, written, attempt, lost, skipped>>

\* Retry: the effect runs again, over a feed that is empty.
FeedRetries ==
    /\ status = "ended" /\ attempt < MaxAttempts /\ attempt' = attempt + 1
    /\ entries' = <<>> /\ status' = "connecting" /\ met' = FALSE /\ lastId' = 0
    /\ link' = [st |-> "connecting", wire |-> <<>>] /\ sentTo' = 0
    /\ UNCHANGED <<written, diag, lost, skipped>>

FeedInit ==
    /\ entries = <<>> /\ status = "connecting" /\ link = [st |-> "connecting", wire |-> <<>>]
    /\ sentTo = 0 /\ lastId = 0 /\ met = FALSE /\ written \in 0 .. MaxWritten
    /\ diag = {} /\ attempt = 0 /\ lost = 0 /\ skipped = {}

FeedNext == \/ FileGrows \/ RouteAnswers \/ RouteSends \/ RouteNotes \/ LinkLost
            \/ FeedHears \/ FeedErrs \/ FeedDiagnosed \/ FeedRetries

TailFeedSpec == FeedInit /\ [][FeedNext]_feedVars
-----------------------------------------------------------------------------
(* Properties.                                                             *)

FeedTypeOK ==
    /\ Len(entries) <= MaxEntries /\ status \in {"connecting", "live", "reconnecting", "ended"}
    /\ link.st \in {"connecting", "open", "failed", "refused", "closed"} /\ Len(link.wire) <= MaxOnWire
    /\ (link.st # "open" => link.wire = <<>>)
    /\ sentTo <= written /\ lastId <= written /\ diag \subseteq 0 .. attempt

\* "Where a gap fell is the entire information a gap carries": what the strip
\* shows is in the file's order with no line twice, and between two lines that
\* are next to each other none is missing, but for a stream the registry
\* resumed past them.
FeedReadsOn ==
    \A i, j \in DOMAIN entries :
        i < j /\ IsLine(entries[i]) /\ IsLine(entries[j]) =>
            /\ entries[i].line < entries[j].line
            /\ j = i + 1 /\ entries[i].line \notin skipped => entries[j].line = entries[i].line + 1

\* "Closing it here is what makes giving up mean it": a feed that ended stays as
\* it is until somebody retries it.
EndedIsEnd ==
    [][status = "ended" /\ attempt' = attempt => status' = "ended" /\ entries' = entries]_feedVars
=============================================================================
