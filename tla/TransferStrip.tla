---------------------------- MODULE TransferStrip ----------------------------
(***************************************************************************)
(* One job as the transfer strip of a page sees it: the list, polled and   *)
(* asked again on every news, the live feed laid over it, and the toast    *)
(* that says once how the job ended.  The queue is here as its row and the *)
(* frames it publishes; the feed replays nothing after a drop.             *)
(***************************************************************************)
EXTENDS Naturals, Sequences

CONSTANTS
    MaxRuns,   \* bound on the job's runs: the first, and the retries
    MaxFrames, \* bound on the frames that are on their way at once, the opening's among them
    MaxCuts    \* bound on drops of the feed

ASSUME StripAssumption == {MaxRuns, MaxFrames} \subseteq Nat \ {0} /\ MaxCuts \in Nat

VARIABLES
    job,       \* the row: its status, and which run of it that is
    owed,      \* an end that is written and not published yet
    feed,      \* the live feed: whether it is up, and what is on its way
    heard,     \* progress[id]: the last frame, or Silent
    list,      \* list.data: the row as it was last read, or Unread
    fetch,     \* the request for the list: off, asked, or answered with a row; shut with no page
    announced, \* whether the job is among the announced
    post,      \* what the page posted and was not answered for yet
    hidden,    \* dismissed
    cuts,
    told,      \* history: how many toasts or refreshes each run's end got
    before,    \* history: runs that had ended before the page was there
    early,     \* history: runs whose end was listed before their retry was answered
    missed     \* history: ends that were published to nobody, lost on the way, or not published

stripVars == <<job, owed, feed, heard, list, fetch, announced, post, hidden, cuts, told, before, early, missed>>

Runs   == 1 .. MaxRuns
Active == {"QUEUED", "RUNNING"}
Ended  == {"DONE", "FAILED", "CANCELLED"}
Silent == [run |-> 0, st |-> "none"]
Unread == [run |-> 0, st |-> "unread"]
NoJob  == [run |-> 0, st |-> "none"]
Idle   == [at |-> "off", row |-> NoJob]

\* merge: the feed's status wins over the list's.
Shown == IF heard = Silent THEN list.st ELSE heard.st
OnStrip == list \notin {Unread, NoJob} /\ ~hidden /\ (Shown \in Active \/ Shown = "FAILED")

\* invalidateQueries: a request under way is given up and made again, the very
\* first one excepted.
Invalidate == IF fetch.at # "off" /\ list = Unread THEN fetch ELSE [Idle EXCEPT !.at = "asked"]
-----------------------------------------------------------------------------
(* The queue.                                                              *)

\* A frame is written to whoever is connected.
Publish(f) == IF feed.up THEN [feed EXCEPT !.wire = Append(@, f)] ELSE feed
Room == ~feed.up \/ Len(feed.wire) < MaxFrames

JobQueued ==
    /\ job = NoJob /\ job' = [run |-> 1, st |-> "QUEUED"]
    /\ UNCHANGED <<owed, feed, heard, list, fetch, announced, post, hidden, cuts, told, before, early, missed>>

JobStarts ==
    /\ job.st = "QUEUED" /\ owed = NoJob /\ job' = [job EXCEPT !.st = "RUNNING"]
    /\ UNCHANGED <<owed, feed, heard, list, fetch, announced, post, hidden, cuts, told, before, early, missed>>

JobTicks ==
    /\ job.st = "RUNNING" /\ Room /\ feed.up /\ feed' = Publish(job)
    /\ UNCHANGED <<job, owed, heard, list, fetch, announced, post, hidden, cuts, told, before, early, missed>>

\* The outcome is written; the audit row is settled before it is published.
JobEnds ==
    /\ job.st = "RUNNING"
    /\ \E st \in Ended : job' = [job EXCEPT !.st = st] /\ owed' = job'
    /\ UNCHANGED <<feed, heard, list, fetch, announced, post, hidden, cuts, told, before, early, missed>>

JobPublished ==
    /\ owed # NoJob /\ Room /\ feed' = Publish(owed) /\ owed' = NoJob
    /\ missed' = IF feed.up THEN missed ELSE missed \cup {owed.run}
    /\ UNCHANGED <<job, heard, list, fetch, announced, post, hidden, cuts, told, before, early>>
-----------------------------------------------------------------------------
(* The feed.                                                               *)

\* EventSource connects, the first time and after a drop.
FeedConnects ==
    /\ fetch.at # "shut" /\ ~feed.up /\ feed' = [up |-> TRUE, wire |-> <<[run |-> 0, st |-> "open"]>>]
    /\ UNCHANGED <<job, owed, heard, list, fetch, announced, post, hidden, cuts, told, before, early, missed>>

\* What was on its way is lost with the connection.
FeedDrops ==
    /\ feed.up /\ cuts < MaxCuts /\ cuts' = cuts + 1
    /\ feed' = [up |-> FALSE, wire |-> <<>>]
    /\ missed' = missed \cup {r \in Runs : \E i \in DOMAIN feed.wire : feed.wire[i].run = r /\ feed.wire[i].st \in Ended}
    /\ UNCHANGED <<job, owed, heard, list, fetch, announced, post, hidden, told, before, early>>

\* Mutation: the last frame is forgotten when it is an end.
FeedHeardKeeps ==
    /\ feed.wire # <<>>
    /\ LET f == Head(feed.wire) IN
        /\ feed'  = [feed EXCEPT !.wire = Tail(@)]
        /\ heard' = IF f.st \in Active THEN f ELSE heard
        /\ fetch' = IF f.st \in Active THEN fetch ELSE Invalidate
    /\ UNCHANGED <<job, owed, list, announced, post, hidden, cuts, told, before, early, missed>>

\* onopen and onmessage: both ask the list again, a frame only when it is an end.
FeedHeard ==
    /\ feed.wire # <<>>
    /\ LET f == Head(feed.wire) IN
        /\ feed'  = [feed EXCEPT !.wire = Tail(@)]
        /\ heard' = IF f.st = "open" THEN heard ELSE f
        /\ fetch' = IF f.st \in Active THEN fetch ELSE Invalidate
    /\ UNCHANGED <<job, owed, list, announced, post, hidden, cuts, told, before, early, missed>>
-----------------------------------------------------------------------------
(* The list.                                                               *)

\* The page is loaded, at any time in the life of the job.
StripMounts ==
    /\ fetch.at = "shut" /\ fetch' = Idle
    /\ UNCHANGED <<job, owed, feed, heard, list, announced, post, hidden, cuts, told, before, early, missed>>

\* On load, and every POLL_MS.
ListPolled ==
    /\ fetch.at = "off" /\ fetch' = [Idle EXCEPT !.at = "asked"]
    /\ UNCHANGED <<job, owed, feed, heard, list, announced, post, hidden, cuts, told, before, early, missed>>

ListRead ==
    /\ fetch.at = "asked" /\ fetch' = [at |-> "read", row |-> job]
    /\ UNCHANGED <<job, owed, feed, heard, list, announced, post, hidden, cuts, told, before, early, missed>>

\* Mutation: the first list is news like any other.
UnprimedEffect(row) ==
    /\ announced' = (announced \/ row.st \in Ended)
    /\ told' = IF row.st \in Ended /\ ~announced THEN [told EXCEPT ![row.run] = @ + 1] ELSE told
    /\ UNCHANGED <<before, early>>

\* The effect on list.data.  What the first list holds finished is history.
Effect(row) ==
    /\ announced' = (announced \/ row.st \in Ended)
    /\ told' = IF list # Unread /\ row.st \in Ended /\ ~announced
               THEN [told EXCEPT ![row.run] = @ + 1] ELSE told
    /\ before' = IF list # Unread THEN before ELSE 1 .. (IF row.st \in Ended THEN row.run ELSE row.run - 1)
    /\ early'  = IF list # Unread /\ row.st \in Ended /\ post = "retried" /\ row.run = job.run
                THEN early \cup {row.run} ELSE early

\* The answer arrives; the effect runs when the data differs, in this row or in
\* another's.
ListAnswered ==
    /\ fetch.at = "read" /\ fetch' = Idle /\ list' = fetch.row
    /\ \/ Effect(fetch.row)
       \/ list = fetch.row /\ UNCHANGED <<announced, told, before, early, missed>>
    /\ UNCHANGED <<job, owed, feed, heard, post, hidden, cuts, missed>>
-----------------------------------------------------------------------------
(* The row's buttons.                                                      *)

\* again.mutate, on a row that shows FAILED; the queue takes a job that failed.
StripRetries ==
    /\ post = "none" /\ OnStrip /\ Shown = "FAILED"
    /\ IF job.st = "FAILED" /\ job.run < MaxRuns
       THEN job' = [run |-> job.run + 1, st |-> "QUEUED"] /\ post' = "retried"
       ELSE post' = "refused" /\ UNCHANGED job
    /\ UNCHANGED <<owed, feed, heard, list, fetch, announced, hidden, cuts, told, before, early, missed>>

\* onSuccess of either button.
StripAnswered ==
    /\ post \in {"retried", "cancelled"} /\ post' = "none"
    /\ announced' = (announced /\ post # "retried")
    /\ fetch' = Invalidate
    /\ UNCHANGED <<job, owed, feed, heard, list, hidden, cuts, told, before, early, missed>>

\* onError: a toast.
StripRefused ==
    /\ post = "refused" /\ post' = "none"
    /\ UNCHANGED <<job, owed, feed, heard, list, fetch, announced, hidden, cuts, told, before, early, missed>>

\* stop.mutate: a waiting job is cancelled and nothing published, a running one
\* ends in its own time.
StripCancels ==
    /\ post = "none" /\ OnStrip /\ Shown \in Active
    /\ CASE job.st = "QUEUED"  -> /\ job' = [job EXCEPT !.st = "CANCELLED"] /\ post' = "cancelled"
                                  /\ missed' = missed \cup {job.run} /\ UNCHANGED owed
         [] job.st = "RUNNING" -> /\ job' = [job EXCEPT !.st = "CANCELLED"] /\ post' = "cancelled"
                                  /\ owed' = job' /\ UNCHANGED missed
         [] OTHER -> post' = "refused" /\ UNCHANGED <<job, owed, missed>>
    /\ UNCHANGED <<feed, heard, list, fetch, announced, hidden, cuts, told, before, early>>

StripDismisses ==
    /\ OnStrip /\ Shown = "FAILED" /\ hidden' = TRUE
    /\ UNCHANGED <<job, owed, feed, heard, list, fetch, announced, post, cuts, told, before, early, missed>>
-----------------------------------------------------------------------------
StripInit ==
    /\ job = NoJob
    /\ owed = NoJob /\ feed = [up |-> FALSE, wire |-> <<>>]
    /\ heard = Silent /\ list = Unread /\ fetch = [Idle EXCEPT !.at = "shut"] /\ announced = FALSE
    /\ post = "none" /\ hidden = FALSE /\ cuts = 0
    /\ told = [r \in Runs |-> 0] /\ before = {} /\ early = {} /\ missed = {}

StripNext ==
    \/ JobQueued \/ JobStarts \/ JobTicks \/ JobEnds \/ JobPublished
    \/ FeedConnects \/ FeedDrops \/ FeedHeard
    \/ StripMounts \/ ListPolled \/ ListRead \/ ListAnswered
    \/ StripRetries \/ StripAnswered \/ StripRefused \/ StripCancels \/ StripDismisses

\* The poll is a timer of the page and asks whether or not the feed is up, the
\* API answers what is asked of it, and the browser hands over what arrives.
StripFair == /\ WF_stripVars(ListPolled) /\ WF_stripVars(ListRead) /\ WF_stripVars(ListAnswered)
             /\ WF_stripVars(StripAnswered) /\ WF_stripVars(FeedHeard)
StripSpec == StripInit /\ [][StripNext]_stripVars /\ StripFair
-----------------------------------------------------------------------------
(* Properties.                                                             *)

StripTypeOK ==
    /\ job.run \in 0 .. MaxRuns /\ job.st \in Active \cup Ended \cup {"none"}
    /\ Len(feed.wire) <= MaxFrames /\ (~feed.up => feed.wire = <<>>)
    /\ heard.run <= job.run /\ list.run <= job.run /\ fetch.row.run <= job.run
    /\ fetch.at \in {"shut", "off", "asked", "read"} /\ post \in {"none", "retried", "cancelled", "refused"}
    /\ announced \in BOOLEAN /\ hidden \in BOOLEAN

\* "A completion toast fires once and not per tick", and never for what ended
\* before the page was there: unless the list had a retry's end before the
\* retry was answered.
ToldOnce ==
    \A r \in Runs : told[r] <= IF r \in before THEN 0 ELSE IF r \in early THEN 2 ELSE 1

\* An end the page is there for was not told.  The floor under the feed: it is,
\* whatever the feed loses, unless the job is run again first.
EndUntold ==
    /\ job.st \in Ended /\ fetch.at # "shut"
    /\ told[job.run] = 0 /\ job.run \notin before \cup early
EndsAreTold == EndUntold ~> ~EndUntold

\* "What stops a job that finished during a dropped connection from sitting at
\* 60% for ever": once the list has the end and the feed has said what it will,
\* no row is still going, unless the end was not on the feed to be heard.
FinishedLeaves ==
    job.st \in Ended /\ owed = NoJob /\ list = job /\ feed.wire = <<>> /\ job.run \notin missed
       => ~(OnStrip /\ Shown \in Active)
=============================================================================
