------------------------------ MODULE UploadTray ------------------------------
(***************************************************************************)
(* One upload as the browser runs it: batch after batch, each sent until   *)
(* it is answered, with the pauses for the rate limit, the survey after a  *)
(* connection that died without an answer, and the row's ×.  The route is  *)
(* here as far as an answer tells: what it wrote, and under which policy.  *)
(***************************************************************************)
EXTENDS Naturals, Sequences, FiniteSets

CONSTANTS
    Batches,    \* pack(): the files of each request, in order
    Claimed,    \* the files with a claim, each alone in its batch
    Size,       \* blocks of a claimed file
    MaxRetries, \* MAX_RETRIES
    MaxWaits,   \* MAX_WAITS
    MaxDrops,   \* bound on connections that die
    MaxRefused  \* bound on refusals of a request or of a file

Files == UNION {Batches[b] : b \in DOMAIN Batches}

\* pack() puts each file in one batch.
ASSUME TrayAssumption ==
    /\ {Size, MaxRetries, MaxWaits, MaxDrops, MaxRefused} \subseteq Nat /\ Size > 0
    /\ Batches \in Seq(SUBSET Files)
    /\ \A b \in DOMAIN Batches : Batches[b] # {} /\ IsFiniteSet(Batches[b])
    /\ \A b, c \in DOMAIN Batches : b # c => Batches[b] \cap Batches[c] = {}
    /\ \A b \in DOMAIN Batches : Batches[b] \cap Claimed # {} => Cardinality(Batches[b]) = 1

VARIABLES
    row,     \* row[f]: the state of the file's row
    tray,    \* where start() stands, and the locals of its loop
    req,     \* the request on the wire: the parts to come and their outcomes
    host,    \* what the route answers with: the partial, and whether it may append
    place,   \* place[f]: what has the file's name there
    landed,  \* landed[f]: how many times the file was put there
    ghost,   \* a part whose bytes were all down when its connection died
    bad,     \* drops and refusals so far
    sentAt,  \* history: where start() stood when it was cancelled
    overtaken \* history: files a survey may have asked about too early

trayVars == <<row, tray, req, host, place, landed, ghost, bad, sentAt, overtaken>>

NoReq   == [on |-> FALSE, todo |-> {}, res |-> [f \in Files |-> "none"]]
Marked(fs, s) == [f \in Files |-> IF f \in fs THEN s ELSE row[f]]

\* The head of the for loop, once the rows are r.
Enter(r, b) ==
    IF b > Len(Batches)
    THEN row' = r /\ tray' = [tray EXCEPT !.at = "over"]
    ELSE /\ row' = [f \in Files |-> IF f \in Batches[b] THEN "sending" ELSE r[f]]
         /\ tray' = [at |-> IF Batches[b] \subseteq Claimed THEN "claim" ELSE "ready", batch |-> b,
                     pending |-> Batches[b], from |-> 0, waits |-> 0, retries |-> 0,
                     restart |-> FALSE, cancelled |-> FALSE, claim |-> FALSE, tell |-> "none"]

\* The head of the while loop: the offset is a question to the host.
Again(t) == [t EXCEPT !.at = IF t.claim THEN "offset" ELSE "ready"]

\* The loop gives this batch up, and goes on or not.
GiveUp(stop) ==
    IF stop THEN row' = Marked(tray.pending, "failed") /\ tray' = [tray EXCEPT !.at = "over"]
    ELSE Enter(Marked(tray.pending, "failed"), tray.batch + 1)
-----------------------------------------------------------------------------
(* start().                                                                *)

TrayStart ==
    /\ tray.at = "idle" /\ Enter(row, 1)
    /\ UNCHANGED <<req, host, place, landed, ghost, bad, sentAt, overtaken>>

\* claimFor: a digest, or none outside a secure context.
TrayClaim ==
    /\ tray.at = "claim"
    /\ \E digest \in BOOLEAN : tray' = Again([tray EXCEPT !.claim = digest])
    /\ UNCHANGED <<row, req, host, place, landed, ghost, bad, sentAt, overtaken>>

\* resumeOffset, zero when the host would not say; not asked after a refused
\* offset.
TrayOffset ==
    /\ tray.at = "offset"
    /\ \E n \in IF tray.restart THEN {0} ELSE {0, host.kept} :
          tray' = [tray EXCEPT !.at = "ready", !.from = n, !.restart = FALSE]
    /\ UNCHANGED <<row, req, host, place, landed, ghost, bad, sentAt, overtaken>>

\* uploadBatch.
TraySend ==
    /\ tray.at = "ready"
    /\ tray' = [tray EXCEPT !.at = "wire"]
    /\ req'  = [NoReq EXCEPT !.on = TRUE, !.todo = tray.pending]
    /\ UNCHANGED <<row, host, place, landed, ghost, bad, sentAt, overtaken>>
-----------------------------------------------------------------------------
(* The route.                                                              *)

Started == tray.at = "wire" /\ req.on
Answers(f, c) == req' = [req EXCEPT !.todo = @ \ {f}, !.res[f] = c]

\* settleName and rename: the name itself, or a copy beside it.
Lands(f) ==
    /\ landed' = [landed EXCEPT ![f] = @ + 1]
    /\ place'  = [place EXCEPT ![f] = IF @ = "none" \/ host.policy = "overwrite" THEN "ours" ELSE @]

\* One part is received; a resumed one must go on where the partial ends.
RoutePart(f) ==
    /\ Started /\ f \in req.todo
    /\ IF host.policy = "skip" /\ place[f] # "none"
       THEN Answers(f, "ESKIPPED") /\ UNCHANGED <<host, place, landed>>
       ELSE IF tray.claim /\ tray.from > 0 /\ (host.tee \/ tray.from # host.kept)
       THEN Answers(f, "ERESUME") /\ UNCHANGED <<host, place, landed>>
       ELSE /\ Answers(f, "ok") /\ Lands(f)
            /\ host' = IF tray.claim THEN [host EXCEPT !.kept = 0] ELSE host
    /\ UNCHANGED <<row, tray, ghost, bad, sentAt, overtaken>>

RouteRefuses(f) ==
    /\ Started /\ f \in req.todo /\ bad.refused < MaxRefused
    /\ bad' = [bad EXCEPT !.refused = @ + 1] /\ Answers(f, "refused")
    /\ UNCHANGED <<row, tray, host, place, landed, ghost, sentAt, overtaken>>

\* The connection dies: a part half-way is discarded, or kept when a claim can
\* find it; one that was down to its last byte may still be settled, and until
\* then a claim finds all of it.
WireDrops ==
    /\ Started /\ bad.drops < MaxDrops
    /\ bad' = [bad EXCEPT !.drops = @ + 1]
    /\ req' = NoReq /\ tray' = [tray EXCEPT !.at = "dropped"]
    /\ \/ UNCHANGED <<host, ghost>>
       \/ /\ ghost = {} /\ \E f \in req.todo : ghost' = {f}
          /\ tray.claim => tray.from = 0 \/ (~host.tee /\ tray.from = host.kept)
          /\ host' = IF tray.claim THEN [host EXCEPT !.kept = Size] ELSE host
       \/ /\ tray.claim /\ req.todo # {} /\ ~host.tee /\ tray.from \in {0, host.kept}
          /\ \E n \in tray.from .. Size - 1 : host' = [host EXCEPT !.kept = n]
          /\ UNCHANGED ghost
    /\ UNCHANGED <<row, place, landed, sentAt, overtaken>>

\* It is settled, unless a later attempt has taken its partial over.
GhostLands ==
    /\ \E f \in ghost :
        LET found == tray.claim /\ f \in tray.pending    \* its partial is the host's
        IN  /\ IF (host.policy = "skip" /\ place[f] # "none") \/ (found /\ host.kept = 0)
               THEN UNCHANGED <<place, landed>>
               ELSE Lands(f)
            /\ host' = IF found THEN [host EXCEPT !.kept = 0] ELSE host
    /\ ghost' = {}
    /\ UNCHANGED <<row, tray, req, bad, sentAt, overtaken>>

\* The whole request is refused before a part is read: the rate limit with a
\* delay, or another; or the disk is full, or the budget of the hour.
RouteRefusesAll ==
    /\ Started /\ req.todo = tray.pending /\ bad.refused < MaxRefused
    /\ bad' = [bad EXCEPT !.refused = @ + 1] /\ req' = NoReq
    /\ \E why \in {"rate", "other", "full"} : tray' = [tray EXCEPT !.at = "refused", !.tell = why]
    /\ UNCHANGED <<row, host, place, landed, ghost, sentAt, overtaken>>
-----------------------------------------------------------------------------
(* What start() makes of it.                                               *)

\* settle: a verdict for each row.
Verdicts(r) == [f \in Files |-> IF f \notin tray.pending THEN row[f]
                                ELSE IF r[f] \in {"ok", "ESKIPPED"} THEN "done" ELSE "failed"]

\* Mutation: a refused offset is no attempt, and the file goes on from there.
TrayAnsweredAsk ==
    /\ Started /\ req.todo = {} /\ req' = NoReq
    /\ IF \E f \in Files : req.res[f] = "ERESUME"
       THEN tray' = Again(tray) /\ UNCHANGED row
       ELSE Enter(Verdicts(req.res), tray.batch + 1)
    /\ UNCHANGED <<host, place, landed, ghost, bad, sentAt, overtaken>>

\* The answer: a refused offset sends the file again, from its start.
TrayAnswered ==
    /\ Started /\ req.todo = {} /\ req' = NoReq
    /\ IF tray.retries < MaxRetries /\ \E f \in Files : req.res[f] = "ERESUME"
       THEN /\ tray' = Again([tray EXCEPT !.retries = @ + 1, !.restart = TRUE])
            /\ UNCHANGED row
       ELSE Enter(Verdicts(req.res), tray.batch + 1)
    /\ UNCHANGED <<host, place, landed, ghost, bad, sentAt, overtaken>>

\* The catch, for a request that was refused: a limit that is still there after
\* the last wait, or a full disk, is the end of the upload and not of a batch.
TrayRefused ==
    /\ tray.at = "refused"
    /\ IF tray.tell = "rate" /\ tray.waits < MaxWaits
       THEN /\ tray' = [tray EXCEPT !.at = "pause", !.waits = @ + 1]
            /\ row'  = Marked(tray.pending, "waiting")
       ELSE GiveUp(tray.tell # "other")
    /\ UNCHANGED <<req, host, place, landed, ghost, bad, sentAt, overtaken>>

\* Mutation: all of the batch is sent again, whatever landed.
SurveyNot(there) ==
    /\ row'  = Marked(tray.pending, "waiting")
    /\ tray' = [tray EXCEPT !.at = "pause", !.retries = @ + 1]

\* landedOf: what has its name there is done, and the rest waits.
Survey(there) ==
    LET left == tray.pending \ there
        r    == Marked(tray.pending \cap there, "done")
    IN  IF left = {} THEN Enter(r, tray.batch + 1)
        ELSE /\ row'  = [f \in Files |-> IF f \in left THEN "waiting" ELSE r[f]]
             /\ tray' = [tray EXCEPT !.at = "pause", !.pending = left, !.retries = @ + 1]

\* The catch, for a connection that died: the survey may fail too, and is not
\* asked once the retries are spent.
TrayDropped ==
    /\ tray.at = "dropped"
    /\ \/ /\ tray.retries < MaxRetries /\ Survey({f \in Files : place[f] # "none"})
          /\ overtaken' = overtaken \cup ghost
       \/ GiveUp(FALSE) /\ UNCHANGED overtaken
    /\ UNCHANGED <<req, host, place, landed, ghost, bad, sentAt>>

\* Mutation: nobody looks whether the batch was cancelled.
TrayResumeAnyway ==
    /\ tray.at = "pause" /\ tray' = Again(tray)
    /\ UNCHANGED <<row, req, host, place, landed, ghost, bad, sentAt, overtaken>>

\* The pause is over.
TrayResume ==
    /\ tray.at = "pause"
    /\ IF tray.cancelled THEN GiveUp(TRUE) ELSE tray' = Again(tray) /\ UNCHANGED row
    /\ UNCHANGED <<req, host, place, landed, ghost, bad, sentAt, overtaken>>

\* The × of a row: `stop`, with whatever request there is.
TrayCancel ==
    /\ tray.at \in {"claim", "offset", "wire", "dropped", "pause"} /\ ~tray.cancelled
    /\ sentAt' = tray.at
    /\ IF Started
       THEN /\ req' = NoReq
            /\ row' = Marked(tray.pending, "failed")
            /\ tray' = [tray EXCEPT !.cancelled = TRUE, !.at = "over"]
       ELSE tray' = [tray EXCEPT !.cancelled = TRUE] /\ UNCHANGED <<row, req>>
    /\ UNCHANGED <<host, place, landed, ghost, bad, overtaken>>

TrayInit ==
    /\ row = [f \in Files |-> "new"]
    /\ tray = [at |-> "idle", batch |-> 0, pending |-> {}, from |-> 0, waits |-> 0, retries |-> 0,
               restart |-> FALSE, cancelled |-> FALSE, claim |-> FALSE, tell |-> "none"]
    /\ req = NoReq
    /\ host \in [policy : {"overwrite", "skip", "keepBoth"}, kept : 0 .. Size, tee : BOOLEAN]
    /\ place \in [Files -> {"none", "theirs"}] /\ landed = [f \in Files |-> 0]
    /\ ghost = {} /\ bad = [drops |-> 0, refused |-> 0] /\ sentAt = "" /\ overtaken = {}

TrayStep == \/ TrayClaim \/ TrayOffset \/ TraySend \/ (\E f \in Files : RoutePart(f))
            \/ TrayAnswered \/ TrayRefused \/ TrayDropped \/ TrayResume
TrayNext == \/ TrayStart \/ TrayStep \/ TrayCancel \/ WireDrops \/ RouteRefusesAll \/ GhostLands
            \/ \E f \in Files : RouteRefuses(f)

\* Every step of start() is the answer of an await: the host answers or its
\* connection dies, and a pause ends.
TrayFair == WF_trayVars(TrayStep)
TraySpec == TrayInit /\ [][TrayNext]_trayVars /\ TrayFair
-----------------------------------------------------------------------------
(* Properties.                                                             *)

TrayTypeOK ==
    /\ row \in [Files -> {"new", "sending", "waiting", "done", "failed"}]
    /\ tray.batch \in 0 .. Len(Batches) /\ tray.pending \subseteq Files
    /\ tray.from \in 0 .. Size /\ host.kept \in 0 .. Size
    /\ tray.retries \in 0 .. MaxRetries /\ tray.waits \in 0 .. MaxWaits
    /\ req.on <=> tray.at = "wire"
    /\ req.todo \subseteq tray.pending
    /\ tray.at = "over" => \A f \in Files : row[f] \notin {"sending", "waiting"}

\* A file is put there once however often its request had to be sent again,
\* unless the host was still settling it when the survey asked.
SentOnce == \A f \in Files \ overtaken : landed[f] <= 1

\* "Without this it would go back and send itself after the cancel": a cancel
\* that met a request or a pause is the end of it.
CancelledStaysOff ==
    [][~req.on /\ sentAt \in {"wire", "pause"} => ~req'.on]_trayVars

\* An upload that began is not over.  It does not wait for ever: every row of
\* it settles, whatever fails.
UploadWaits == tray.at \notin {"idle", "over"}
UploadEnds  == UploadWaits ~> ~UploadWaits
=============================================================================
