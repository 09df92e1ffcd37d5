----------------------------- MODULE FrontProofs -----------------------------
(* Theorems about what a page is told: UploadTray, for any batches, claims *)
(* and refusals; TransferStrip, for any runs and drops of the feed;        *)
(* TailFeed and SizesFeed, for any cuts, rotations and walks; and, with    *)
(* those of PageProofs, what follows for MCFront.                          *)
EXTENDS MCFront, PageProofs, FiniteSetTheorems, SequenceTheorems, WellFoundedInduction, TLAPS

-----------------------------------------------------------------------------
(* The upload tray.                                                        *)

Ats     == {"idle", "claim", "offset", "ready", "wire", "dropped", "refused", "pause", "over"}
RowIs   == {"new", "sending", "waiting", "done", "failed"}
Results == {"none", "ok", "ESKIPPED", "ERESUME", "refused"}
PlaceIs  == {"none", "theirs", "ours"}

Loops == [at : Ats, batch : 0 .. Len(Batches), pending : SUBSET Files, from : 0 .. Size, waits : 0 .. MaxWaits,
          retries : 0 .. MaxRetries, restart : BOOLEAN, cancelled : BOOLEAN, claim : BOOLEAN,
          tell : {"none", "rate", "other", "full"}]

TrayData ==
    /\ row \in [Files -> RowIs] /\ tray \in Loops
    /\ req \in [on : BOOLEAN, todo : SUBSET Files, res : [Files -> Results]]
    /\ host \in [policy : {"overwrite", "skip", "keepBoth"}, kept : 0 .. Size, tee : BOOLEAN]
    /\ place \in [Files -> PlaceIs] /\ landed \in [Files -> Nat] /\ ghost \subseteq Files
    /\ bad \in [drops : Nat, refused : Nat]
    /\ req.on <=> tray.at = "wire"
    /\ req.todo \subseteq tray.pending /\ (tray.at # "wire" => req = NoReq)

\* What is pending is of the batch, and a batch with a claim is one file.
TrayBatch ==
    /\ tray.claim \/ tray.at = "claim" => \A f, g \in tray.pending : f = g
    /\ tray.at = "idle" => tray.batch = 0
    /\ \A f \in tray.pending : tray.batch \in DOMAIN Batches /\ f \in Batches[tray.batch]

\* What the files of the batch came to, wherever start() stands: before a
\* request none has landed, on the wire those that are still to come have not,
\* nor one whose offset was refused.
TraySent ==
    /\ tray.at \in {"claim", "offset", "ready", "refused", "pause"} =>
          \A f \in tray.pending \ overtaken : landed[f] = 0 /\ f \notin ghost
    /\ tray.at = "wire" =>
          /\ \A f \in tray.pending \ overtaken : f \notin ghost /\ (f \in req.todo => landed[f] = 0)
          /\ \A f \in Files : req.res[f] = "ERESUME" =>
                tray.claim /\ f \in tray.pending /\ (f \in overtaken \/ landed[f] = 0)

\* What has landed has its name; what may still land has not; and nothing of a
\* batch to come has, or may.
TrayLanded ==
    /\ \A f \in Files \ overtaken : landed[f] <= 1 /\ (f \in ghost => landed[f] = 0)
    /\ \A f \in Files : landed[f] > 0 => place[f] # "none"
    /\ \A b \in DOMAIN Batches : b > tray.batch => \A f \in Batches[b] : landed[f] = 0 /\ f \notin ghost

TrayInv == TrayData /\ TrayBatch /\ TraySent /\ TrayLanded

LEMMA BatchesAre ==
    /\ Len(Batches) \in Nat /\ DOMAIN Batches = 1 .. Len(Batches)
    /\ \A b \in DOMAIN Batches : Batches[b] \subseteq Files
    /\ \A b \in DOMAIN Batches : Batches[b] \subseteq Claimed => \A f, g \in Batches[b] : f = g
<1>1. Len(Batches) \in Nat /\ DOMAIN Batches = 1 .. Len(Batches)
    BY TrayAssumption
<1>2. ASSUME NEW b \in DOMAIN Batches PROVE Batches[b] \subseteq Files
    BY DEF Files
<1>3. ASSUME NEW b \in DOMAIN Batches, Batches[b] \subseteq Claimed PROVE \A f, g \in Batches[b] : f = g
    <2>1. IsFiniteSet(Batches[b]) /\ Cardinality(Batches[b]) = 1
        BY <1>3, TrayAssumption
    <2>2. PICK x : Batches[b] = {x}
        BY <2>1, FS_Singleton
    <2>3. QED
        BY <2>2
<1>4. QED
    BY <1>1, <1>2, <1>3

LEMMA TrayBegins == TrayInit => TrayInv
<1> SUFFICES ASSUME TrayInit PROVE TrayInv
    OBVIOUS
<1>1. NoReq = [on |-> FALSE, todo |-> {}, res |-> [f \in Files |-> "none"]]
    BY DEF NoReq
<1>2. tray \in Loops /\ tray.at = "idle" /\ tray.batch = 0 /\ tray.pending = {} /\ tray.claim = FALSE
    <2>1. tray = [at |-> "idle", batch |-> 0, pending |-> {}, from |-> 0, waits |-> 0, retries |-> 0,
                  restart |-> FALSE, cancelled |-> FALSE, claim |-> FALSE, tell |-> "none"]
        BY DEF TrayInit
    <2>2. 0 \in 0 .. Len(Batches) /\ 0 \in 0 .. Size /\ 0 \in 0 .. MaxWaits /\ 0 \in 0 .. MaxRetries
        BY BatchesAre, TrayAssumption
    <2>3. QED
        BY <2>1, <2>2 DEF Loops, Ats
<1>3. TrayData
    BY <1>1, <1>2 DEF TrayInit, TrayData, RowIs, Results, PlaceIs
<1>4. TrayBatch /\ TraySent
    BY <1>2 DEF TrayBatch, TraySent
<1>5. TrayLanded
    <2>1. landed = [f \in Files |-> 0] /\ ghost = {}
        BY DEF TrayInit
    <2>2. \A f \in Files : landed[f] = 0 /\ f \notin ghost
        BY <2>1
    <2>3. QED
        BY <2>2, BatchesAre DEF TrayLanded
<1>6. QED
    BY <1>3, <1>4, <1>5 DEF TrayInv

\* The next batch begins with nothing of it landed, or there is none.
LEMMA Entering ==
    ASSUME TrayInv, NEW r \in [Files -> RowIs], Enter(r, tray.batch + 1), req' = NoReq,
           overtaken \subseteq overtaken', UNCHANGED <<host, place, landed, ghost, bad>>
    PROVE  TrayInv'
<1> DEFINE b == tray.batch + 1
<1>1. tray \in Loops /\ tray.batch \in Nat /\ NoReq = [on |-> FALSE, todo |-> {}, res |-> [f \in Files |-> "none"]]
    BY BatchesAre DEF TrayInv, TrayData, Loops, NoReq
<1>2. \A f \in Files \ overtaken' : landed'[f] <= 1 /\ (f \in ghost' => landed'[f] = 0)
    BY DEF TrayInv, TrayLanded
<1>3. \A f \in Files : landed'[f] > 0 => place'[f] # "none"
    BY DEF TrayInv, TrayLanded
<1>4. CASE b > Len(Batches)
    <2>1. row' = r /\ tray' = [tray EXCEPT !.at = "over"]
        BY <1>4 DEF Enter
    <2>2. tray' \in Loops /\ tray'.at = "over" /\ tray'.batch = tray.batch /\ tray'.claim = tray.claim
          /\ tray'.pending = tray.pending
        BY <2>1, <1>1 DEF Loops, Ats
    <2>3. TrayData'
        BY <2>1, <2>2, <1>1 DEF TrayInv, TrayData, Results
    <2>4. TrayBatch' /\ TraySent'
        BY <2>2 DEF TrayInv, TrayBatch, TraySent
    <2>5. TrayLanded'
        BY <1>2, <1>3, <2>2 DEF TrayInv, TrayLanded
    <2>6. QED
        BY <2>3, <2>4, <2>5 DEF TrayInv
<1>5. CASE ~(b > Len(Batches))
    <2>1. b \in DOMAIN Batches /\ Batches[b] \subseteq Files
        BY <1>5, <1>1, BatchesAre
    <2>2. /\ row' = [f \in Files |-> IF f \in Batches[b] THEN "sending" ELSE r[f]]
          /\ tray' = [at |-> IF Batches[b] \subseteq Claimed THEN "claim" ELSE "ready", batch |-> b,
                      pending |-> Batches[b], from |-> 0, waits |-> 0, retries |-> 0,
                      restart |-> FALSE, cancelled |-> FALSE, claim |-> FALSE, tell |-> "none"]
        BY <1>5 DEF Enter
    <2>3. tray' \in Loops
        BY <2>1, <2>2, BatchesAre, TrayAssumption DEF Loops, Ats
    <2>4. /\ tray'.at \in {"claim", "ready"} /\ tray'.batch = b /\ tray'.pending = Batches[b] /\ tray'.claim = FALSE
          /\ tray'.at = "claim" => Batches[b] \subseteq Claimed
        BY <2>2
    <2>5. TrayData'
        <3>1. row' \in [Files -> RowIs]
            BY <2>2 DEF RowIs
        <3>2. QED
            BY <3>1, <2>3, <2>4, <1>1 DEF TrayInv, TrayData, Results
    <2>6. TrayBatch'
        BY <2>1, <2>4, BatchesAre DEF TrayBatch
    <2>7. b > tray.batch /\ \A c \in DOMAIN Batches : c > b => c > tray.batch
        BY <1>1, BatchesAre
    <2>8. TraySent'
        BY <2>1, <2>4, <2>7 DEF TrayInv, TrayLanded, TraySent
    <2>9. TrayLanded'
        BY <1>2, <1>3, <2>4, <2>7 DEF TrayInv, TrayLanded
    <2>10. QED
        BY <2>5, <2>6, <2>8, <2>9 DEF TrayInv
<1>6. QED
    BY <1>4, <1>5

\* A step of start() within a batch, off the wire, that leaves the same files
\* pending, or fewer, of which none has landed.
LEMMA Turning ==
    ASSUME TrayInv, tray' \in Loops, row' \in [Files -> RowIs], tray'.at \notin {"wire", "idle"},
           tray'.batch = tray.batch, tray'.pending \subseteq tray.pending,
           tray'.claim \/ tray'.at = "claim" => \A f, g \in tray'.pending : f = g,
           tray'.at \in {"claim", "offset", "ready", "refused", "pause"} =>
               \A f \in tray'.pending \ overtaken' : landed[f] = 0 /\ f \notin ghost,
           req' = NoReq, overtaken \subseteq overtaken', bad' \in [drops : Nat, refused : Nat],
           UNCHANGED <<host, place, landed, ghost>>
    PROVE  TrayInv'
<1>1. NoReq = [on |-> FALSE, todo |-> {}, res |-> [f \in Files |-> "none"]]
    BY DEF NoReq
<1>2. TrayData'
    BY <1>1 DEF TrayInv, TrayData, Results
<1>3. TrayBatch' /\ TraySent'
    BY DEF TrayInv, TrayBatch, TraySent
<1>4. TrayLanded'
    BY DEF TrayInv, TrayLanded
<1>5. QED
    BY <1>2, <1>3, <1>4 DEF TrayInv

\* Within a batch: the question to the host, or the request.
LEMMA Looping ==
    ASSUME NEW t \in Loops
    PROVE  /\ Again(t) \in Loops /\ Again(t).at = (IF t.claim THEN "offset" ELSE "ready")
           /\ Again(t).batch = t.batch /\ Again(t).pending = t.pending /\ Again(t).claim = t.claim
           /\ Again(t).at \in {"offset", "ready"}
<1>1. PICK a \in {"offset", "ready"} : Again(t) = [t EXCEPT !.at = a] /\ a = (IF t.claim THEN "offset" ELSE "ready")
    BY DEF Again
<1>2. QED
    BY <1>1 DEF Loops, Ats

LEMMA MarkedRows ==
    ASSUME row \in [Files -> RowIs], NEW fs, NEW s \in RowIs PROVE Marked(fs, s) \in [Files -> RowIs]
BY DEF Marked

LEMMA GivingUp ==
    ASSUME TrayInv, NEW stop, GiveUp(stop), req' = NoReq, overtaken \subseteq overtaken',
           UNCHANGED <<host, place, landed, ghost, bad>>
    PROVE  TrayInv'
<1>1. Marked(tray.pending, "failed") \in [Files -> RowIs]
    BY MarkedRows DEF TrayInv, TrayData, RowIs
<1>2. CASE stop
    <2>1. row' = Marked(tray.pending, "failed") /\ tray' = [tray EXCEPT !.at = "over"]
        BY <1>2 DEF GiveUp
    <2>2. /\ tray' \in Loops /\ tray'.at = "over" /\ tray'.batch = tray.batch /\ tray'.pending = tray.pending
          /\ tray'.claim = tray.claim
        BY <2>1 DEF TrayInv, TrayData, Loops, Ats
    <2>3. QED
        BY <1>1, <2>1, <2>2, Turning DEF TrayInv, TrayData, TrayBatch
<1>3. CASE ~stop
    BY <1>1, <1>3, Entering DEF GiveUp
<1>4. QED
    BY <1>2, <1>3

LEMMA StartKeeps ==
    ASSUME TrayInv, TrayStart \/ TrayClaim \/ TrayOffset \/ TraySend PROVE TrayInv'
<1>1. CASE TrayStart
    <2>1. Enter(row, tray.batch + 1) /\ req' = NoReq
        BY <1>1 DEF TrayStart, TrayInv, TrayBatch, TrayData
    <2>2. QED
        BY <1>1, <2>1, Entering DEF TrayStart, TrayInv, TrayData
<1>2. CASE TrayClaim
    <2>1. PICK digest \in BOOLEAN : tray' = Again([tray EXCEPT !.claim = digest])
        BY <1>2 DEF TrayClaim
    <2>2. [tray EXCEPT !.claim = digest] \in Loops
        BY DEF TrayInv, TrayData, Loops
    <2>3. /\ tray' \in Loops /\ tray'.at \in {"offset", "ready"} /\ tray'.batch = tray.batch
          /\ tray'.pending = tray.pending
        BY <2>1, <2>2, Looping DEF TrayInv, TrayData, Loops
    <2>4. \A f, g \in tray.pending : f = g
        BY <1>2 DEF TrayClaim, TrayInv, TrayBatch
    <2>5. \A f \in tray.pending \ overtaken : landed[f] = 0 /\ f \notin ghost
        BY <1>2 DEF TrayClaim, TrayInv, TraySent
    <2>6. req' = NoReq /\ UNCHANGED <<row, host, place, landed, ghost, bad, overtaken>>
        BY <1>2 DEF TrayClaim, TrayInv, TrayData
    <2>7. QED
        BY <2>3, <2>4, <2>5, <2>6, Turning DEF TrayInv, TrayData
<1>3. CASE TrayOffset
    <2>1. PICK n \in 0 .. Size : tray' = [tray EXCEPT !.at = "ready", !.from = n, !.restart = FALSE]
        <3>1. 0 \in 0 .. Size /\ host.kept \in 0 .. Size
            BY TrayAssumption DEF TrayInv, TrayData
        <3>2. QED
            BY <1>3, <3>1 DEF TrayOffset
    <2>2. /\ tray' \in Loops /\ tray'.at = "ready" /\ tray'.batch = tray.batch
          /\ tray'.pending = tray.pending /\ tray'.claim = tray.claim
        BY <2>1 DEF TrayInv, TrayData, Loops, Ats
    <2>3. \A f \in tray.pending \ overtaken : landed[f] = 0 /\ f \notin ghost
        BY <1>3 DEF TrayOffset, TrayInv, TraySent
    <2>4. req' = NoReq /\ UNCHANGED <<row, host, place, landed, ghost, bad, overtaken>>
        BY <1>3 DEF TrayOffset, TrayInv, TrayData
    <2>5. QED
        BY <2>2, <2>3, <2>4, Turning DEF TrayInv, TrayData, TrayBatch
<1>4. CASE TraySend
    <2>1. /\ tray' \in Loops /\ tray'.at = "wire" /\ tray'.batch = tray.batch
          /\ tray'.pending = tray.pending /\ tray'.claim = tray.claim
        BY <1>4 DEF TraySend, TrayInv, TrayData, Loops, Ats
    <2>2. /\ req' \in [on : BOOLEAN, todo : SUBSET Files, res : [Files -> Results]]
          /\ req'.on = TRUE /\ req'.todo = tray.pending /\ \A f \in Files : req'.res[f] = "none"
        BY <1>4 DEF TraySend, NoReq, TrayInv, TrayData, Loops, Results
    <2>3. UNCHANGED <<row, host, place, landed, ghost, bad, overtaken>>
        BY <1>4 DEF TraySend
    <2>4. TrayData' /\ TrayBatch' /\ TrayLanded'
        BY <2>1, <2>2, <2>3 DEF TrayInv, TrayData, TrayBatch, TrayLanded
    <2>5. TraySent'
        BY <1>4, <2>1, <2>2, <2>3 DEF TraySend, TrayInv, TraySent
    <2>6. QED
        BY <2>4, <2>5 DEF TrayInv
<1>5. QED
    BY <1>1, <1>2, <1>3, <1>4

\* A file is put there: it has its name from then on.
LEMMA LandingOnce ==
    ASSUME TrayInv, NEW f \in Files, Lands(f)
    PROVE  /\ landed' = [landed EXCEPT ![f] = @ + 1] /\ landed' \in [Files -> Nat]
           /\ place' \in [Files -> PlaceIs] /\ place'[f] # "none"
           /\ \A g \in Files : (place[g] # "none" => place'[g] # "none") /\ (g # f => landed'[g] = landed[g])
           /\ landed'[f] = landed[f] + 1
BY DEF Lands, TrayInv, TrayData, PlaceIs

LEMMA PartKeeps ==
    ASSUME TrayInv, NEW f \in Files, RoutePart(f) \/ RouteRefuses(f) PROVE TrayInv'
<1>1. tray.at = "wire" /\ req.on = TRUE /\ f \in req.todo /\ f \in tray.pending
    BY DEF RoutePart, RouteRefuses, Started, TrayInv, TrayData
<1>2. UNCHANGED <<row, tray, ghost, overtaken>>
    BY DEF RoutePart, RouteRefuses
<1>3. PICK c \in Results \ {"none"} :
          /\ Answers(f, c) /\ (c = "ERESUME" => tray.claim /\ UNCHANGED landed)
          /\ \/ UNCHANGED <<place, landed>>
             \/ Lands(f)
    BY DEF RoutePart, RouteRefuses, Results
<1>4. /\ host' \in [policy : {"overwrite", "skip", "keepBoth"}, kept : 0 .. Size, tee : BOOLEAN]
      /\ bad' \in [drops : Nat, refused : Nat]
    <2>1. host' \in {host, [host EXCEPT !.kept = 0]} /\ bad' \in {bad, [bad EXCEPT !.refused = @ + 1]}
        BY DEF RoutePart, RouteRefuses
    <2>2. 0 \in 0 .. Size
        BY TrayAssumption
    <2>3. QED
        BY <2>1, <2>2 DEF TrayInv, TrayData
<1>5. /\ req' \in [on : BOOLEAN, todo : SUBSET Files, res : [Files -> Results]]
      /\ req'.on = TRUE /\ req'.todo = req.todo \ {f} /\ req'.res[f] = c
      /\ \A g \in Files : g # f => req'.res[g] = req.res[g]
    BY <1>1, <1>3 DEF Answers, TrayInv, TrayData
<1>6. /\ landed' \in [Files -> Nat] /\ place' \in [Files -> PlaceIs]
      /\ \A g \in Files : (place[g] # "none" => place'[g] # "none") /\ (g # f => landed'[g] = landed[g])
      /\ landed'[f] = landed[f] \/ (landed'[f] = landed[f] + 1 /\ place'[f] # "none")
    BY <1>3, LandingOnce DEF TrayInv, TrayData
<1>7. TrayData'
    BY <1>1, <1>2, <1>4, <1>5, <1>6 DEF TrayInv, TrayData
<1>8. TrayBatch'
    BY <1>2 DEF TrayInv, TrayBatch
<1>9. f \in overtaken \/ (f \notin ghost /\ landed[f] = 0)
    BY <1>1 DEF TrayInv, TraySent
<1>10. TraySent'
    <2>1. ASSUME NEW g \in tray.pending \ overtaken PROVE g \notin ghost /\ (g \in req'.todo => landed'[g] = 0)
        <3>1. g \notin ghost /\ (g \in req.todo => landed[g] = 0)
            BY <1>1 DEF TrayInv, TraySent
        <3>2. g \in Files
            BY DEF TrayInv, TrayData, Loops
        <3>3. QED
            BY <3>1, <3>2, <1>5, <1>6
    <2>2. ASSUME NEW g \in Files, req'.res[g] = "ERESUME"
          PROVE  tray.claim /\ g \in tray.pending /\ (g \in overtaken \/ landed'[g] = 0)
        <3>1. CASE g = f
            BY <3>1, <2>2, <1>1, <1>3, <1>5, <1>9
        <3>2. CASE g # f
            BY <3>2, <2>2, <1>1, <1>5, <1>6 DEF TrayInv, TraySent
        <3>3. QED
            BY <3>1, <3>2
    <2>3. QED
        BY <1>1, <1>2, <2>1, <2>2 DEF TraySent
<1>11. TrayLanded'
    <2>1. \A g \in Files \ overtaken : landed'[g] <= 1 /\ (g \in ghost => landed'[g] = 0)
        BY <1>6, <1>9 DEF TrayInv, TrayLanded
    <2>2. \A g \in Files : landed'[g] > 0 => place'[g] # "none"
        BY <1>6 DEF TrayInv, TrayLanded
    <2>3. ASSUME NEW b \in DOMAIN Batches, b > tray.batch, NEW g \in Batches[b]
          PROVE  landed'[g] = 0 /\ g \notin ghost
        <3>1. landed[g] = 0 /\ g \notin ghost /\ g \in Files
            BY <2>3, BatchesAre DEF TrayInv, TrayLanded
        <3>2. g # f
            <4>1. tray.batch \in DOMAIN Batches /\ f \in Batches[tray.batch]
                BY <1>1 DEF TrayInv, TrayBatch
            <4>2. b # tray.batch
                BY <4>1, <2>3, BatchesAre
            <4>3. QED
                BY <4>1, <4>2, TrayAssumption
        <3>3. QED
            BY <3>1, <3>2, <1>6
    <2>4. QED
        BY <1>2, <2>1, <2>2, <2>3 DEF TrayLanded
<1>12. QED
    BY <1>7, <1>8, <1>10, <1>11 DEF TrayInv

\* The connection dies with nothing of what it left half-way landed.
LEMMA DropKeeps ==
    ASSUME TrayInv, WireDrops PROVE TrayInv'
<1>1. /\ tray.at = "wire" /\ req' = NoReq /\ tray' = [tray EXCEPT !.at = "dropped"]
      /\ bad' \in [drops : Nat, refused : Nat] /\ UNCHANGED <<row, place, landed, overtaken>>
    BY DEF WireDrops, Started, TrayInv, TrayData
<1>2. /\ tray' \in Loops /\ tray'.at = "dropped" /\ tray'.batch = tray.batch
      /\ tray'.pending = tray.pending /\ tray'.claim = tray.claim
    BY <1>1 DEF TrayInv, TrayData, Loops, Ats
<1>3. host' \in [policy : {"overwrite", "skip", "keepBoth"}, kept : 0 .. Size, tee : BOOLEAN]
    <2>1. PICK n \in tray.from .. Size : host' \in {host, [host EXCEPT !.kept = n]}
        <3>1. Size \in tray.from .. Size
            BY TrayAssumption DEF TrayInv, TrayData, Loops
        <3>2. \A n \in tray.from .. Size - 1 : n \in tray.from .. Size
            BY TrayAssumption DEF TrayInv, TrayData, Loops
        <3>3. QED
            BY <3>1, <3>2 DEF WireDrops
    <2>2. n \in 0 .. Size
        BY TrayAssumption DEF TrayInv, TrayData, Loops
    <2>3. QED
        BY <2>1, <2>2 DEF TrayInv, TrayData
<1>4. ghost' = ghost \/ \E f \in req.todo : ghost' = {f}
    BY DEF WireDrops
<1>5. ASSUME NEW f \in ghost', f \notin ghost
      PROVE  f \in tray.pending /\ f \in Files /\ (f \in overtaken \/ landed[f] = 0)
    BY <1>1, <1>4, <1>5 DEF TrayInv, TrayData, TraySent, Loops
<1>6. TrayData'
    <2>1. NoReq = [on |-> FALSE, todo |-> {}, res |-> [f \in Files |-> "none"]]
        BY DEF NoReq
    <2>2. ghost' \subseteq Files
        BY <1>5 DEF TrayInv, TrayData
    <2>3. QED
        BY <1>1, <1>2, <1>3, <2>1, <2>2 DEF TrayInv, TrayData, Results
<1>7. TrayBatch' /\ TraySent'
    BY <1>2 DEF TrayInv, TrayBatch, TraySent
<1>8. TrayLanded'
    <2>1. \A f \in Files \ overtaken : landed[f] <= 1 /\ (f \in ghost' => landed[f] = 0)
        BY <1>5 DEF TrayInv, TrayLanded
    <2>2. ASSUME NEW b \in DOMAIN Batches, b > tray.batch, NEW f \in Batches[b]
          PROVE  landed[f] = 0 /\ f \notin ghost'
        <3>1. landed[f] = 0 /\ f \notin ghost
            BY <2>2 DEF TrayInv, TrayLanded
        <3>2. f \notin tray.pending
            <4>1. b # tray.batch
                BY <2>2, BatchesAre DEF TrayInv, TrayData, Loops
            <4>2. QED
                BY <4>1, TrayAssumption DEF TrayInv, TrayBatch
        <3>3. QED
            BY <3>1, <3>2, <1>5
    <2>3. QED
        BY <1>1, <1>2, <2>1, <2>2 DEF TrayInv, TrayLanded
<1>9. QED
    BY <1>6, <1>7, <1>8 DEF TrayInv

\* What was down to its last byte lands: it is no file of a batch to come, nor
\* one that is sent again without its name having been looked for.
LEMMA GhostKeeps ==
    ASSUME TrayInv, GhostLands PROVE TrayInv'
<1>1. PICK f \in ghost : UNCHANGED <<place, landed>> \/ Lands(f)
    BY DEF GhostLands
<1>2. f \in Files /\ ghost' = {} /\ UNCHANGED <<row, tray, req, bad, overtaken>>
      /\ host' \in {host, [host EXCEPT !.kept = 0]}
    BY DEF GhostLands, TrayInv, TrayData
<1>3. /\ landed' \in [Files -> Nat] /\ place' \in [Files -> PlaceIs]
      /\ \A g \in Files : (place[g] # "none" => place'[g] # "none") /\ (g # f => landed'[g] = landed[g])
      /\ landed'[f] = landed[f] \/ (landed'[f] = landed[f] + 1 /\ place'[f] # "none")
    BY <1>1, <1>2, LandingOnce DEF TrayInv, TrayData
<1>4. TrayData' /\ TrayBatch'
    <2>1. 0 \in 0 .. Size
        BY TrayAssumption
    <2>2. QED
        BY <1>2, <1>3, <2>1 DEF TrayInv, TrayData, TrayBatch
<1>5. TraySent'
    <2>1. tray.pending \subseteq Files
        BY DEF TrayInv, TrayData, Loops
    <2>2. CASE tray.at \in {"claim", "offset", "ready", "refused", "pause"}
        <3>1. \A g \in tray.pending \ overtaken : landed[g] = 0 /\ g # f
            BY <2>2, <1>1 DEF TrayInv, TraySent
        <3>2. QED
            BY <2>1, <2>2, <3>1, <1>2, <1>3 DEF TraySent
    <2>3. CASE tray.at = "wire"
        <3>1. \A g \in tray.pending \ overtaken : g # f /\ (g \in req.todo => landed[g] = 0)
            BY <2>3, <1>1 DEF TrayInv, TraySent
        <3>2. \A g \in Files : req.res[g] = "ERESUME" =>
                tray.claim /\ g \in tray.pending /\ (g \in overtaken \/ landed[g] = 0)
            BY <2>3 DEF TrayInv, TraySent
        <3>3. QED
            BY <2>1, <2>3, <3>1, <3>2, <1>2, <1>3 DEF TraySent
    <2>4. CASE tray.at \notin {"claim", "offset", "ready", "refused", "pause", "wire"}
        BY <2>4, <1>2 DEF TraySent
    <2>5. QED
        BY <2>2, <2>3, <2>4
<1>6. TrayLanded'
    <2>1. f \in overtaken \/ landed[f] = 0
        BY <1>1, <1>2 DEF TrayInv, TrayLanded
    <2>2. \A g \in Files \ overtaken : landed'[g] <= 1
        BY <2>1, <1>3 DEF TrayInv, TrayLanded
    <2>3. \A g \in Files : landed'[g] > 0 => place'[g] # "none"
        BY <1>3 DEF TrayInv, TrayLanded
    <2>4. ASSUME NEW b \in DOMAIN Batches, b > tray.batch, NEW g \in Batches[b] PROVE landed'[g] = 0
        <3>1. landed[g] = 0 /\ g # f /\ g \in Files
            BY <2>4, <1>1, BatchesAre DEF TrayInv, TrayLanded
        <3>2. QED
            BY <3>1, <1>3
    <2>5. QED
        BY <1>2, <2>2, <2>3, <2>4 DEF TrayLanded
<1>7. QED
    BY <1>4, <1>5, <1>6 DEF TrayInv

\* The retries and the waits are counted up to their limits.
LEMMA CountsUp ==
    ASSUME TrayInv
    PROVE  /\ tray.retries < MaxRetries => tray.retries + 1 \in 0 .. MaxRetries
           /\ tray.waits < MaxWaits => tray.waits + 1 \in 0 .. MaxWaits
<1>1. MaxRetries \in Nat /\ MaxWaits \in Nat
    BY TrayAssumption
<1>2. tray.retries \in 0 .. MaxRetries /\ tray.waits \in 0 .. MaxWaits
    BY DEF TrayInv, TrayData, Loops
<1>3. QED
    BY <1>1, <1>2

LEMMA AnswersKeep ==
    ASSUME TrayInv, RouteRefusesAll \/ TrayAnswered \/ TrayRefused PROVE TrayInv'
<1>1. CASE RouteRefusesAll
    <2>1. PICK why \in {"rate", "other", "full"} : tray' = [tray EXCEPT !.at = "refused", !.tell = why]
        BY <1>1 DEF RouteRefusesAll
    <2>2. /\ tray' \in Loops /\ tray'.at = "refused" /\ tray'.batch = tray.batch
          /\ tray'.pending = tray.pending /\ tray'.claim = tray.claim
        BY <2>1 DEF TrayInv, TrayData, Loops, Ats
    <2>3. \A f \in tray.pending \ overtaken : landed[f] = 0 /\ f \notin ghost
        BY <1>1 DEF RouteRefusesAll, Started, TrayInv, TraySent
    <2>4. req' = NoReq /\ bad' \in [drops : Nat, refused : Nat]
          /\ UNCHANGED <<row, host, place, landed, ghost, overtaken>>
        BY <1>1 DEF RouteRefusesAll, TrayInv, TrayData
    <2>5. QED
        BY <2>2, <2>3, <2>4, Turning DEF TrayInv, TrayData, TrayBatch
<1>2. CASE TrayAnswered
    <2>1. /\ tray.at = "wire" /\ req.todo = {} /\ req' = NoReq
          /\ UNCHANGED <<host, place, landed, ghost, bad, overtaken>>
        BY <1>2 DEF TrayAnswered, Started
    <2>2. CASE tray.retries < MaxRetries /\ \E f \in Files : req.res[f] = "ERESUME"
        <3>1. PICK f \in Files : req.res[f] = "ERESUME"
            BY <2>2
        <3>2. tray.claim /\ f \in tray.pending /\ (f \in overtaken \/ landed[f] = 0)
            BY <2>1, <3>1 DEF TrayInv, TraySent
        <3>3. \A g \in tray.pending : g = f
            BY <3>2 DEF TrayInv, TrayBatch
        <3>4. \A g \in tray.pending \ overtaken : landed[g] = 0 /\ g \notin ghost
            BY <2>1, <3>2, <3>3 DEF TrayInv, TraySent
        <3>5. tray' = Again([tray EXCEPT !.retries = @ + 1, !.restart = TRUE]) /\ row' = row
            BY <1>2, <2>2 DEF TrayAnswered
        <3>6. [tray EXCEPT !.retries = @ + 1, !.restart = TRUE] \in Loops
            BY <2>2, CountsUp DEF TrayInv, TrayData, Loops
        <3>7. /\ tray' \in Loops /\ tray'.at \in {"offset", "ready"} /\ tray'.batch = tray.batch
              /\ tray'.pending = tray.pending /\ tray'.claim = tray.claim
            BY <3>5, <3>6, Looping DEF TrayInv, TrayData, Loops
        <3>8. QED
            BY <2>1, <3>3, <3>4, <3>5, <3>7, Turning DEF TrayInv, TrayData
    <2>3. CASE ~(tray.retries < MaxRetries /\ \E f \in Files : req.res[f] = "ERESUME")
        <3>1. Verdicts(req.res) \in [Files -> RowIs]
            BY DEF Verdicts, TrayInv, TrayData, RowIs
        <3>2. Enter(Verdicts(req.res), tray.batch + 1)
            BY <1>2, <2>3 DEF TrayAnswered
        <3>3. QED
            BY <2>1, <3>1, <3>2, Entering
    <2>4. QED
        BY <2>2, <2>3
<1>3. CASE TrayRefused
    <2>1. tray.at = "refused" /\ req' = NoReq /\ UNCHANGED <<host, place, landed, ghost, bad, overtaken>>
        BY <1>3 DEF TrayRefused, TrayInv, TrayData
    <2>2. CASE tray.tell = "rate" /\ tray.waits < MaxWaits
        <3>1. tray' = [tray EXCEPT !.at = "pause", !.waits = @ + 1] /\ row' = Marked(tray.pending, "waiting")
            BY <1>3, <2>2 DEF TrayRefused
        <3>2. /\ tray' \in Loops /\ tray'.at = "pause" /\ tray'.batch = tray.batch
              /\ tray'.pending = tray.pending /\ tray'.claim = tray.claim
            BY <2>2, <3>1, CountsUp DEF TrayInv, TrayData, Loops, Ats
        <3>3. row' \in [Files -> RowIs]
            BY <3>1, MarkedRows DEF TrayInv, TrayData, RowIs
        <3>4. \A f \in tray.pending \ overtaken : landed[f] = 0 /\ f \notin ghost
            BY <2>1 DEF TrayInv, TraySent
        <3>5. QED
            BY <2>1, <3>2, <3>3, <3>4, Turning DEF TrayInv, TrayData, TrayBatch
    <2>3. CASE ~(tray.tell = "rate" /\ tray.waits < MaxWaits)
        BY <1>3, <2>1, <2>3, GivingUp DEF TrayRefused
    <2>4. QED
        BY <2>2, <2>3
<1>4. QED
    BY <1>1, <1>2, <1>3

\* The survey: what has no name there has not landed, and what may still land
\* while it is asked is noted as overtaken.
LEMMA SurveyKeeps ==
    ASSUME TrayInv, TrayDropped PROVE TrayInv'
<1>1. tray.at = "dropped" /\ req' = NoReq /\ UNCHANGED <<host, place, landed, ghost, bad>>
    BY DEF TrayDropped, TrayInv, TrayData
<1>2. CASE GiveUp(FALSE) /\ UNCHANGED overtaken
    BY <1>1, <1>2, GivingUp
<1>3. CASE /\ tray.retries < MaxRetries /\ Survey({f \in Files : place[f] # "none"})
           /\ overtaken' = overtaken \cup ghost
    <2> DEFINE there == {f \in Files : place[f] # "none"}
               left  == tray.pending \ there
               r     == Marked(tray.pending \cap there, "done")
    <2>1. r \in [Files -> RowIs]
        BY MarkedRows DEF TrayInv, TrayData, RowIs
    <2>2. CASE left = {}
        BY <1>1, <1>3, <2>1, <2>2, Entering DEF Survey
    <2>3. CASE left # {}
        <3>1. /\ row' = [f \in Files |-> IF f \in left THEN "waiting" ELSE r[f]]
              /\ tray' = [tray EXCEPT !.at = "pause", !.pending = left, !.retries = @ + 1]
            BY <1>3, <2>3 DEF Survey
        <3>2. row' \in [Files -> RowIs]
            BY <2>1, <3>1 DEF RowIs
        <3>3. left \subseteq tray.pending /\ left \subseteq Files
            BY DEF TrayInv, TrayData, Loops
        <3>4. /\ tray' \in Loops /\ tray'.at = "pause" /\ tray'.batch = tray.batch
              /\ tray'.pending = left /\ tray'.claim = tray.claim
            BY <1>3, <3>1, <3>3, CountsUp DEF TrayInv, TrayData, Loops, Ats
        <3>5. \A f \in left \ overtaken' : landed[f] = 0 /\ f \notin ghost
            <4>1. \A f \in left : f \in Files /\ place[f] = "none" /\ landed[f] \in Nat
                BY <3>3 DEF TrayInv, TrayData
            <4>2. \A f \in left : landed[f] = 0
                BY <4>1 DEF TrayInv, TrayLanded
            <4>3. QED
                BY <4>2, <1>3
        <3>6. tray'.claim => \A f, g \in left : f = g
            BY <3>3, <3>4 DEF TrayInv, TrayBatch
        <3>7. QED
            BY <1>1, <1>3, <3>2, <3>3, <3>4, <3>5, <3>6, Turning DEF TrayInv, TrayData
    <2>4. QED
        BY <2>2, <2>3
<1>4. QED
    BY <1>2, <1>3 DEF TrayDropped

LEMMA PauseKeeps ==
    ASSUME TrayInv, TrayResume \/ TrayCancel PROVE TrayInv'
<1>1. CASE TrayResume
    <2>1. tray.at = "pause" /\ req' = NoReq /\ UNCHANGED <<host, place, landed, ghost, bad, overtaken>>
        BY <1>1 DEF TrayResume, TrayInv, TrayData
    <2>2. CASE tray.cancelled
        BY <1>1, <2>1, <2>2, GivingUp DEF TrayResume
    <2>3. CASE ~tray.cancelled
        <3>1. tray' = Again(tray) /\ row' = row
            BY <1>1, <2>3 DEF TrayResume
        <3>2. /\ tray' \in Loops /\ tray'.at \in {"offset", "ready"} /\ tray'.batch = tray.batch
              /\ tray'.pending = tray.pending /\ tray'.claim = tray.claim
            BY <3>1, Looping DEF TrayInv, TrayData
        <3>3. \A f \in tray.pending \ overtaken : landed[f] = 0 /\ f \notin ghost
            BY <2>1 DEF TrayInv, TraySent
        <3>4. QED
            BY <2>1, <3>1, <3>2, <3>3, Turning DEF TrayInv, TrayData, TrayBatch
    <2>4. QED
        BY <2>2, <2>3
<1>2. CASE TrayCancel
    <2>1. /\ tray.at \in {"claim", "offset", "wire", "dropped", "pause"}
          /\ UNCHANGED <<host, place, landed, ghost, bad, overtaken>>
        BY <1>2 DEF TrayCancel
    <2>2. CASE Started
        <3>1. req' = NoReq /\ row' = Marked(tray.pending, "failed")
              /\ tray' = [tray EXCEPT !.cancelled = TRUE, !.at = "over"]
            BY <1>2, <2>2 DEF TrayCancel
        <3>2. /\ tray' \in Loops /\ tray'.at = "over" /\ tray'.batch = tray.batch
              /\ tray'.pending = tray.pending /\ tray'.claim = tray.claim
            BY <3>1 DEF TrayInv, TrayData, Loops, Ats
        <3>3. row' \in [Files -> RowIs]
            BY <3>1, MarkedRows DEF TrayInv, TrayData, RowIs
        <3>4. QED
            BY <2>1, <3>1, <3>2, <3>3, Turning DEF TrayInv, TrayData, TrayBatch
    <2>3. CASE ~Started
        <3>1. tray' = [tray EXCEPT !.cancelled = TRUE] /\ UNCHANGED <<row, req>>
            BY <1>2, <2>3 DEF TrayCancel
        <3>2. tray.at # "wire" /\ req' = NoReq
            BY <2>3, <3>1 DEF Started, TrayInv, TrayData
        <3>3. /\ tray' \in Loops /\ tray'.at = tray.at /\ tray'.batch = tray.batch
              /\ tray'.pending = tray.pending /\ tray'.claim = tray.claim
            BY <3>1 DEF TrayInv, TrayData, Loops
        <3>4. tray.at \in {"claim", "offset", "ready", "refused", "pause"} =>
                  \A f \in tray.pending \ overtaken : landed[f] = 0 /\ f \notin ghost
            BY DEF TrayInv, TraySent
        <3>5. QED
            BY <2>1, <3>1, <3>2, <3>3, <3>4, Turning DEF TrayInv, TrayData, TrayBatch
    <2>4. QED
        BY <2>2, <2>3
<1>3. QED
    BY <1>1, <1>2

LEMMA TrayKeeps == TrayInv /\ [TrayNext]_trayVars => TrayInv'
<1> SUFFICES ASSUME TrayInv, [TrayNext]_trayVars PROVE TrayInv'
    OBVIOUS
<1>1. CASE UNCHANGED trayVars
    BY <1>1 DEF trayVars, TrayInv, TrayData, TrayBatch, TraySent, TrayLanded
<1>2. CASE TrayNext
    BY <1>2, StartKeeps, PartKeeps, DropKeeps, GhostKeeps, AnswersKeep, SurveyKeeps, PauseKeeps DEF TrayNext, TrayStep
<1>3. QED
    BY <1>1, <1>2

LEMMA TrayHolds == TrayInv => SentOnce
BY DEF TrayInv, TrayLanded, SentOnce

\* A file is put there once however often its request had to be sent again,
\* unless the host was still settling it when the survey asked (SentOnce): for
\* any batches, claims, sizes, retries and refusals.
THEOREM FilesSentOnce == TraySpec => []SentOnce
<1>1. QED
    BY TrayBegins, TrayKeeps, TrayHolds, PTL DEF TraySpec

\* A row that is sent or waits is of the batch that start() is at.
RowsOwn == \A f \in Files : row[f] \in {"sending", "waiting"} => f \in tray.pending /\ tray.at # "over"

\* The next batch takes the rows on, once the last has let go of its own.
LEMMA EnterOwns ==
    ASSUME TrayInv, NEW r \in [Files -> RowIs], NEW b, Enter(r, b), \A f \in Files : r[f] \notin {"sending", "waiting"}
    PROVE  RowsOwn'
<1>1. CASE b > Len(Batches)
    BY <1>1 DEF Enter, RowsOwn
<1>2. CASE ~(b > Len(Batches))
    <2>1. /\ row' = [f \in Files |-> IF f \in Batches[b] THEN "sending" ELSE r[f]]
          /\ tray'.pending = Batches[b] /\ tray'.at \in {"claim", "ready"}
        BY <1>2 DEF Enter
    <2>2. QED
        BY <2>1 DEF RowsOwn
<1>3. QED
    BY <1>1, <1>2

LEMMA GivenUp ==
    ASSUME TrayInv, RowsOwn, NEW stop, GiveUp(stop) PROVE RowsOwn'
<1> DEFINE r == Marked(tray.pending, "failed")
<1>1. r \in [Files -> RowIs] /\ \A f \in Files : r[f] \notin {"sending", "waiting"}
    BY DEF Marked, RowsOwn, TrayInv, TrayData, RowIs
<1>2. CASE stop
    <2>1. row' = r
        BY <1>2 DEF GiveUp
    <2> HIDE DEF r
    <2>2. QED
        BY <1>1, <2>1 DEF RowsOwn
<1>3. CASE ~stop
    <2>1. Enter(r, tray.batch + 1)
        BY <1>3 DEF GiveUp
    <2> HIDE DEF r
    <2>2. QED
        BY <1>1, <2>1, EnterOwns
<1>4. QED
    BY <1>2, <1>3

LEMMA RowsKeep == TrayInv /\ RowsOwn /\ [TrayNext]_trayVars => RowsOwn'
<1> SUFFICES ASSUME TrayInv, RowsOwn, [TrayNext]_trayVars PROVE RowsOwn'
    OBVIOUS
<1>1. row \in [Files -> RowIs] /\ tray \in Loops
    BY DEF TrayInv, TrayData
<1>2. ASSUME row' = row, tray'.pending = tray.pending, tray'.at # "over" PROVE RowsOwn'
    BY <1>2 DEF RowsOwn
<1>3. CASE UNCHANGED <<row, tray>>
    BY <1>3 DEF RowsOwn
<1>4. \A t \in Loops : Again(t).pending = t.pending /\ Again(t).at \in {"offset", "ready"}
    BY DEF Again, Loops, Ats
<1>5. CASE TrayStart
    <2>1. tray.pending \cap Files = {}
        <3>1. \A f \in tray.pending : 0 \in DOMAIN Batches
            BY <1>5 DEF TrayStart, TrayInv, TrayBatch
        <3>2. 0 \notin DOMAIN Batches
            BY BatchesAre
        <3>3. QED
            BY <3>1, <3>2
    <2>2. Enter(row, 1) /\ \A f \in Files : row[f] \notin {"sending", "waiting"}
        BY <1>5, <2>1 DEF TrayStart, RowsOwn
    <2>3. QED
        BY <1>1, <2>2, EnterOwns
<1>6. CASE TrayClaim
    <2>1. PICK digest \in BOOLEAN : tray' = Again([tray EXCEPT !.claim = digest])
        BY <1>6 DEF TrayClaim
    <2> DEFINE t == [tray EXCEPT !.claim = digest]
    <2>2. t \in Loops /\ t.pending = tray.pending
        BY <1>1 DEF Loops
    <2> HIDE DEF t
    <2>3. QED
        BY <1>2, <1>4, <1>6, <2>1, <2>2 DEF TrayClaim, t
<1>7. CASE TrayOffset \/ TraySend \/ WireDrops \/ RouteRefusesAll
    <2>1. tray'.pending = tray.pending /\ tray'.at \in {"ready", "wire", "dropped", "refused"} /\ row' = row
        BY <1>1, <1>7 DEF TrayOffset, TraySend, WireDrops, RouteRefusesAll, Loops
    <2>2. QED
        BY <1>2, <2>1
<1>8. CASE GhostLands \/ (\E f \in Files : RoutePart(f) \/ RouteRefuses(f))
    BY <1>3, <1>8 DEF GhostLands, RoutePart, RouteRefuses
<1>9. CASE TrayAnswered
    <2>1. CASE row' = row /\ tray' = Again([tray EXCEPT !.retries = @ + 1, !.restart = TRUE]) /\ tray.retries < MaxRetries
        <3> DEFINE t == [tray EXCEPT !.retries = @ + 1, !.restart = TRUE]
        <3>1. t \in Loops /\ t.pending = tray.pending
            <4>1. tray.retries + 1 \in 0 .. MaxRetries
                BY <1>1, <2>1, TrayAssumption DEF Loops
            <4>2. QED
                BY <1>1, <4>1 DEF Loops
        <3> HIDE DEF t
        <3>2. QED
            BY <1>2, <1>4, <2>1, <3>1 DEF t
    <2>2. CASE Enter(Verdicts(req.res), tray.batch + 1)
        <3> DEFINE r == Verdicts(req.res)
        <3>1. r \in [Files -> RowIs] /\ \A f \in Files : r[f] \notin {"sending", "waiting"}
            BY <1>1 DEF Verdicts, RowsOwn, RowIs
        <3> HIDE DEF r
        <3>2. QED
            BY <2>2, <3>1, EnterOwns DEF r
    <2>3. QED
        BY <1>9, <2>1, <2>2 DEF TrayAnswered
<1>10. CASE TrayRefused
    <2>1. CASE /\ tray' = [tray EXCEPT !.at = "pause", !.waits = @ + 1]
               /\ row'  = Marked(tray.pending, "waiting")
        <3>1. tray'.pending = tray.pending /\ tray'.at = "pause"
            BY <1>1, <2>1 DEF Loops
        <3>2. QED
            BY <1>1, <2>1, <3>1 DEF RowsOwn, Marked
    <2>2. QED
        BY <1>10, <2>1, GivenUp DEF TrayRefused
<1>11. CASE TrayDropped
    <2>1. CASE GiveUp(FALSE)
        BY <2>1, GivenUp
    <2>2. CASE \E there : Survey(there)
        <3>1. PICK there : Survey(there)
            BY <2>2
        <3> DEFINE left == tray.pending \ there
                   r == Marked(tray.pending \cap there, "done")
        <3>2. r \in [Files -> RowIs]
            BY <1>1 DEF Marked, RowIs
        <3>3. CASE left = {}
            <4>1. Enter(r, tray.batch + 1)
                BY <3>1, <3>3 DEF Survey
            <4>2. \A f \in Files : r[f] \notin {"sending", "waiting"}
                BY <1>1, <3>3 DEF Marked, RowsOwn
            <4> HIDE DEF r
            <4>3. QED
                BY <3>2, <4>1, <4>2, EnterOwns
        <3>4. CASE left # {}
            <4>1. /\ row'  = [f \in Files |-> IF f \in left THEN "waiting" ELSE r[f]]
                  /\ tray' = [tray EXCEPT !.at = "pause", !.pending = left, !.retries = @ + 1]
                BY <3>1, <3>4 DEF Survey
            <4>2. tray'.at = "pause" /\ tray'.pending = left
                BY <1>1, <4>1 DEF Loops
            <4>3. \A f \in Files \ left : r[f] \notin {"sending", "waiting"}
                BY <1>1 DEF Marked, RowsOwn
            <4> HIDE DEF r, left
            <4>4. QED
                BY <4>1, <4>2, <4>3 DEF RowsOwn
        <3>5. QED
            BY <3>3, <3>4
    <2>3. QED
        BY <1>11, <2>1, <2>2 DEF TrayDropped
<1>12. CASE TrayResume
    BY <1>1, <1>2, <1>4, <1>12, GivenUp DEF TrayResume
<1>13. CASE TrayCancel
    <2>1. CASE Started
        <3>1. row' = Marked(tray.pending, "failed")
            BY <1>13, <2>1 DEF TrayCancel
        <3>2. QED
            BY <1>1, <3>1 DEF Marked, RowsOwn
    <2>2. CASE ~Started
        <3>1. tray'.pending = tray.pending /\ tray'.at = tray.at /\ row' = row
            BY <1>1, <1>13, <2>2 DEF TrayCancel, Loops
        <3>2. QED
            BY <3>1 DEF RowsOwn
    <2>3. QED
        BY <2>1, <2>2
<1>14. CASE UNCHANGED trayVars
    BY <1>3, <1>14 DEF trayVars
<1>15. QED
    BY <1>5, <1>6, <1>7, <1>8, <1>9, <1>10, <1>11, <1>12, <1>13, <1>14 DEF TrayNext, TrayStep

LEMMA RowsStart == TrayInit => RowsOwn
BY DEF TrayInit, RowsOwn

LEMMA TrayTypes == TrayInv /\ RowsOwn => TrayTypeOK
<1> SUFFICES ASSUME TrayInv, RowsOwn PROVE TrayTypeOK
    OBVIOUS
<1>1. /\ row \in [Files -> RowIs] /\ tray \in Loops /\ host.kept \in 0 .. Size
      /\ req.on <=> tray.at = "wire"
      /\ req.todo \subseteq tray.pending
    BY DEF TrayInv, TrayData
<1>2. /\ tray.batch \in 0 .. Len(Batches) /\ tray.pending \subseteq Files
      /\ tray.from \in 0 .. Size /\ tray.retries \in 0 .. MaxRetries /\ tray.waits \in 0 .. MaxWaits
    BY <1>1 DEF Loops
<1>3. QED
    BY <1>1, <1>2 DEF TrayTypeOK, RowsOwn, RowIs

\* A cancel that met a request ended the upload; one that met a pause has, or
\* the pause is not over yet.
CancelInv ==
    /\ sentAt = "wire" => tray.at = "over"
    /\ sentAt = "pause" => tray.at = "over" \/ (tray.at = "pause" /\ tray.cancelled)

LEMMA CancelKeeps == TrayInv /\ CancelInv /\ [TrayNext]_trayVars => CancelInv'
<1> SUFFICES ASSUME TrayInv, CancelInv, [TrayNext]_trayVars PROVE CancelInv'
    OBVIOUS
<1>0. tray \in Loops
    BY DEF TrayInv, TrayData
<1>1. CASE UNCHANGED trayVars
    BY <1>1 DEF trayVars, CancelInv
<1>2. CASE TrayCancel
    <2>1. sentAt' = tray.at /\ tray.at # "over"
        BY <1>2 DEF TrayCancel
    <2>2. CASE Started
        <3>1. tray' = [tray EXCEPT !.cancelled = TRUE, !.at = "over"]
            BY <1>2, <2>2 DEF TrayCancel
        <3>2. tray'.at = "over"
            BY <1>0, <3>1 DEF Loops
        <3>3. QED
            BY <3>2 DEF CancelInv
    <2>3. CASE ~Started
        <3>1. tray' = [tray EXCEPT !.cancelled = TRUE] /\ tray.at # "wire"
            BY <1>2, <2>3 DEF TrayCancel, Started, TrayInv, TrayData
        <3>2. tray'.at = tray.at /\ tray'.cancelled = TRUE
            BY <1>0, <3>1 DEF Loops
        <3>3. QED
            BY <2>1, <3>1, <3>2 DEF CancelInv
    <2>4. QED
        BY <2>2, <2>3
<1>3. CASE TrayResume
    <2>1. sentAt' = sentAt /\ tray.at = "pause"
        BY <1>3 DEF TrayResume
    <2>2. sentAt = "pause" => tray'.at = "over"
        <3> SUFFICES ASSUME sentAt = "pause" PROVE tray'.at = "over"
            OBVIOUS
        <3>1. GiveUp(TRUE)
            BY <1>3, <2>1 DEF TrayResume, CancelInv
        <3>2. tray' = [tray EXCEPT !.at = "over"]
            BY <3>1 DEF GiveUp
        <3>3. QED
            BY <1>0, <3>2 DEF Loops
    <2>3. QED
        BY <2>1, <2>2 DEF CancelInv
<1>4. CASE GhostLands
    BY <1>4 DEF GhostLands, CancelInv
<1>5. CASE \/ TrayStart \/ TrayClaim \/ TrayOffset \/ TraySend \/ (\E f \in Files : RoutePart(f) \/ RouteRefuses(f))
           \/ TrayAnswered \/ TrayRefused \/ TrayDropped \/ WireDrops \/ RouteRefusesAll
    <2>1. sentAt' = sentAt /\ tray.at \notin {"over", "pause"}
        BY <1>5 DEF TrayStart, TrayClaim, TrayOffset, TraySend, RoutePart, RouteRefuses, TrayAnswered, TrayRefused,
            TrayDropped, WireDrops, RouteRefusesAll, Started
    <2>2. QED
        BY <2>1 DEF CancelInv
<1>6. QED
    BY <1>1, <1>2, <1>3, <1>4, <1>5 DEF TrayNext, TrayStep

\* "Without this it would go back and send itself after the cancel"
\* (CancelledStaysOff).
LEMMA CancelHolds ==
    ASSUME TrayInv, CancelInv, [TrayNext]_trayVars
    PROVE  [~req.on /\ sentAt \in {"wire", "pause"} => ~req'.on]_trayVars
<1> SUFFICES ASSUME TrayNext, sentAt \in {"wire", "pause"}, ~req.on PROVE ~req'.on
    OBVIOUS
<1>1. tray.at \in {"over", "pause"}
    BY DEF CancelInv
<1>2. CASE TrayResume \/ GhostLands \/ \E f \in Files : RoutePart(f) \/ RouteRefuses(f)
    BY <1>1, <1>2 DEF TrayResume, GhostLands, RoutePart, RouteRefuses, Started
<1>3. CASE TrayCancel
    BY <1>1, <1>3 DEF TrayCancel, Started
<1>4. CASE \/ TrayStart \/ TrayClaim \/ TrayOffset \/ TraySend
           \/ TrayAnswered \/ TrayRefused \/ TrayDropped \/ WireDrops \/ RouteRefusesAll
    BY <1>1, <1>4 DEF TrayStart, TrayClaim, TrayOffset, TraySend, TrayAnswered, TrayRefused,
            TrayDropped, WireDrops, RouteRefusesAll, Started
<1>5. QED
    BY <1>2, <1>3, <1>4 DEF TrayNext, TrayStep
-----------------------------------------------------------------------------
(* The transfer strip.                                                     *)

RowsOf == [run : Nat, st : Active \cup Ended \cup {"none"}]

StripData ==
    /\ job \in RowsOf /\ (job.st # "none" => job.run > 0)
    /\ fetch \in [at : {"shut", "off", "asked", "read"}, row : RowsOf]
    /\ fetch.row.run <= job.run /\ (fetch.row.st # "none" => fetch.row.run > 0)
    /\ list \in RowsOf \cup {Unread} /\ post \in {"none", "retried", "cancelled", "refused"}
    /\ told \in [Runs -> Nat] /\ announced \in BOOLEAN
    /\ before \subseteq 1 .. job.run /\ early \subseteq 1 .. job.run
    /\ \A r \in Runs : r > job.run => told[r] = 0

\* Until the list was read there is no row to press a button of, and nothing
\* was told.
StripFirst ==
    list = Unread => /\ post = "none" /\ before = {} /\ early = {}
                     /\ \A r \in Runs : told[r] = 0

\* The end of run r is told no more: it is announced and no answer will take
\* that back, or the job has gone on and no reading of that end is under way.
Told(r) ==
    \/ announced /\ ~(post = "retried" /\ job.run = r)
    \/ job.run > r /\ (fetch.at = "read" => fetch.row.run > r)

\* What was told, and what had ended before the page was there, is told no
\* more; an end that was listed before its retry was answered has one more to
\* go.
StripTold ==
    \A r \in Runs :
        /\ r \in before => told[r] = 0 /\ Told(r)
        /\ r \notin early => told[r] = 0 \/ (told[r] = 1 /\ Told(r))
        /\ r \in early => \/ told[r] <= 1 /\ (post = "retried" /\ job.run = r => announced)
                          \/ told[r] = 2 /\ Told(r)

StripInv == StripData /\ StripFirst /\ StripTold

LEMMA StripStart == StripInit => StripInv
<1> SUFFICES ASSUME StripInit PROVE StripInv
    OBVIOUS
<1>1. NoJob \in RowsOf /\ NoJob.run = 0 /\ NoJob.st = "none"
    BY DEF NoJob, RowsOf
<1>2. fetch = [at |-> "shut", row |-> NoJob] /\ job = NoJob /\ before = {} /\ early = {} /\ list = Unread
      /\ post = "none" /\ announced = FALSE /\ told = [r \in Runs |-> 0]
    BY DEF StripInit, Idle
<1>3. StripData
    <2>1. /\ told \in [Runs -> Nat] /\ \A r \in Runs : told[r] = 0
          /\ before \subseteq 1 .. job.run /\ early \subseteq 1 .. job.run
        BY <1>2 DEF StripInit
    <2>2. fetch \in [at : {"shut", "off", "asked", "read"}, row : RowsOf] /\ fetch.row = NoJob
        BY <1>1, <1>2
    <2>3. /\ job \in RowsOf /\ (job.st # "none" => job.run > 0)
          /\ fetch.row.run <= job.run /\ (fetch.row.st # "none" => fetch.row.run > 0)
        BY <1>1, <1>2, <2>2
    <2>4. list \in RowsOf \cup {Unread} /\ post \in {"none", "retried", "cancelled", "refused"} /\ announced \in BOOLEAN
        BY <1>2
    <2>5. QED
        BY <2>1, <2>2, <2>3, <2>4 DEF StripData
<1>4. StripFirst /\ StripTold
    BY <1>2 DEF StripFirst, StripTold
<1>5. QED
    BY <1>3, <1>4 DEF StripInv

\* A request for the list is made again, or is the very first one.
LEMMA Invalidated ==
    ASSUME StripData
    PROVE  /\ Invalidate \in [at : {"shut", "off", "asked", "read"}, row : RowsOf]
           /\ Invalidate.row.run <= job.run /\ (Invalidate.row.st # "none" => Invalidate.row.run > 0)
           /\ Invalidate.at = "read" => fetch.at = "read" /\ Invalidate = fetch
           /\ list # Unread => Invalidate.at = "asked"
BY StripAssumption DEF Invalidate, StripData, RowsOf, Idle, NoJob, Active, Ended

\* What the page is told of leaves all that was told as it is, when the list
\* and the post stay, and no reading begins.
LEMMA StripAside ==
    ASSUME StripInv,
           job' \in RowsOf, job'.run = job.run, job'.st # "none" => job'.run > 0,
           fetch' \in [at : {"shut", "off", "asked", "read"}, row : RowsOf],
           fetch'.row.run <= job'.run, fetch'.row.st # "none" => fetch'.row.run > 0,
           fetch'.at = "read" => fetch'.row.run = job'.run \/ (fetch.at = "read" /\ fetch' = fetch),
           post' \in {"none", "retried", "cancelled", "refused"}, post' = "retried" <=> post = "retried",
           list = Unread => post' = "none",
           UNCHANGED <<list, announced, told, before, early>>
    PROVE  StripInv'
<1>1. StripData'
    BY StripAssumption DEF StripInv, StripData, Runs
<1>2. StripFirst'
    BY DEF StripInv, StripFirst
<1>3. ASSUME NEW r \in Runs, Told(r) PROVE Told(r)'
    BY <1>3, StripAssumption DEF Told, StripInv, StripData, RowsOf, Runs
<1>4. StripTold'
    BY <1>3 DEF StripInv, StripTold
<1>5. QED
    BY <1>1, <1>2, <1>4 DEF StripInv

LEMMA StripJobKeeps ==
    ASSUME StripInv, JobQueued \/ JobStarts \/ JobTicks \/ JobEnds \/ JobPublished PROVE StripInv'
<1>1. CASE JobQueued
    <2>1. job.run = 0 /\ job'.run = 1 /\ fetch.row.run = 0
        BY <1>1 DEF JobQueued, NoJob, StripInv, StripData, RowsOf
    <2>2. StripData'
        BY <1>1, <2>1, StripAssumption DEF JobQueued, NoJob, StripInv, StripData, RowsOf, Active, Ended, Runs
    <2>3. StripFirst'
        BY <1>1 DEF JobQueued, StripInv, StripFirst
    <2>4. \A r \in Runs : r > 0 /\ told[r] = 0
        BY <2>1, StripAssumption DEF StripInv, StripData, Runs
    <2>5. before = {} /\ early = {}
        BY <2>1 DEF StripInv, StripData
    <2>6. StripTold'
        BY <1>1, <2>4, <2>5 DEF JobQueued, StripTold
    <2>7. QED
        BY <2>2, <2>3, <2>6 DEF StripInv
<1>2. CASE JobStarts \/ JobTicks \/ JobEnds \/ JobPublished
    <2>1. /\ job' \in RowsOf /\ job'.run = job.run /\ (job'.st # "none" => job'.run > 0)
          /\ UNCHANGED <<fetch, post, list, announced, told, before, early>>
        BY <1>2 DEF JobStarts, JobTicks, JobEnds, JobPublished, StripInv, StripData, RowsOf, Active, Ended
    <2>2. QED
        BY <2>1, StripAside DEF StripInv, StripData, StripFirst
<1>3. QED
    BY <1>1, <1>2

LEMMA StripFeedKeeps ==
    ASSUME StripInv, FeedConnects \/ FeedDrops \/ FeedHeard PROVE StripInv'
<1>1. /\ UNCHANGED <<job, post, list, announced, told, before, early>>
      /\ fetch' = fetch \/ fetch' = Invalidate
    BY DEF FeedConnects, FeedDrops, FeedHeard
<1>2. QED
    BY <1>1, StripAside, Invalidated DEF StripInv, StripData, StripFirst

LEMMA StripAsksKeeps ==
    ASSUME StripInv, StripMounts \/ ListPolled \/ ListRead PROVE StripInv'
<1>1. /\ UNCHANGED <<job, post, list, announced, told, before, early>>
      /\ \/ fetch' = Idle \/ fetch' = [Idle EXCEPT !.at = "asked"]
         \/ fetch' = [at |-> "read", row |-> job]
    BY DEF StripMounts, ListPolled, ListRead
<1>2. /\ fetch' \in [at : {"shut", "off", "asked", "read"}, row : RowsOf]
      /\ fetch'.row.run <= job.run /\ (fetch'.row.st # "none" => fetch'.row.run > 0)
      /\ fetch'.at = "read" => fetch'.row.run = job.run
    BY <1>1 DEF Idle, NoJob, RowsOf, Active, Ended, StripInv, StripData
<1>3. QED
    BY <1>1, <1>2, StripAside DEF StripInv, StripData, StripFirst

\* The list is answered for the first time: what it holds ended is history.
LEMMA StripFirstList ==
    ASSUME StripInv, ListAnswered, list = Unread PROVE StripInv'
<1> DEFINE got == fetch.row
<1>1. /\ got \in RowsOf /\ got # Unread /\ got.run <= job.run /\ (got.st \in Ended => got.run > 0)
      /\ job \in RowsOf /\ fetch.at = "read"
    BY DEF ListAnswered, StripInv, StripData, RowsOf, Unread, Active, Ended
<1>2. /\ fetch' = Idle /\ list' = got /\ UNCHANGED <<job, post>> /\ Effect(got)
    BY <1>1 DEF ListAnswered
<1>3. /\ announced' = (announced \/ got.st \in Ended) /\ told' = told /\ early' = early
      /\ before' = 1 .. (IF got.st \in Ended THEN got.run ELSE got.run - 1)
    BY <1>2 DEF Effect
<1>4. post = "none" /\ early = {} /\ \A r \in Runs : told[r] = 0
    BY DEF StripInv, StripFirst
<1>5. StripData'
    BY <1>1, <1>2, <1>3, StripAssumption DEF StripInv, StripData, RowsOf, Idle, NoJob, Active, Ended
<1>6. StripFirst'
    BY <1>1, <1>2 DEF StripFirst
<1>7. ASSUME NEW r \in Runs, r \in before' PROVE Told(r)'
    <2>1. r <= got.run /\ (r = got.run => got.st \in Ended) /\ r \in Nat
        BY <1>1, <1>3, <1>7, StripAssumption DEF RowsOf, Runs
    <2>2. CASE r = got.run
        BY <2>1, <2>2, <1>2, <1>3, <1>4 DEF Told
    <2>3. CASE r < got.run
        <3>1. fetch'.at # "read" /\ job'.run > r
            BY <2>1, <2>3, <1>1, <1>2 DEF Idle, RowsOf
        <3>2. QED
            BY <3>1 DEF Told
    <2>4. QED
        BY <2>1, <2>2, <2>3, <1>1 DEF RowsOf
<1>8. StripTold'
    BY <1>3, <1>4, <1>7 DEF StripTold
<1>9. QED
    BY <1>5, <1>6, <1>8 DEF StripInv

\* And then: an end that is news is told, and is no news any more.
LEMMA StripNextList ==
    ASSUME StripInv, ListAnswered, list # Unread PROVE StripInv'
<1> DEFINE got == fetch.row
           News == Effect(got) /\ got.st \in Ended /\ ~announced
<1>1. /\ got \in RowsOf /\ got # Unread /\ got.run <= job.run /\ (got.st \in Ended => got.run > 0)
      /\ job \in RowsOf /\ fetch.at = "read" /\ announced \in BOOLEAN
    BY DEF ListAnswered, StripInv, StripData, RowsOf, Unread, Active, Ended
<1>2. fetch' = Idle /\ list' = got /\ UNCHANGED <<job, post, before>>
    BY DEF ListAnswered, Effect
<1>3. fetch'.at = "off" /\ fetch' \in [at : {"shut", "off", "asked", "read"}, row : RowsOf]
      /\ fetch'.row.run <= job'.run /\ fetch'.row.st = "none"
    BY <1>1, <1>2 DEF Idle, NoJob, RowsOf
<1>4. /\ announced => announced'
      /\ early' = early \/ (early' = early \cup {got.run} /\ got.run = job.run /\ got.st \in Ended)
      /\ announced' \in BOOLEAN
    BY <1>1 DEF ListAnswered, Effect
<1>5. told' = told \/ (News /\ told' = [told EXCEPT ![got.run] = @ + 1])
    BY DEF ListAnswered, Effect
<1>6. StripFirst'
    BY <1>1, <1>2 DEF StripFirst
<1>7. StripData'
    <2>1. told' \in [Runs -> Nat] /\ \A r \in Runs : r > job'.run => told'[r] = 0
        <3>1. told \in [Runs -> Nat] /\ \A r \in Runs : r > job.run => told[r] = 0
            BY DEF StripInv, StripData
        <3>2. job' = job /\ job.run \in Nat
            BY <1>1, <1>2 DEF RowsOf
        <3>3. CASE told' = told
            BY <3>1, <3>2, <3>3
        <3>4. CASE News /\ told' = [told EXCEPT ![got.run] = @ + 1]
            <4>1. got.run \in Nat /\ got.run <= job.run
                BY <1>1 DEF RowsOf
            <4>2. told' = [r \in Runs |-> IF r = got.run THEN told[r] + 1 ELSE told[r]]
                BY <3>1, <3>4
            <4>3. told' \in [Runs -> Nat]
                BY <3>1, <4>2
            <4>4. \A r \in Runs : r > job.run => r # got.run
                BY <3>2, <4>1, StripAssumption DEF Runs
            <4>5. QED
                BY <3>1, <3>2, <4>2, <4>3, <4>4
        <3>5. QED
            BY <1>5, <3>3, <3>4
    <2>2. early' \subseteq 1 .. job'.run
        <3>1. got.st \in Ended => got.run \in 1 .. job.run
            BY <1>1 DEF RowsOf
        <3>2. early \subseteq 1 .. job.run /\ job' = job
            BY <1>2 DEF StripInv, StripData
        <3>3. early' \subseteq 1 .. job.run
            BY <3>1, <3>2, <1>4
        <3>4. QED
            BY <3>2, <3>3
    <2>3. QED
        BY <2>1, <2>2, <1>1, <1>2, <1>3, <1>4 DEF StripInv, StripData
<1>8. ASSUME NEW r \in Runs, Told(r) PROVE Told(r)'
    BY <1>8, <1>2, <1>3, <1>4 DEF Told
<1>9. ASSUME NEW r \in Runs, told'[r] = told[r], r \in early' <=> r \in early
      PROVE  /\ r \in before' => told'[r] = 0 /\ Told(r)'
             /\ r \notin early' => told'[r] = 0 \/ (told'[r] = 1 /\ Told(r)')
             /\ r \in early' => \/ told'[r] <= 1 /\ (post' = "retried" /\ job'.run = r => announced')
                                \/ told'[r] = 2 /\ Told(r)'
    BY <1>2, <1>4, <1>8, <1>9 DEF StripInv, StripTold
<1>10. CASE News
    <2>1. /\ announced' = TRUE
          /\ told' = [told EXCEPT ![got.run] = @ + 1]
          /\ early' = IF post = "retried" /\ got.run = job.run THEN early \cup {got.run} ELSE early
        BY <1>10 DEF Effect
    <2>2. ~Told(got.run)
        BY <1>10, <1>1 DEF Told, RowsOf
    <2>3. ASSUME NEW r \in Runs, r = got.run
          PROVE  /\ r \in before' => told'[r] = 0 /\ Told(r)'
                 /\ r \notin early' => told'[r] = 0 \/ (told'[r] = 1 /\ Told(r)')
                 /\ r \in early' => \/ told'[r] <= 1 /\ (post' = "retried" /\ job'.run = r => announced')
                                    \/ told'[r] = 2 /\ Told(r)'
        <3>1. told'[r] = told[r] + 1 /\ told[r] \in Nat
            BY <2>1, <2>3 DEF StripInv, StripData
        <3>2. r \notin before
            BY <2>2, <2>3 DEF StripInv, StripTold
        <3>3. CASE r \in early
            <4>1. told[r] <= 1 /\ (post = "retried" /\ job.run = r => announced)
                BY <2>2, <2>3, <3>3 DEF StripInv, StripTold
            <4>2. Told(r)'
                BY <4>1, <1>10, <1>2, <2>1 DEF Told
            <4>3. told'[r] <= 1 \/ told'[r] = 2
                BY <4>1, <3>1
            <4>4. QED
                BY <4>2, <4>3, <2>1, <3>2, <3>3, <1>2
        <3>4. CASE r \notin early
            <4>1. told[r] = 0
                BY <2>2, <2>3, <3>4 DEF StripInv, StripTold
            <4>2. r \notin early' => Told(r)'
                BY <1>2, <2>1, <2>3 DEF Told
            <4>3. told'[r] = 1
                BY <4>1, <3>1
            <4>4. QED
                BY <4>2, <4>3, <2>1, <3>2, <1>2
        <3>5. QED
            BY <3>3, <3>4
    <2>4. ASSUME NEW r \in Runs, r # got.run PROVE told'[r] = told[r] /\ (r \in early' <=> r \in early)
        BY <2>1, <2>4 DEF StripInv, StripData
    <2>5. StripTold'
        BY <2>3, <2>4, <1>9 DEF StripTold
    <2>6. QED
        BY <2>5, <1>6, <1>7 DEF StripInv
<1>11. CASE ~News
    <2>1. told' = told
        BY <1>5, <1>11
    <2>2. ASSUME NEW r \in Runs, r \in early', r \notin early
          PROVE  /\ r \in before' => told'[r] = 0 /\ Told(r)'
                 /\ told'[r] <= 1 /\ (post' = "retried" /\ job'.run = r => announced')
        <3>1. announced'
            BY <2>2, <1>2 DEF ListAnswered, Effect
        <3>2. QED
            BY <3>1, <2>1, <2>2, <1>2, <1>8 DEF StripInv, StripTold
    <2>3. ASSUME NEW r \in Runs, r \in early PROVE r \in early'
        BY <1>4, <2>3
    <2>4. StripTold'
        BY <2>1, <2>2, <2>3, <1>9 DEF StripTold
    <2>5. QED
        BY <2>4, <1>6, <1>7 DEF StripInv
<1>12. QED
    BY <1>10, <1>11

LEMMA StripRetriesKeeps ==
    ASSUME StripInv, StripRetries PROVE StripInv'
<1>1. list # Unread /\ post = "none"
    BY DEF StripRetries, OnStrip
<1>2. UNCHANGED <<fetch, list, announced, told, before, early>>
    BY DEF StripRetries
<1>3. CASE job' = job /\ post' = "refused"
    BY <1>1, <1>2, <1>3, StripAside DEF StripInv, StripData
<1>4. CASE job.st = "FAILED" /\ job' = [run |-> job.run + 1, st |-> "QUEUED"] /\ post' = "retried"
    <2>1. job'.run = job.run + 1 /\ job.run \in Nat
        BY <1>4 DEF StripInv, StripData, RowsOf
    <2>2. StripData'
        BY <1>2, <1>4, <2>1, StripAssumption DEF StripInv, StripData, RowsOf, Active, Ended, Runs
    <2>3. StripFirst'
        BY <1>1, <1>2 DEF StripFirst
    <2>4. ASSUME NEW r \in Runs, r <= job.run, Told(r) PROVE Told(r)'
        BY <1>2, <2>1, <2>4, StripAssumption DEF Told, Runs
    <2>5. ASSUME NEW r \in Runs, ~(r <= job.run)
          PROVE  r \notin early /\ r \notin before /\ told[r] = 0
        BY <2>1, <2>5, StripAssumption DEF StripInv, StripData, Runs
    <2>6. StripTold'
        <3> SUFFICES ASSUME NEW r \in Runs
              PROVE  /\ r \in before' => told'[r] = 0 /\ Told(r)'
                     /\ r \notin early' => told'[r] = 0 \/ (told'[r] = 1 /\ Told(r)')
                     /\ r \in early' => \/ told'[r] <= 1 /\ (post' = "retried" /\ job'.run = r => announced')
                                        \/ told'[r] = 2 /\ Told(r)'
            BY DEF StripTold
        <3>1. CASE r <= job.run
            <4>1. job'.run # r
                BY <3>1, <2>1, StripAssumption DEF Runs
            <4>2. QED
                BY <4>1, <3>1, <2>4, <1>2 DEF StripInv, StripTold
        <3>2. CASE ~(r <= job.run)
            BY <3>2, <2>5, <1>2
        <3>3. QED
            BY <3>1, <3>2
    <2>7. QED
        BY <2>2, <2>3, <2>6 DEF StripInv
<1>5. QED
    BY <1>3, <1>4 DEF StripRetries

LEMMA StripAnsweredKeeps ==
    ASSUME StripInv, StripAnswered PROVE StripInv'
<1>1. list # Unread /\ post' = "none" /\ fetch' = Invalidate /\ announced' = (announced /\ post # "retried")
      /\ UNCHANGED <<job, list, told, before, early>>
    BY DEF StripAnswered, StripInv, StripFirst
<1>2. fetch'.at = "asked"
    BY <1>1, Invalidated DEF StripInv
<1>3. StripData'
    BY <1>1, Invalidated DEF StripInv, StripData
<1>4. StripFirst'
    BY <1>1 DEF StripFirst
<1>5. ASSUME NEW r \in Runs, r <= job.run, Told(r) PROVE Told(r)'
    BY <1>1, <1>2, <1>5, StripAssumption DEF Told, StripInv, StripData, RowsOf, Runs
<1>6. ASSUME NEW r \in Runs, ~(r <= job.run) PROVE r \notin early /\ r \notin before /\ told[r] = 0
    BY <1>6, StripAssumption DEF StripInv, StripData, RowsOf, Runs
<1>7. StripTold'
    BY <1>1, <1>5, <1>6 DEF StripInv, StripTold
<1>8. QED
    BY <1>3, <1>4, <1>7 DEF StripInv

LEMMA StripButtonsKeep ==
    ASSUME StripInv, StripRefused \/ StripCancels \/ StripDismisses PROVE StripInv'
<1>1. /\ UNCHANGED <<fetch, list, announced, told, before, early>>
      /\ post' \in {"none", "cancelled", "refused"} \cup {post} /\ (post' # "none" => list # Unread)
      /\ post' = "retried" <=> post = "retried"
    BY DEF StripRefused, StripCancels, StripDismisses, StripInv, StripFirst, OnStrip
<1>2. job' = job \/ (job.st \in Active /\ job' = [job EXCEPT !.st = "CANCELLED"])
    BY DEF StripRefused, StripCancels, StripDismisses, Active
<1>3. job' \in RowsOf /\ job'.run = job.run /\ (job'.st # "none" => job'.run > 0)
    BY <1>2 DEF StripInv, StripData, RowsOf, Active, Ended
<1>4. QED
    BY <1>1, <1>3, StripAside DEF StripInv, StripData, StripFirst

LEMMA StripKeeps == StripInv /\ [StripNext]_stripVars => StripInv'
<1> SUFFICES ASSUME StripInv, [StripNext]_stripVars PROVE StripInv'
    OBVIOUS
<1>1. CASE UNCHANGED stripVars
    BY <1>1 DEF stripVars, StripInv, StripData, StripFirst, StripTold, Told
<1>2. CASE StripNext
    BY <1>2, StripJobKeeps, StripFeedKeeps, StripAsksKeeps, StripFirstList, StripNextList, StripRetriesKeeps,
       StripAnsweredKeeps, StripButtonsKeep DEF StripNext
<1>3. QED
    BY <1>1, <1>2

LEMMA StripHolds == StripInv => ToldOnce
<1> SUFFICES ASSUME StripInv, NEW r \in Runs
             PROVE told[r] <= IF r \in before THEN 0 ELSE IF r \in early THEN 2 ELSE 1
    BY DEF ToldOnce
<1>1. CASE r \in before
    BY <1>1 DEF StripInv, StripTold
<1>2. CASE r \notin before /\ r \in early
    <2>1. told[r] \in Nat /\ (told[r] <= 1 \/ told[r] = 2)
        BY <1>2 DEF StripInv, StripTold, StripData
    <2>2. QED
        BY <1>2, <2>1
<1>3. CASE r \notin before /\ r \notin early
    <2>1. told[r] = 0 \/ told[r] = 1
        BY <1>3 DEF StripInv, StripTold
    <2>2. QED
        BY <1>3, <2>1
<1>4. QED
    BY <1>1, <1>2, <1>3

\* "A completion toast fires once and not per tick", and never for what ended
\* before the page was there (ToldOnce): for any number of runs, frames and
\* drops of the feed.
THEOREM EndsToldOnce == StripSpec => []ToldOnce
<1>1. QED
    BY StripStart, StripKeeps, StripHolds, PTL DEF StripSpec

\* The end of the job's last run was told to whoever was there to hear it, and
\* is not lost.
OnTheFeed == job.st \in Ended /\ owed = NoJob /\ job.run \notin missed

\* What the page hears of a job, the opening of the feed among it.
StripFrames == [run : Nat, st : Active \cup Ended \cup {"open", "none"}]

\* A frame on its way is the opening's, or a going or ended run's.
StripWire ==
    /\ feed = [up |-> feed.up, wire |-> feed.wire] /\ feed.up \in BOOLEAN
    /\ feed.wire \in Seq(StripFrames)
    /\ ~feed.up => feed.wire = <<>>
    /\ Len(feed.wire) <= MaxFrames
    /\ \A i \in DOMAIN feed.wire : feed.wire[i].run <= job.run

\* What the page holds of the job is of no run that was not.
StripSeen ==
    /\ heard \in StripFrames /\ heard.run <= job.run
    /\ list.run <= job.run /\ job.run <= MaxRuns /\ hidden \in BOOLEAN

\* An end that is not published yet is the job's, or of the run before one that
\* still waits or was cancelled waiting.
StripOwed ==
    owed # NoJob =>
        /\ owed \in RowsOf /\ owed.st \in Ended
        /\ \/ owed = job
           \/ /\ owed.run < job.run
              /\ job.st = "QUEUED" \/ (job.st = "CANCELLED" /\ job.run \in missed)

\* The end is the last word on the feed: it is still to be heard, or it was.
EndIsOnTheWay ==
    OnTheFeed =>
        \/ \E i \in DOMAIN feed.wire :
              feed.wire[i] = job /\ \A j \in DOMAIN feed.wire : j > i => feed.wire[j].st \notin Active
        \/ heard.st \notin Active /\ \A i \in DOMAIN feed.wire : feed.wire[i].st \notin Active

LeavesInv == StripInv /\ StripWire /\ StripSeen /\ StripOwed /\ EndIsOnTheWay

LEMMA LeavesStart == StripInit => LeavesInv
<1> SUFFICES ASSUME StripInit PROVE LeavesInv
    OBVIOUS
<1>1. StripInv
    BY StripStart
<1>2. /\ job = [run |-> 0, st |-> "none"] /\ owed = NoJob /\ feed = [up |-> FALSE, wire |-> <<>>]
      /\ heard = [run |-> 0, st |-> "none"] /\ list = [run |-> 0, st |-> "unread"] /\ hidden = FALSE
    BY DEF StripInit, NoJob, Silent, Unread
<1>3. <<>> \in Seq(StripFrames) /\ Len(<<>>) = 0
    OBVIOUS
<1>4. StripWire
    BY <1>2, <1>3, StripAssumption DEF StripWire
<1>5. StripSeen /\ StripOwed
    <2>1. heard \in StripFrames /\ heard.run <= job.run
        BY <1>2 DEF StripFrames
    <2>2. list.run <= job.run /\ job.run <= MaxRuns
        BY <1>2, StripAssumption
    <2>3. hidden \in BOOLEAN /\ StripOwed
        BY <1>2 DEF StripOwed
    <2>4. QED
        BY <2>1, <2>2, <2>3 DEF StripSeen
<1>6. EndIsOnTheWay
    BY <1>2 DEF EndIsOnTheWay, OnTheFeed, Ended
<1>7. QED
    BY <1>1, <1>4, <1>5, <1>6 DEF LeavesInv

\* A frame that is published goes behind the others.
LEMMA Published ==
    ASSUME StripWire, feed.up, Room, NEW f \in StripFrames, f.run <= job.run, feed' = Publish(f), job' = job
    PROVE  /\ StripWire'
           /\ DOMAIN feed'.wire = 1 .. Len(feed.wire) + 1 /\ DOMAIN feed.wire = 1 .. Len(feed.wire)
           /\ Len(feed.wire) \in Nat /\ feed'.wire[Len(feed.wire) + 1] = f
           /\ \A i \in DOMAIN feed.wire : feed'.wire[i] = feed.wire[i]
<1>1. feed' = [feed EXCEPT !.wire = Append(@, f)]
    BY DEF Publish
<1>2. feed'.up = feed.up /\ feed'.wire = Append(feed.wire, f) /\ feed' = [up |-> feed'.up, wire |-> feed'.wire]
    BY <1>1 DEF StripWire
<1>3. feed.wire \in Seq(StripFrames)
    BY DEF StripWire, StripFrames
<1>4. /\ feed'.wire \in Seq(StripFrames) /\ Len(feed'.wire) = Len(feed.wire) + 1
      /\ DOMAIN feed'.wire = 1 .. Len(feed.wire) + 1 /\ DOMAIN feed.wire = 1 .. Len(feed.wire)
      /\ Len(feed.wire) \in Nat /\ feed'.wire[Len(feed.wire) + 1] = f
      /\ \A i \in DOMAIN feed.wire : feed'.wire[i] = feed.wire[i]
    BY <1>2, <1>3
<1>5. Len(feed'.wire) <= MaxFrames
    BY <1>4, StripAssumption DEF Room
<1>6. \A i \in DOMAIN feed'.wire : feed'.wire[i].run <= job'.run
    <2> SUFFICES ASSUME NEW i \in DOMAIN feed'.wire PROVE feed'.wire[i].run <= job'.run
        OBVIOUS
    <2>1. i \in DOMAIN feed.wire \/ i = Len(feed.wire) + 1
        BY <1>4
    <2>2. QED
        BY <2>1, <1>4 DEF StripWire
<1>7. StripWire'
    BY <1>2, <1>4, <1>5, <1>6 DEF StripWire, StripFrames
<1>8. QED
    BY <1>4, <1>7

LEMMA RowIsFrame == RowsOf \subseteq StripFrames
BY DEF RowsOf, StripFrames

\* What leaves the feed and what was heard of it alone.
LEMMA LeavesAside ==
    ASSUME LeavesInv, UNCHANGED <<feed, heard>>, hidden' \in BOOLEAN, job'.run >= job.run, job' \in RowsOf,
           list'.run <= job'.run, job'.run <= MaxRuns, StripOwed',
           OnTheFeed' => OnTheFeed /\ job' = job
    PROVE  StripWire' /\ StripSeen' /\ EndIsOnTheWay'
<1>1. job.run \in Nat /\ job'.run \in Nat
    BY DEF LeavesInv, StripInv, StripData, RowsOf
<1>2. ASSUME NEW x \in Nat, x <= job.run PROVE x <= job'.run
    BY <1>1, <1>2
<1>3. \A i \in DOMAIN feed.wire : feed.wire[i].run \in Nat
    <2>1. feed.wire \in Seq(StripFrames)
        BY DEF LeavesInv, StripWire, StripFrames
    <2>2. \A i \in DOMAIN feed.wire : feed.wire[i] \in StripFrames
        BY <2>1
    <2>3. QED
        BY <2>2 DEF StripFrames
<1>4. heard.run \in Nat
    BY DEF LeavesInv, StripSeen, StripFrames
<1>5. StripWire'
    <2>1. \A i \in DOMAIN feed.wire : feed.wire[i].run <= job'.run
        BY <1>2, <1>3 DEF LeavesInv, StripWire
    <2>2. feed' = feed
        OBVIOUS
    <2> HIDE DEF Active, Ended
    <2>3. QED
        BY ONLY <2>1, <2>2, LeavesInv DEF LeavesInv, StripWire
<1>6. StripSeen'
    BY <1>2, <1>4 DEF LeavesInv, StripSeen
<1>7. EndIsOnTheWay'
    BY DEF LeavesInv, EndIsOnTheWay
<1>8. QED
    BY <1>5, <1>6, <1>7

LEMMA LeavesJob ==
    ASSUME LeavesInv, JobQueued \/ JobStarts \/ JobEnds
    PROVE  StripWire' /\ StripSeen' /\ StripOwed' /\ EndIsOnTheWay'
<1>1. /\ job \in RowsOf /\ job.run \in Nat /\ job.run <= MaxRuns /\ list.run <= job.run
      /\ hidden \in BOOLEAN /\ list \in RowsOf \cup {Unread} /\ list.run \in Nat
    BY DEF LeavesInv, StripInv, StripData, StripSeen, RowsOf, Unread
<1>2. UNCHANGED <<feed, heard, hidden, list, missed>>
    BY DEF JobQueued, JobStarts, JobEnds
<1>3. CASE JobQueued
    <2>1. job'.run = 1 /\ job' \in RowsOf /\ job.run = 0 /\ job'.st \notin Ended /\ owed' = owed /\ job.st = "none"
        BY <1>3 DEF JobQueued, NoJob, RowsOf, Active, Ended
    <2>2. owed = NoJob
        BY <2>1, <1>1 DEF LeavesInv, StripOwed, RowsOf, Ended
    <2>3. 1 <= MaxRuns /\ list'.run <= 1
        BY <1>1, <1>2, <2>1, StripAssumption
    <2>4. StripOwed' /\ ~OnTheFeed'
        BY <2>1, <2>2 DEF StripOwed, OnTheFeed
    <2>5. QED
        BY <1>1, <1>2, <2>1, <2>3, <2>4, LeavesAside
<1>4. CASE JobStarts
    <2>1. job' = [job EXCEPT !.st = "RUNNING"] /\ owed = NoJob /\ owed' = owed
        BY <1>4 DEF JobStarts
    <2>2. job'.run = job.run /\ job' \in RowsOf /\ job'.st \notin Ended
        BY <2>1, <1>1 DEF RowsOf, Active, Ended
    <2>3. StripOwed' /\ ~OnTheFeed'
        BY <2>1, <2>2 DEF StripOwed, OnTheFeed
    <2>4. QED
        BY <1>1, <1>2, <2>2, <2>3, LeavesAside
<1>5. CASE JobEnds
    <2>1. PICK st \in Ended : job' = [job EXCEPT !.st = st] /\ owed' = job'
        BY <1>5 DEF JobEnds
    <2>2. job'.run = job.run /\ job' \in RowsOf /\ job'.st \in Ended
        BY <2>1, <1>1 DEF RowsOf, Active, Ended
    <2>3. StripOwed' /\ ~OnTheFeed'
        BY <2>1, <2>2 DEF StripOwed, OnTheFeed, NoJob, Ended
    <2>4. QED
        BY <1>1, <1>2, <2>2, <2>3, LeavesAside
<1>6. QED
    BY <1>3, <1>4, <1>5

LEMMA LeavesTicks ==
    ASSUME LeavesInv, JobTicks PROVE StripWire' /\ StripSeen' /\ StripOwed' /\ EndIsOnTheWay'
<1>1. job.st = "RUNNING" /\ Room /\ feed.up /\ feed' = Publish(job)
      /\ UNCHANGED <<job, owed, heard, list, hidden, missed>>
    BY DEF JobTicks
<1>2. job \in StripFrames /\ job.run <= job.run
    BY RowIsFrame DEF LeavesInv, StripInv, StripData, RowsOf
<1>3. StripWire'
    BY <1>1, <1>2, Published DEF LeavesInv
<1>4. StripSeen' /\ StripOwed'
    BY <1>1 DEF LeavesInv, StripSeen, StripOwed
<1>5. EndIsOnTheWay'
    BY <1>1 DEF EndIsOnTheWay, OnTheFeed, Ended
<1>6. QED
    BY <1>3, <1>4, <1>5

LEMMA LeavesPublished ==
    ASSUME LeavesInv, JobPublished PROVE StripWire' /\ StripSeen' /\ StripOwed' /\ EndIsOnTheWay'
<1>1. /\ owed # NoJob /\ Room /\ feed' = Publish(owed) /\ owed' = NoJob
      /\ missed' = IF feed.up THEN missed ELSE missed \cup {owed.run}
      /\ UNCHANGED <<job, heard, list, hidden>>
    BY DEF JobPublished
<1>2. StripSeen' /\ StripOwed'
    BY <1>1 DEF LeavesInv, StripSeen, StripOwed
<1>3. /\ owed \in RowsOf /\ owed.st \in Ended
      /\ \/ owed = job
         \/ owed.run < job.run /\ (job.st = "QUEUED" \/ (job.st = "CANCELLED" /\ job.run \in missed))
    BY <1>1 DEF LeavesInv, StripOwed
<1>4. owed.run <= job.run /\ owed \in StripFrames
    BY <1>3, RowIsFrame DEF LeavesInv, StripInv, StripData, RowsOf
<1>5. CASE ~feed.up
    <2>1. feed' = feed
        BY <1>1, <1>5 DEF Publish
    <2>2. ~OnTheFeed'
        BY <1>1, <1>3, <1>5 DEF OnTheFeed, Ended
    <2>3. StripWire' /\ EndIsOnTheWay'
        BY <2>1, <2>2, <1>1 DEF LeavesInv, StripWire, EndIsOnTheWay
    <2>4. QED
        BY <2>3, <1>2
<1>6. CASE feed.up
    <2> DEFINE n == Len(feed.wire) + 1
    <2>1. StripWire' /\ DOMAIN feed'.wire = 1 .. n /\ n \in Nat /\ n > 0 /\ feed'.wire[n] = owed
        BY <1>1, <1>4, <1>6, Published DEF LeavesInv
    <2>2. OnTheFeed' => owed = job
        BY <1>1, <1>3, <1>6 DEF OnTheFeed, Ended
    <2>3. n \in DOMAIN feed'.wire /\ \A j \in DOMAIN feed'.wire : ~(j > n)
        BY <2>1
    <2>4. EndIsOnTheWay'
        BY <1>1, <2>1, <2>2, <2>3 DEF EndIsOnTheWay
    <2>5. QED
        BY <2>1, <2>4, <1>2
<1>7. QED
    BY <1>5, <1>6

LEMMA LeavesFeed ==
    ASSUME LeavesInv, FeedConnects \/ FeedDrops PROVE StripWire' /\ StripSeen' /\ StripOwed' /\ EndIsOnTheWay'
<1>1. UNCHANGED <<job, owed, heard, list, hidden>>
    BY DEF FeedConnects, FeedDrops
<1>2. missed \subseteq missed'
    BY DEF FeedConnects, FeedDrops
<1>3. StripSeen' /\ StripOwed'
    BY <1>1, <1>2 DEF LeavesInv, StripSeen, StripOwed
<1>4. job \in RowsOf /\ job.run \in Nat /\ job.run <= MaxRuns /\ (job.st # "none" => job.run > 0)
    BY DEF LeavesInv, StripInv, StripData, StripSeen, RowsOf
<1>5. CASE FeedConnects
    <2> DEFINE opening == [run |-> 0, st |-> "open"]
    <2>1. ~feed.up /\ feed' = [up |-> TRUE, wire |-> <<opening>>] /\ missed' = missed
        BY <1>5 DEF FeedConnects
    <2>2. opening \in StripFrames /\ opening.run = 0 /\ opening.st = "open"
        BY DEF StripFrames
    <2> HIDE DEF opening
    <2>3. <<opening>> \in Seq(StripFrames) /\ Len(<<opening>>) = 1 /\ \A i \in DOMAIN <<opening>> : <<opening>>[i] = opening
        BY <2>2
    <2>4. feed'.up = TRUE /\ feed'.wire = <<opening>> /\ feed' = [up |-> feed'.up, wire |-> feed'.wire]
        BY <2>1
    <2>5. StripWire'
        <3>1. feed'.wire \in Seq(StripFrames) /\ feed'.up \in BOOLEAN
            BY <2>3, <2>4
        <3>2. Len(feed'.wire) <= MaxFrames
            BY <2>3, <2>4, StripAssumption
        <3>3. \A i \in DOMAIN feed'.wire : feed'.wire[i].run <= job'.run
            BY <2>2, <2>3, <2>4, <1>1, <1>4
        <3>4. QED
            BY <3>1, <3>2, <3>3, <2>4 DEF StripWire, StripFrames
    <2>6. feed.wire = <<>>
        BY <2>1 DEF LeavesInv, StripWire
    <2>7. OnTheFeed' => heard'.st \notin Active
        BY <2>1, <2>6, <1>1 DEF LeavesInv, EndIsOnTheWay, OnTheFeed
    <2>8. \A i \in DOMAIN feed'.wire : feed'.wire[i].st \notin Active
        BY <2>2, <2>3, <2>4 DEF Active
    <2>9. EndIsOnTheWay'
        BY <2>7, <2>8 DEF EndIsOnTheWay
    <2>10. QED
        BY <2>5, <2>9, <1>3
<1>6. CASE FeedDrops
    <2>1. /\ feed' = [up |-> FALSE, wire |-> <<>>]
          /\ missed' = missed \cup {r \in Runs : \E i \in DOMAIN feed.wire : feed.wire[i].run = r /\ feed.wire[i].st \in Ended}
        BY <1>6 DEF FeedDrops
    <2>2. feed'.up = FALSE /\ feed'.wire = <<>> /\ feed' = [up |-> feed'.up, wire |-> feed'.wire]
        BY <2>1
    <2>3. StripWire'
        <3>1. <<>> \in Seq(StripFrames) /\ Len(<<>>) = 0 /\ \A i \in DOMAIN <<>> : FALSE
            OBVIOUS
        <3>2. Len(feed'.wire) <= MaxFrames
            BY <2>2, <3>1, StripAssumption
        <3>3. \A i \in DOMAIN feed'.wire : feed'.wire[i].run <= job'.run
            BY <2>2, <3>1
        <3>4. QED
            BY <2>2, <3>1, <3>2, <3>3 DEF StripWire, StripFrames
    <2>4. ASSUME OnTheFeed' PROVE heard'.st \notin Active
        <3>1. OnTheFeed /\ job.st \in Ended
            BY <2>4, <1>1, <1>2 DEF OnTheFeed
        <3>2. job.run \in Runs
            BY <3>1, <1>4, StripAssumption DEF Runs, Ended
        <3>3. ~ \E i \in DOMAIN feed.wire : feed.wire[i] = job
            BY <2>1, <2>4, <3>1, <3>2, <1>1 DEF OnTheFeed
        <3>4. QED
            BY <3>1, <3>3, <1>1 DEF LeavesInv, EndIsOnTheWay
    <2>5. EndIsOnTheWay'
        BY <2>2, <2>4 DEF EndIsOnTheWay
    <2>6. QED
        BY <2>3, <2>5, <1>3
<1>7. QED
    BY <1>5, <1>6

\* What is heard leaves the wire from its head.
LEMMA LeavesHeard ==
    ASSUME LeavesInv, FeedHeard PROVE StripWire' /\ StripSeen' /\ StripOwed' /\ EndIsOnTheWay'
<1> DEFINE f == Head(feed.wire)
<1>1. /\ feed.wire # <<>> /\ feed' = [feed EXCEPT !.wire = Tail(@)] /\ heard' = IF f.st = "open" THEN heard ELSE f
      /\ UNCHANGED <<job, owed, list, hidden, missed>>
    BY DEF FeedHeard
<1>2. feed.wire \in Seq(StripFrames)
    BY DEF LeavesInv, StripWire, StripFrames
<1>3. /\ f \in StripFrames /\ f = feed.wire[1] /\ 1 \in DOMAIN feed.wire
      /\ Tail(feed.wire) \in Seq(StripFrames) /\ Len(Tail(feed.wire)) = Len(feed.wire) - 1 /\ Len(feed.wire) \in Nat
      /\ DOMAIN feed.wire = 1 .. Len(feed.wire) /\ DOMAIN Tail(feed.wire) = 1 .. Len(feed.wire) - 1
      /\ \A i \in DOMAIN Tail(feed.wire) : Tail(feed.wire)[i] = feed.wire[i + 1]
    BY <1>1, <1>2
<1>4. feed'.up = feed.up /\ feed'.wire = Tail(feed.wire) /\ feed' = [up |-> feed'.up, wire |-> feed'.wire]
    BY <1>1 DEF LeavesInv, StripWire
<1>5. \A i \in DOMAIN feed'.wire : i + 1 \in DOMAIN feed.wire /\ feed'.wire[i] = feed.wire[i + 1]
    BY <1>3, <1>4
<1>6. StripWire'
    <2>1. feed.up = TRUE \/ feed.wire = <<>>
        BY DEF LeavesInv, StripWire
    <2>2. Len(feed'.wire) <= MaxFrames
        BY <1>3, <1>4, StripAssumption DEF LeavesInv, StripWire
    <2>3. \A i \in DOMAIN feed'.wire : feed'.wire[i].run <= job'.run
        BY <1>1, <1>5 DEF LeavesInv, StripWire
    <2>4. QED
        BY <2>1, <2>2, <2>3, <1>1, <1>3, <1>4 DEF StripWire, StripFrames
<1>7. StripSeen'
    <2>1. f.run <= job.run
        BY <1>3 DEF LeavesInv, StripWire
    <2>2. QED
        BY <2>1, <1>1, <1>3 DEF LeavesInv, StripSeen, StripFrames
<1>8. StripOwed'
    BY <1>1 DEF LeavesInv, StripOwed
<1>9. EndIsOnTheWay'
    <2> SUFFICES ASSUME OnTheFeed'
                 PROVE  \/ \E i \in DOMAIN feed'.wire :
                              feed'.wire[i] = job' /\ \A j \in DOMAIN feed'.wire : j > i => feed'.wire[j].st \notin Active
                        \/ heard'.st \notin Active /\ \A i \in DOMAIN feed'.wire : feed'.wire[i].st \notin Active
        BY DEF EndIsOnTheWay
    <2>1. OnTheFeed /\ job.st \in Ended
        BY <1>1 DEF OnTheFeed
    <2>2. CASE \E i \in DOMAIN feed.wire :
                  feed.wire[i] = job /\ \A j \in DOMAIN feed.wire : j > i => feed.wire[j].st \notin Active
        <3>1. PICK i \in DOMAIN feed.wire :
                  feed.wire[i] = job /\ \A j \in DOMAIN feed.wire : j > i => feed.wire[j].st \notin Active
            BY <2>2
        <3>2. CASE i = 1
            <4>1. heard' = job /\ job.st \notin Active
                BY <1>1, <1>3, <3>1, <3>2, <2>1 DEF Ended, Active
            <4>2. \A j \in DOMAIN feed'.wire : feed'.wire[j].st \notin Active
                BY <1>3, <1>4, <1>5, <3>1, <3>2
            <4>3. QED
                BY <4>1, <4>2
        <3>3. CASE i # 1
            <4>1. i - 1 \in DOMAIN feed'.wire /\ (i - 1) + 1 = i /\ i \in Nat
                BY <1>3, <1>4, <3>3
            <4>2. feed'.wire[i - 1] = job'
                BY <4>1, <1>5, <3>1, <1>1
            <4>3. \A j \in DOMAIN feed'.wire : j > i - 1 => feed'.wire[j].st \notin Active
                BY <1>3, <1>4, <1>5, <3>1, <4>1
            <4>4. QED
                BY <4>1, <4>2, <4>3
        <3>4. QED
            BY <3>2, <3>3
    <2>3. CASE heard.st \notin Active /\ \A i \in DOMAIN feed.wire : feed.wire[i].st \notin Active
        BY <1>1, <1>3, <1>5, <2>3
    <2>4. QED
        BY <2>1, <2>2, <2>3 DEF LeavesInv, EndIsOnTheWay
<1>10. QED
    BY <1>6, <1>7, <1>8, <1>9

LEMMA LeavesList ==
    ASSUME LeavesInv, \/ StripMounts \/ ListPolled \/ ListRead \/ ListAnswered
                      \/ StripAnswered \/ StripRefused \/ StripDismisses
    PROVE  StripWire' /\ StripSeen' /\ StripOwed' /\ EndIsOnTheWay'
<1>1. UNCHANGED <<job, owed, feed, heard, missed>>
    BY DEF StripMounts, ListPolled, ListRead, ListAnswered, StripAnswered, StripRefused, StripDismisses
<1>2. list' = list \/ list' = fetch.row
    BY DEF StripMounts, ListPolled, ListRead, ListAnswered, StripAnswered, StripRefused, StripDismisses
<1>3. hidden' \in BOOLEAN
    BY DEF StripMounts, ListPolled, ListRead, ListAnswered, StripAnswered, StripRefused, StripDismisses, LeavesInv, StripSeen
<1>4. /\ job \in RowsOf /\ job.run <= MaxRuns /\ job.run >= job.run /\ list'.run <= job'.run
    BY <1>1, <1>2, StripAssumption DEF LeavesInv, StripInv, StripData, StripSeen, RowsOf
<1>5. StripOwed' /\ (OnTheFeed' => OnTheFeed /\ job' = job)
    BY <1>1 DEF LeavesInv, StripOwed, OnTheFeed
<1>6. QED
    BY <1>1, <1>3, <1>4, <1>5, LeavesAside

LEMMA LeavesButtons ==
    ASSUME LeavesInv, StripRetries \/ StripCancels
    PROVE  StripWire' /\ StripSeen' /\ StripOwed' /\ EndIsOnTheWay'
<1>1. UNCHANGED <<feed, heard, list, hidden>>
    BY DEF StripRetries, StripCancels
<1>2. /\ job \in RowsOf /\ job.run \in Nat /\ job.run <= MaxRuns /\ list.run <= job.run /\ hidden \in BOOLEAN
      /\ list.run \in Nat
    BY DEF LeavesInv, StripInv, StripData, StripSeen, RowsOf, Unread
<1>3. CASE UNCHANGED <<job, owed, missed>>
    <2>1. StripOwed' /\ (OnTheFeed' => OnTheFeed /\ job' = job)
        BY <1>3 DEF LeavesInv, StripOwed, OnTheFeed
    <2>2. QED
        BY <1>1, <1>2, <1>3, <2>1, LeavesAside
<1>4. CASE StripRetries /\ job.st = "FAILED" /\ job.run < MaxRuns /\ job' = [run |-> job.run + 1, st |-> "QUEUED"]
    <2>1. job'.run = job.run + 1 /\ job'.st = "QUEUED" /\ job' \in RowsOf /\ UNCHANGED <<owed, missed>>
        BY <1>2, <1>4 DEF StripRetries, RowsOf, Active
    <2>2. ~OnTheFeed'
        BY <2>1 DEF OnTheFeed, Ended
    <2>3. owed # NoJob => owed = job
        BY <1>4 DEF LeavesInv, StripOwed
    <2>4. StripOwed'
        BY <2>1, <2>3, <1>2 DEF LeavesInv, StripOwed
    <2>5. list.run <= job'.run /\ job'.run >= job.run /\ job'.run <= MaxRuns
        BY <1>2, <1>4, <2>1, StripAssumption
    <2>6. QED
        BY <1>1, <1>2, <2>1, <2>2, <2>4, <2>5, LeavesAside
<1>5. CASE job.st = "QUEUED" /\ job' = [job EXCEPT !.st = "CANCELLED"] /\ missed' = missed \cup {job.run} /\ owed' = owed
    <2>1. job'.run = job.run /\ job'.st = "CANCELLED" /\ job' \in RowsOf
        BY <1>2, <1>5 DEF RowsOf, Ended
    <2>2. ~OnTheFeed'
        BY <1>5, <2>1 DEF OnTheFeed
    <2>3. owed # NoJob => owed # job
        BY <1>5 DEF LeavesInv, StripOwed, Ended
    <2>4. StripOwed'
        BY <1>5, <2>1, <2>3 DEF LeavesInv, StripOwed
    <2>5. QED
        BY <1>1, <1>2, <2>1, <2>2, <2>4, LeavesAside
<1>6. CASE job.st = "RUNNING" /\ job' = [job EXCEPT !.st = "CANCELLED"] /\ owed' = job'
    <2>1. job'.run = job.run /\ job'.st = "CANCELLED" /\ job' \in RowsOf
        BY <1>2, <1>6 DEF RowsOf, Ended
    <2>2. StripOwed' /\ ~OnTheFeed'
        BY <1>6, <2>1 DEF StripOwed, OnTheFeed, NoJob, Ended
    <2>3. QED
        BY <1>1, <1>2, <2>1, <2>2, LeavesAside
<1>7. CASE StripRetries
    BY <1>3, <1>4, <1>7 DEF StripRetries
<1>8. CASE StripCancels
    BY <1>3, <1>5, <1>6, <1>8 DEF StripCancels
<1>9. QED
    BY <1>7, <1>8

LEMMA LeavesKeeps == LeavesInv /\ [StripNext]_stripVars => LeavesInv'
<1> SUFFICES ASSUME LeavesInv, [StripNext]_stripVars PROVE LeavesInv'
    OBVIOUS
<1>1. StripInv'
    BY StripKeeps DEF LeavesInv
<1>2. CASE UNCHANGED stripVars
    <2>1. StripWire' /\ StripSeen'
        BY <1>2 DEF stripVars, LeavesInv, StripWire, StripSeen
    <2>2. StripOwed' /\ EndIsOnTheWay'
        BY <1>2 DEF stripVars, LeavesInv, StripOwed, EndIsOnTheWay, OnTheFeed
    <2>3. QED
        BY <2>1, <2>2, <1>1 DEF LeavesInv
<1>3. CASE StripNext
    <2>1. StripWire' /\ StripSeen' /\ StripOwed' /\ EndIsOnTheWay'
        BY <1>3, LeavesJob, LeavesTicks, LeavesPublished, LeavesFeed, LeavesHeard, LeavesList, LeavesButtons DEF StripNext
    <2>2. QED
        BY <2>1, <1>1 DEF LeavesInv
<1>4. QED
    BY <1>2, <1>3

LEMMA LeavesHolds == LeavesInv => StripTypeOK /\ FinishedLeaves
<1> SUFFICES ASSUME LeavesInv PROVE StripTypeOK /\ FinishedLeaves
    OBVIOUS
<1>1. StripTypeOK
    <2>1. job.run \in 0 .. MaxRuns /\ job.st \in Active \cup Ended \cup {"none"}
        BY StripAssumption DEF LeavesInv, StripInv, StripData, StripSeen, RowsOf
    <2>2. Len(feed.wire) <= MaxFrames /\ (~feed.up => feed.wire = <<>>)
        BY DEF LeavesInv, StripWire
    <2>3. heard.run <= job.run /\ list.run <= job.run /\ fetch.row.run <= job.run /\ hidden \in BOOLEAN
        BY DEF LeavesInv, StripInv, StripData, StripSeen
    <2>4. fetch.at \in {"shut", "off", "asked", "read"} /\ post \in {"none", "retried", "cancelled", "refused"} /\ announced \in BOOLEAN
        BY DEF LeavesInv, StripInv, StripData
    <2>5. QED
        BY <2>1, <2>2, <2>3, <2>4 DEF StripTypeOK
<1>2. ASSUME job.st \in Ended, owed = NoJob, list = job, feed.wire = <<>>, job.run \notin missed
      PROVE  Shown \notin Active
    <2>1. OnTheFeed
        BY <1>2 DEF OnTheFeed
    <2>2. heard.st \notin Active
        BY <2>1, <1>2 DEF LeavesInv, EndIsOnTheWay
    <2>3. QED
        BY <2>2, <1>2 DEF Shown, Ended, Active
<1>3. FinishedLeaves
    BY <1>2 DEF FinishedLeaves
<1>4. QED
    BY <1>1, <1>3

\* "What stops a job that finished during a dropped connection from sitting at
\* 60% for ever": a job whose end was there to be heard is not shown going
\* (FinishedLeaves), for any number of runs, frames and drops of the feed.
THEOREM FinishedAlwaysLeaves == StripSpec => []FinishedLeaves
<1>1. QED
    BY LeavesStart, LeavesKeeps, LeavesHolds, PTL DEF StripSpec
-----------------------------------------------------------------------------
(* The live tail.                                                          *)

\* What the route may send.
Kinds  == {"ready", "resumed", "lines", "gap", "rotated", "fatal"}
Frames == [kind : Kinds, from : Nat, to : Nat]

\* A feed that ended has no link.
EndInv ==
    /\ link \in [st : {"connecting", "open", "failed", "refused", "closed"}, wire : Seq(Frames)]
    /\ {sentTo, lastId, written, attempt} \subseteq Nat
    /\ status = "ended" => link = NoLink

LEMMA EndStart == FeedInit => EndInv
BY TailFeedAssumption DEF FeedInit, EndInv

LEMMA EndKeeps ==
    ASSUME EndInv, [FeedNext]_feedVars
    PROVE  EndInv' /\ [status = "ended" /\ attempt' = attempt => status' = "ended" /\ entries' = entries]_feedVars
<1> DEFINE Links == [st : {"connecting", "open", "failed", "refused", "closed"}, wire : Seq(Frames)]
<1>0. NoLink = [st |-> "closed", wire |-> <<>>] /\ NoLink \in Links
    BY DEF NoLink
<1>1. CASE UNCHANGED feedVars
    BY <1>1 DEF feedVars, EndInv
<1>2. CASE FileGrows \/ FeedDiagnosed
    BY <1>2 DEF FileGrows, FeedDiagnosed, EndInv
<1>3. CASE RouteAnswers \/ RouteSends \/ RouteNotes \/ LinkLost
    <2>1. link.st \in {"connecting", "open"} /\ status' = status /\ UNCHANGED <<written, lastId, attempt>>
        BY <1>3 DEF RouteAnswers, RouteSends, RouteNotes, LinkLost
    <2>2. status # "ended"
        BY <1>0, <2>1 DEF EndInv
    <2>3. \A k \in Kinds, a \in Nat, b \in Nat : Frame(k, a, b) \in Frames
        BY DEF Frame, Frames
    <2>4. ASSUME NEW f \in Frames
          PROVE  [link EXCEPT !.wire = Append(@, f)] \in Links /\ [st |-> "open", wire |-> <<f>>] \in Links
        <3>1. link.wire \in Seq(Frames) /\ link \in Links
            BY DEF EndInv
        <3>2. Append(link.wire, f) \in Seq(Frames) /\ <<f>> \in Seq(Frames)
            BY <3>1
        <3>3. QED
            BY <3>1, <3>2
    <2>5. CASE RouteAnswers
        <3>1. CASE link' = [st |-> "open", wire |-> <<Frame("ready", 0, 0)>>]
                   /\ sentTo' = IF written > Backfill THEN written - Backfill ELSE 0
            <4>1. sentTo' \in Nat
                BY <3>1, TailFeedAssumption DEF EndInv
            <4>2. link' \in Links
                BY <3>1, <2>3, <2>4 DEF Kinds
            <4>3. QED
                BY <4>1, <4>2, <2>1, <2>2 DEF EndInv
        <3>2. CASE link' = [st |-> "open", wire |-> <<Frame("resumed", 0, 0)>>] /\ sentTo' \in lastId .. written
            <4>1. sentTo' \in Nat
                BY <3>2 DEF EndInv
            <4>2. link' \in Links
                BY <3>2, <2>3, <2>4 DEF Kinds
            <4>3. QED
                BY <4>1, <4>2, <2>1, <2>2 DEF EndInv
        <3>3. CASE link' = [st |-> "refused", wire |-> <<>>] /\ sentTo' = sentTo
            BY <3>3, <2>1, <2>2 DEF EndInv
        <3>4. QED
            BY <2>5, <3>1, <3>2, <3>3 DEF RouteAnswers
    <2>6. CASE RouteSends
        <3>1. PICK k \in {"lines", "gap"}, to \in sentTo + 1 .. written :
                  link' = [link EXCEPT !.wire = Append(@, Frame(k, sentTo + 1, to))] /\ sentTo' = to
            BY <2>6 DEF RouteSends
        <3>2. to \in Nat /\ sentTo + 1 \in Nat /\ k \in Kinds
            BY DEF EndInv, Kinds
        <3>3. link' \in Links
            BY <3>1, <3>2, <2>3, <2>4
        <3>4. QED
            BY <3>1, <3>2, <3>3, <2>1, <2>2 DEF EndInv
    <2>7. CASE RouteNotes
        <3>1. PICK k \in {"rotated", "fatal"} : link' = [link EXCEPT !.wire = Append(@, Frame(k, 0, 0))]
            BY <2>7 DEF RouteNotes
        <3>2. link' \in Links
            BY <3>1, <2>3, <2>4 DEF Kinds
        <3>3. QED
            BY <2>7, <3>2, <2>1, <2>2 DEF EndInv, RouteNotes
    <2>8. CASE LinkLost
        BY <2>8, <2>1, <2>2 DEF LinkLost, EndInv
    <2>9. QED
        BY <1>3, <2>5, <2>6, <2>7, <2>8
<1>4. CASE FeedErrs
    <2>1. /\ UNCHANGED <<sentTo, lastId, written, attempt, entries>>
          /\ \/ link' = NoLink /\ status # "ended"
             \/ link.st = "failed" /\ link' = [st |-> "connecting", wire |-> <<>>] /\ (status # "ended" => status' # "ended")
        BY <1>0, <1>4 DEF FeedErrs, EndInv
    <2>2. link' \in Links
        <3>1. <<>> \in Seq(Frames)
            OBVIOUS
        <3>2. [st |-> "connecting", wire |-> <<>>] \in Links
            BY <3>1
        <3>3. QED
            BY <1>0, <2>1, <3>2
    <2>3. QED
        BY <1>0, <2>1, <2>2 DEF EndInv
<1>5. CASE FeedRetries
    BY <1>5 DEF FeedRetries, EndInv
<1>6. CASE FeedHears
    <2> DEFINE f == Head(link.wire)
               rest == [link EXCEPT !.wire = Tail(@)]
    <2>1. link.wire # <<>> /\ UNCHANGED <<sentTo, written, attempt>>
        BY <1>6 DEF FeedHears
    <2>2. status # "ended"
        BY <1>0, <2>1 DEF EndInv
    <2>3. f \in Frames /\ rest \in Links
        <3>1. link.wire \in Seq(Frames) /\ link \in Links
            BY DEF EndInv
        <3>2. f \in Frames /\ Tail(link.wire) \in Seq(Frames)
            BY <2>1, <3>1
        <3>3. QED
            BY <3>1, <3>2
    <2>4. f.kind \in Kinds /\ f.to \in Nat
        BY <2>3 DEF Frames
    <2>5. \/ status' = "live" /\ link' = rest /\ lastId' = lastId
          \/ status' = status /\ link' = rest /\ lastId' \in {lastId, f.to}
          \/ status' = "ended" /\ link' = NoLink /\ lastId' = lastId
        BY <1>6, <2>4 DEF FeedHears, Ready, Appended, Fatal, Markers, Kinds
    <2>6. QED
        BY <1>0, <2>1, <2>2, <2>3, <2>4, <2>5 DEF EndInv
<1>7. QED
    BY <1>1, <1>2, <1>3, <1>4, <1>5, <1>6 DEF FeedNext

Shows == {Line(n) : n \in Nat} \cup {Marker(m) : m \in Markers}

\* The lines of s are in the file's order, and two that are next to each other
\* follow each other, but for those a stream was resumed past others after.
InOrder(s, past) ==
    \A i, j \in DOMAIN s :
        i < j /\ IsLine(s[i]) /\ IsLine(s[j]) =>
            /\ s[i].line < s[j].line
            /\ j = i + 1 /\ s[i].line \notin past => s[j].line = s[i].line + 1

\* Lines from n on go on from s: they are all later, and n follows its last.
GoesOn(s, n, past) ==
    /\ \A i \in DOMAIN s : IsLine(s[i]) => s[i].line < n
    /\ s # <<>> /\ IsLine(s[Len(s)]) => n = s[Len(s)].line + 1 \/ s[Len(s)].line \in past

FeedBounds ==
    /\ link.st # "open" => link.wire = <<>>
    /\ Len(link.wire) <= MaxOnWire /\ sentTo <= written /\ lastId <= written
    /\ diag \subseteq 0 .. attempt /\ met \in BOOLEAN
    /\ status \in {"connecting", "live", "reconnecting", "ended"}

\* What is on its way begins with the opening, if that was not heard yet; its
\* lines are in order up to the last that was sent.
WireReadsOn ==
    \A k \in DOMAIN link.wire :
        LET f == link.wire[k]
        IN  /\ k > 1 => f.kind \notin {"ready", "resumed"}
            /\ f.to <= sentTo /\ (f.kind = "lines" => f.from <= f.to)
            /\ k = Len(link.wire) /\ f.kind = "lines" => f.to = sentTo
            /\ \A l \in DOMAIN link.wire :
                  k < l /\ f.kind = "lines" /\ link.wire[l].kind = "lines" =>
                      f.to < link.wire[l].from /\ (l = k + 1 => link.wire[l].from = f.to + 1)

\* What is shown is in order, up to the id the browser has.
EntriesReadOn ==
    /\ entries \in Seq(Shows) /\ Len(entries) <= MaxEntries
    /\ InOrder(entries, skipped)
    /\ \A i \in DOMAIN entries : IsLine(entries[i]) => entries[i].line <= lastId
    /\ entries # <<>> /\ IsLine(entries[Len(entries)]) => entries[Len(entries)].line = lastId

\* The opening on its way starts the strip anew.
Anew == link.wire # <<>> /\ link.wire[1].kind = "ready"

\* What is on its way, and what will be sent, goes on from what is shown.
FeedGoesOn ==
    link.st = "open" /\ ~Anew =>
        /\ \A i \in DOMAIN entries : IsLine(entries[i]) => entries[i].line <= sentTo
        /\ \A i \in DOMAIN entries, k \in DOMAIN link.wire :
              IsLine(entries[i]) /\ link.wire[k].kind = "lines" => entries[i].line < link.wire[k].from
        /\ \A k \in {1, 2} :
              k = 1 \/ (Len(link.wire) >= 1 /\ link.wire[1].kind = "resumed") =>
                  /\ k = Len(link.wire) + 1 => GoesOn(entries, sentTo + 1, skipped)
                  /\ k \in DOMAIN link.wire /\ link.wire[k].kind = "lines" => GoesOn(entries, link.wire[k].from, skipped)

\* Until the stream was met there is nothing to go on from.
NotMet == ~met => entries = <<>> /\ lastId = 0 /\ (link.st = "open" => Anew)

FeedInv == EndInv /\ FeedBounds /\ WireReadsOn /\ EntriesReadOn /\ FeedGoesOn /\ NotMet

LEMMA ShowKinds ==
    /\ \A n \in Nat : Line(n) \in Shows /\ IsLine(Line(n)) /\ Line(n).line = n
    /\ \A m \in Markers : Marker(m) \in Shows /\ ~IsLine(Marker(m))
<1>1. ASSUME NEW n \in Nat PROVE Line(n) \in Shows /\ IsLine(Line(n)) /\ Line(n).line = n
    <2>1. \A m : [line |-> n] # [marker |-> m]
        OBVIOUS
    <2>2. IsLine(Line(n))
        BY <2>1 DEF IsLine, Line
    <2>3. QED
        BY <2>2 DEF Shows, Line
<1>2. ASSUME NEW m \in Markers PROVE Marker(m) \in Shows /\ ~IsLine(Marker(m))
    BY <1>2 DEF Shows, Marker, IsLine
<1>3. QED
    BY <1>1, <1>2

\* The cap takes from the front.
LEMMA CutTakes ==
    ASSUME NEW s \in Seq(Shows)
    PROVE  /\ Cut(s) \in Seq(Shows) /\ Len(Cut(s)) <= MaxEntries
           /\ \E d \in Nat : Len(s) = Len(Cut(s)) + d /\ \A i \in 1 .. Len(Cut(s)) : Cut(s)[i] = s[i + d]
<1> DEFINE d == IF Len(s) > MaxEntries THEN Len(s) - MaxEntries ELSE 0
<1>1. MaxEntries \in Nat /\ MaxEntries > 0 /\ Len(s) \in Nat
    BY TailFeedAssumption
<1>2. CASE Len(s) > MaxEntries
    <2> DEFINE t == SubSeq(s, Len(s) - MaxEntries + 1, Len(s))
    <2>1. Cut(s) = t
        BY <1>2 DEF Cut
    <2>2. t \in Seq(Shows) /\ Len(t) = MaxEntries
        BY <1>1, <1>2, SubSeqProperties
    <2>3. \A i \in 1 .. Len(t) : t[i] = s[i + (Len(s) - MaxEntries)]
        BY <1>1, <1>2, <2>2, SubSeqProperties
    <2> HIDE DEF t
    <2>4. Len(s) - MaxEntries \in Nat /\ Len(s) = Len(t) + (Len(s) - MaxEntries)
        BY <1>1, <1>2, <2>2
    <2>5. Len(t) <= MaxEntries
        BY <1>1, <2>2
    <2>6. QED
        BY <2>1, <2>2, <2>3, <2>4, <2>5
<1>3. CASE ~(Len(s) > MaxEntries)
    <2>1. Cut(s) = s
        BY <1>3 DEF Cut
    <2>2. Len(s) <= MaxEntries /\ Len(s) = Len(s) + 0 /\ \A i \in 1 .. Len(s) : s[i] = s[i + 0]
        BY <1>1, <1>3
    <2>3. QED
        BY <2>1, <2>2
<1>4. QED
    BY <1>2, <1>3

\* What is left of what was in order is in order, and has its last.
LEMMA CutInOrder ==
    ASSUME NEW past, NEW s \in Seq(Shows), InOrder(s, past)
    PROVE  /\ InOrder(Cut(s), past)
           /\ \A i \in DOMAIN Cut(s) : \E j \in DOMAIN s : Cut(s)[i] = s[j]
           /\ Cut(s) # <<>> => s # <<>> /\ Cut(s)[Len(Cut(s))] = s[Len(s)]
<1> DEFINE t == Cut(s)
<1>1. t \in Seq(Shows)
    BY CutTakes
<1>2. PICK d \in Nat : Len(s) = Len(t) + d /\ \A i \in 1 .. Len(t) : t[i] = s[i + d]
    BY CutTakes
<1> HIDE DEF t
<1>3. DOMAIN t = 1 .. Len(t) /\ DOMAIN s = 1 .. Len(s) /\ Len(t) \in Nat /\ Len(s) \in Nat
    BY <1>1
<1>4. \A i \in DOMAIN t : i + d \in DOMAIN s /\ t[i] = s[i + d] /\ i \in Nat
    BY <1>2, <1>3
<1>5. InOrder(t, past)
    <2> SUFFICES ASSUME NEW i \in DOMAIN t, NEW j \in DOMAIN t, i < j, IsLine(t[i]), IsLine(t[j])
                 PROVE  /\ t[i].line < t[j].line
                        /\ j = i + 1 /\ t[i].line \notin past => t[j].line = t[i].line + 1
        BY DEF InOrder
    <2>1. i + d < j + d /\ (j = i + 1 => j + d = (i + d) + 1)
        BY <1>4
    <2>2. IsLine(s[i + d]) /\ IsLine(s[j + d])
        BY <1>4
    <2>3. /\ s[i + d].line < s[j + d].line
          /\ j + d = (i + d) + 1 /\ s[i + d].line \notin past => s[j + d].line = s[i + d].line + 1
        BY <1>4, <2>1, <2>2 DEF InOrder
    <2>4. QED
        BY <1>4, <2>1, <2>3
<1>6. t # <<>> => s # <<>> /\ t[Len(t)] = s[Len(s)]
    <2> SUFFICES ASSUME t # <<>> PROVE s # <<>> /\ t[Len(t)] = s[Len(s)]
        OBVIOUS
    <2>1. Len(t) \in DOMAIN t
        BY <1>1, <1>3
    <2>2. t[Len(t)] = s[Len(t) + d] /\ Len(t) + d = Len(s) /\ Len(s) > 0
        BY <2>1, <1>2, <1>3, <1>4
    <2>3. QED
        BY <2>2
<1>7. \A i \in DOMAIN t : \E j \in DOMAIN s : t[i] = s[j]
    BY <1>4
<1>8. QED
    BY <1>5, <1>6, <1>7 DEF t

\* Lines that go on from s stay in order after it.
LEMMA LinesFollow ==
    ASSUME NEW past, NEW s \in Seq(Shows), NEW a \in Nat, NEW b \in Nat, a <= b,
           InOrder(s, past), GoesOn(s, a, past)
    PROVE  LET t == s \o Numbered(a, b)
           IN  /\ t \in Seq(Shows) /\ InOrder(t, past) /\ t # <<>> /\ t[Len(t)] = Line(b)
               /\ \A i \in DOMAIN t : IsLine(t[i]) => t[i].line <= b
<1> DEFINE u == Numbered(a, b)
           t == s \o u
           n == b - a + 1
<1>1. n \in Nat /\ n > 0 /\ a + n = b + 1
    OBVIOUS
<1>2. u \in Seq(Shows) /\ Len(u) = n /\ \A i \in 1 .. n : u[i] = Line(a + i - 1) /\ a + i - 1 \in Nat
    <2>1. u = [i \in 1 .. n |-> Line(a + i - 1)]
        BY DEF Numbered
    <2>2. \A i \in 1 .. n : a + i - 1 \in Nat
        BY <1>1
    <2>3. \A i \in 1 .. n : Line(a + i - 1) \in Shows
        BY <2>2, ShowKinds
    <2> HIDE DEF n
    <2>4. u \in [1 .. n -> Shows]
        BY <2>1, <2>3
    <2> HIDE DEF u
    <2>5. u \in Seq(Shows) /\ Len(u) = n
        BY <2>4, <1>1
    <2>6. QED
        BY <2>1, <2>2, <2>5
<1> HIDE DEF u
<1>3. t \in Seq(Shows) /\ Len(t) = Len(s) + n /\ Len(s) \in Nat /\ DOMAIN t = 1 .. Len(s) + n /\ DOMAIN s = 1 .. Len(s)
    BY <1>1, <1>2
<1>4. \A i \in 1 .. Len(s) : t[i] = s[i]
    BY <1>2
<1>5. \A i \in Len(s) + 1 .. Len(s) + n : t[i] = u[i - Len(s)]
    BY <1>1, <1>2
<1>6. \A i \in Len(s) + 1 .. Len(s) + n : i - Len(s) \in 1 .. n /\ t[i] = Line(a + (i - Len(s)) - 1) /\ IsLine(t[i]) /\ t[i].line = a + (i - Len(s)) - 1
    <2> SUFFICES ASSUME NEW i \in Len(s) + 1 .. Len(s) + n
                 PROVE  i - Len(s) \in 1 .. n /\ t[i] = Line(a + (i - Len(s)) - 1) /\ IsLine(t[i]) /\ t[i].line = a + (i - Len(s)) - 1
        OBVIOUS
    <2>1. i - Len(s) \in 1 .. n
        BY <1>1, <1>3
    <2>2. t[i] = Line(a + (i - Len(s)) - 1) /\ a + (i - Len(s)) - 1 \in Nat
        BY <2>1, <1>2, <1>5
    <2>3. QED
        BY <2>1, <2>2, ShowKinds
<1> HIDE DEF t
<1>7. \A i \in DOMAIN s : IsLine(s[i]) => s[i].line \in Nat
    <2> SUFFICES ASSUME NEW i \in DOMAIN s, IsLine(s[i]) PROVE s[i].line \in Nat
        OBVIOUS
    <2>1. s[i] \in Shows
        BY <1>3
    <2>2. QED
        BY <2>1, ShowKinds DEF Shows
<1>8. InOrder(t, past)
    <2> SUFFICES ASSUME NEW i \in DOMAIN t, NEW j \in DOMAIN t, i < j, IsLine(t[i]), IsLine(t[j])
                 PROVE  /\ t[i].line < t[j].line
                        /\ j = i + 1 /\ t[i].line \notin past => t[j].line = t[i].line + 1
        BY DEF InOrder
    <2>1. CASE j <= Len(s)
        <3>1. i \in DOMAIN s /\ j \in DOMAIN s /\ t[i] = s[i] /\ t[j] = s[j]
            BY <2>1, <1>3, <1>4
        <3>2. QED
            BY <3>1 DEF InOrder
    <2>2. CASE i > Len(s)
        <3>1. i \in Len(s) + 1 .. Len(s) + n /\ j \in Len(s) + 1 .. Len(s) + n
            BY <2>2, <1>3
        <3>2. t[i].line = a + (i - Len(s)) - 1 /\ t[j].line = a + (j - Len(s)) - 1
            BY <3>1, <1>6
        <3> HIDE DEF n
        <3>3. QED
            BY <3>1, <3>2, <1>3
    <2>3. CASE i <= Len(s) /\ j > Len(s)
        <3>1. i \in DOMAIN s /\ t[i] = s[i] /\ s[i].line < a /\ s[i].line \in Nat
            BY <2>3, <1>3, <1>4, <1>7 DEF GoesOn
        <3>2. t[j].line = a + (j - Len(s)) - 1 /\ j - Len(s) >= 1 /\ t[j].line >= a
            <4>1. j \in Len(s) + 1 .. Len(s) + n
                BY <2>3, <1>3
            <4>2. t[j].line = a + (j - Len(s)) - 1
                BY <4>1, <1>6
            <4> HIDE DEF n
            <4>3. QED
                BY <4>1, <4>2, <1>3
        <3>3. t[i].line < t[j].line
            BY <3>1, <3>2
        <3>4. ASSUME j = i + 1, t[i].line \notin past PROVE t[j].line = t[i].line + 1
            <4>1. i = Len(s) /\ j - Len(s) = 1 /\ s # <<>>
                BY <2>3, <3>4, <1>3, <3>1
            <4>2. a = s[Len(s)].line + 1
                BY <4>1, <3>1, <3>4 DEF GoesOn
            <4>3. QED
                BY <4>1, <4>2, <3>1, <3>2
        <3>5. QED
            BY <3>3, <3>4
    <2>4. QED
        BY <2>1, <2>2, <2>3, <1>3
<1>9. \A i \in DOMAIN t : IsLine(t[i]) => t[i].line <= b
    <2> SUFFICES ASSUME NEW i \in DOMAIN t, IsLine(t[i]) PROVE t[i].line <= b
        OBVIOUS
    <2>1. CASE i <= Len(s)
        <3>1. i \in DOMAIN s /\ t[i] = s[i] /\ s[i].line < a /\ s[i].line \in Nat
            BY <2>1, <1>3, <1>4, <1>7 DEF GoesOn
        <3>2. QED
            BY <3>1
    <2>2. CASE i > Len(s)
        <3>1. i \in Len(s) + 1 .. Len(s) + n
            BY <2>2, <1>3
        <3>2. t[i].line = a + (i - Len(s)) - 1 /\ i - Len(s) <= n
            BY <3>1, <1>6
        <3>3. QED
            BY <3>1, <3>2, <1>1, <1>3
    <2>3. QED
        BY <2>1, <2>2, <1>3
<1>10. t # <<>> /\ t[Len(t)] = Line(b)
    <2>1. Len(s) + n \in Len(s) + 1 .. Len(s) + n /\ Len(t) = Len(s) + n
        BY <1>1, <1>3
    <2>2. t[Len(t)] = Line(a + ((Len(s) + n) - Len(s)) - 1)
        BY <2>1, <1>6
    <2>3. a + ((Len(s) + n) - Len(s)) - 1 = b
        BY <1>1, <1>3
    <2>4. QED
        BY <2>1, <2>2, <2>3, <1>1, <1>3
<1>11. QED
    BY <1>3, <1>8, <1>9, <1>10 DEF t, u

\* A marker leaves the lines as they are, and is no line.
LEMMA MarkFollows ==
    ASSUME NEW past, NEW s \in Seq(Shows), NEW m \in Markers, InOrder(s, past)
    PROVE  LET t == s \o <<Marker(m)>>
           IN  /\ t \in Seq(Shows) /\ InOrder(t, past) /\ t # <<>> /\ ~IsLine(t[Len(t)])
               /\ \A i \in DOMAIN t : IsLine(t[i]) => i \in DOMAIN s /\ t[i] = s[i]
<1> DEFINE u == <<Marker(m)>>
           t == s \o u
<1>1. Marker(m) \in Shows /\ ~IsLine(Marker(m))
    BY ShowKinds
<1>2. u \in Seq(Shows) /\ Len(u) = 1 /\ u[1] = Marker(m)
    BY <1>1
<1> HIDE DEF u
<1>3. t \in Seq(Shows) /\ Len(t) = Len(s) + 1 /\ Len(s) \in Nat /\ DOMAIN t = 1 .. Len(s) + 1 /\ DOMAIN s = 1 .. Len(s)
    BY <1>2, ConcatProperties
<1>4. (\A i \in 1 .. Len(s) : t[i] = s[i]) /\ t[Len(s) + 1] = u[1]
    <2>1. \A i \in 1 .. Len(s) + Len(u) : t[i] = IF i <= Len(s) THEN s[i] ELSE u[i - Len(s)]
        BY <1>2, ConcatProperties
    <2>2. QED
        BY <2>1, <1>2, <1>3
<1> HIDE DEF t
<1>5. t # <<>> /\ ~IsLine(t[Len(t)])
    BY <1>1, <1>2, <1>3, <1>4
<1>6. \A i \in DOMAIN t : IsLine(t[i]) => i \in DOMAIN s /\ t[i] = s[i]
    <2> SUFFICES ASSUME NEW i \in DOMAIN t, IsLine(t[i]) PROVE i \in DOMAIN s /\ t[i] = s[i]
        OBVIOUS
    <2>1. i # Len(s) + 1
        BY <1>1, <1>2, <1>4
    <2>2. QED
        BY <2>1, <1>3, <1>4
<1>7. InOrder(t, past)
    BY <1>6 DEF InOrder
<1>8. QED
    BY <1>3, <1>5, <1>6, <1>7 DEF t, u

LEMMA FeedData ==
    ASSUME FeedInv
    PROVE  /\ link.wire \in Seq(Frames) /\ Len(link.wire) \in Nat /\ DOMAIN link.wire = 1 .. Len(link.wire)
           /\ \A k \in DOMAIN link.wire : /\ link.wire[k] \in Frames /\ link.wire[k].kind \in Kinds
                                          /\ link.wire[k].from \in Nat /\ link.wire[k].to \in Nat
           /\ sentTo \in Nat /\ lastId \in Nat /\ written \in Nat /\ attempt \in Nat
           /\ entries \in Seq(Shows)
           /\ \A i \in DOMAIN entries : IsLine(entries[i]) => entries[i].line \in Nat
<1>1. link.wire \in Seq(Frames) /\ sentTo \in Nat /\ lastId \in Nat /\ written \in Nat /\ attempt \in Nat
    BY DEF FeedInv, EndInv
<1>2. \A k \in DOMAIN link.wire : link.wire[k] \in Frames
    BY <1>1
<1>3. entries \in Seq(Shows)
    BY DEF FeedInv, EntriesReadOn
<1>4. \A i \in DOMAIN entries : entries[i] \in Shows
    BY <1>3
<1>5. \A i \in DOMAIN entries : IsLine(entries[i]) => entries[i].line \in Nat
    BY <1>4, ShowKinds DEF Shows
<1>6. Len(link.wire) \in Nat /\ DOMAIN link.wire = 1 .. Len(link.wire)
    BY <1>1
<1>7. QED
    BY <1>1, <1>2, <1>3, <1>5, <1>6 DEF Frames

LEMMA FeedStart == FeedInit => FeedInv
<1> SUFFICES ASSUME FeedInit PROVE FeedInv
    OBVIOUS
<1>1. EndInv
    BY EndStart
<1>2. /\ entries = <<>> /\ link = [st |-> "connecting", wire |-> <<>>] /\ sentTo = 0 /\ lastId = 0
      /\ met = FALSE /\ written \in Nat /\ diag = {} /\ attempt = 0 /\ skipped = {} /\ status = "connecting"
    BY TailFeedAssumption DEF FeedInit
<1>3. link.st = "connecting" /\ link.wire = <<>> /\ Len(<<>>) = 0 /\ DOMAIN <<>> = {} /\ <<>> \in Seq(Shows)
    BY <1>2
<1>4. FeedBounds /\ NotMet
    <2>1. met \in BOOLEAN /\ NotMet
        BY <1>2, <1>3 DEF NotMet
    <2>2. Len(link.wire) <= MaxOnWire /\ sentTo <= written /\ lastId <= written
        BY <1>2, <1>3, TailFeedAssumption
    <2>3. QED
        BY <1>2, <1>3, <2>1, <2>2 DEF FeedBounds
<1>5. WireReadsOn /\ EntriesReadOn /\ FeedGoesOn
    BY <1>2, <1>3, TailFeedAssumption DEF WireReadsOn, EntriesReadOn, FeedGoesOn, InOrder
<1>6. QED
    BY <1>1, <1>4, <1>5 DEF FeedInv

\* With no lines there is nothing to be out of order, or to go on from.
LEMMA NoLines ==
    ASSUME NEW s, \A i \in DOMAIN s : ~IsLine(s[i]), s = <<>> \/ ~IsLine(s[Len(s)])
    PROVE  /\ \A past : InOrder(s, past)
           /\ \A n, past : GoesOn(s, n, past)
BY DEF InOrder, GoesOn

\* A frame is put behind the others.
LEMMA FrameSent ==
    ASSUME FeedInv, link.st = "open", NEW f \in Frames, f.kind \notin {"ready", "resumed"},
           link' = [link EXCEPT !.wire = Append(@, f)], sentTo' \in Nat, sentTo <= sentTo', f.to <= sentTo',
           f.kind = "lines" => f.from = sentTo + 1 /\ f.to = sentTo' /\ f.from <= f.to,
           UNCHANGED <<entries, lastId, met, skipped>>
    PROVE  WireReadsOn' /\ EntriesReadOn' /\ FeedGoesOn' /\ NotMet'
<1> DEFINE w == link.wire
           n == Len(w) + 1
<1>1. /\ w \in Seq(Frames) /\ Len(w) \in Nat /\ DOMAIN w = 1 .. Len(w) /\ sentTo \in Nat
      /\ \A k \in DOMAIN w : w[k].from \in Nat /\ w[k].to \in Nat
      /\ f.from \in Nat /\ f.to \in Nat
    BY FeedData DEF Frames
<1>2. link'.wire = Append(w, f) /\ link'.st = "open"
    BY DEF FeedInv, EndInv
<1>3. /\ Len(link'.wire) = n /\ DOMAIN link'.wire = 1 .. n /\ link'.wire[n] = f
      /\ \A k \in DOMAIN w : link'.wire[k] = w[k]
      /\ n \in Nat /\ n > 0
    BY <1>1, <1>2
<1>4. \A k \in 1 .. n : k \in DOMAIN w \/ k = n
    BY <1>1
<1>5. WireReadsOn'
    <2> SUFFICES ASSUME NEW k \in 1 .. n
                 PROVE  LET g == link'.wire[k]
                        IN  /\ k > 1 => g.kind \notin {"ready", "resumed"}
                            /\ g.to <= sentTo' /\ (g.kind = "lines" => g.from <= g.to)
                            /\ k = n /\ g.kind = "lines" => g.to = sentTo'
                            /\ \A l \in 1 .. n :
                                  k < l /\ g.kind = "lines" /\ link'.wire[l].kind = "lines" =>
                                      g.to < link'.wire[l].from /\ (l = k + 1 => link'.wire[l].from = g.to + 1)
        BY <1>3 DEF WireReadsOn
    <2>1. CASE k = n
        <3>1. \A l \in 1 .. n : ~(k < l)
            BY <2>1, <1>3
        <3>2. QED
            BY <3>1, <2>1, <1>3
    <2>2. CASE k \in DOMAIN w /\ k # n
        <3>1. /\ k > 1 => w[k].kind \notin {"ready", "resumed"}
              /\ w[k].to <= sentTo /\ (w[k].kind = "lines" => w[k].from <= w[k].to)
              /\ k = Len(w) /\ w[k].kind = "lines" => w[k].to = sentTo
              /\ \A l \in DOMAIN w :
                    k < l /\ w[k].kind = "lines" /\ w[l].kind = "lines" =>
                        w[k].to < w[l].from /\ (l = k + 1 => w[l].from = w[k].to + 1)
            BY <2>2 DEF FeedInv, WireReadsOn
        <3>2. link'.wire[k] = w[k] /\ w[k].to \in Nat /\ w[k].to <= sentTo'
            BY <3>1, <2>2, <1>1, <1>3
        <3>3. ASSUME NEW l \in 1 .. n, k < l, w[k].kind = "lines", link'.wire[l].kind = "lines"
              PROVE  w[k].to < link'.wire[l].from /\ (l = k + 1 => link'.wire[l].from = w[k].to + 1)
            <4>1. CASE l \in DOMAIN w
                BY <4>1, <3>1, <3>3, <1>3
            <4>2. CASE l = n
                <5>1. f.from = sentTo + 1 /\ link'.wire[l] = f
                    BY <4>2, <3>3, <1>3
                <5>2. l = k + 1 => k = Len(w)
                    BY <4>2, <2>2, <1>1
                <5>3. w[k].to < sentTo + 1
                    BY <3>1, <3>2, <1>1
                <5>4. ASSUME l = k + 1 PROVE w[k].to = sentTo
                    BY <5>2, <5>4, <3>1, <3>3
                <5>5. QED
                    BY <5>1, <5>3, <5>4
            <4>3. QED
                BY <4>1, <4>2, <1>4
        <3>4. QED
            BY <2>2, <3>1, <3>2, <3>3
    <2>3. QED
        BY <2>1, <2>2, <1>4
<1>6. EntriesReadOn'
    BY DEF FeedInv, EntriesReadOn
<1>7. Anew => Anew'
    <2> SUFFICES ASSUME Anew PROVE Anew'
        OBVIOUS
    <2>1. 1 \in DOMAIN w /\ w[1].kind = "ready"
        BY <1>1 DEF Anew
    <2>2. link'.wire[1].kind = "ready" /\ link'.wire # <<>>
        BY <2>1, <1>3
    <2>3. QED
        BY <2>2 DEF Anew
<1>8. NotMet'
    BY <1>2, <1>7 DEF FeedInv, NotMet
<1>9. FeedGoesOn'
    <2> SUFFICES ASSUME ~Anew'
                 PROVE  /\ \A i \in DOMAIN entries : IsLine(entries[i]) => entries[i].line <= sentTo'
                        /\ \A i \in DOMAIN entries, k \in 1 .. n :
                              IsLine(entries[i]) /\ link'.wire[k].kind = "lines" => entries[i].line < link'.wire[k].from
                        /\ \A k \in {1, 2} :
                              k = 1 \/ (n >= 1 /\ link'.wire[1].kind = "resumed") =>
                                  /\ k = n + 1 => GoesOn(entries, sentTo' + 1, skipped)
                                  /\ k \in 1 .. n /\ link'.wire[k].kind = "lines" => GoesOn(entries, link'.wire[k].from, skipped)
        BY <1>3 DEF FeedGoesOn
    <2>1. ~Anew
        BY <1>7
    <2>2. /\ \A i \in DOMAIN entries : IsLine(entries[i]) => entries[i].line <= sentTo /\ entries[i].line \in Nat
          /\ \A i \in DOMAIN entries, k \in DOMAIN w :
                IsLine(entries[i]) /\ w[k].kind = "lines" => entries[i].line < w[k].from
        BY <2>1, FeedData DEF FeedInv, FeedGoesOn
    <2>3. \A k \in {1, 2} :
              k = 1 \/ (Len(w) >= 1 /\ w[1].kind = "resumed") =>
                  /\ k = Len(w) + 1 => GoesOn(entries, sentTo + 1, skipped)
                  /\ k \in DOMAIN w /\ w[k].kind = "lines" => GoesOn(entries, w[k].from, skipped)
        BY <2>1 DEF FeedInv, FeedGoesOn
    <2>4. \A i \in DOMAIN entries : IsLine(entries[i]) => entries[i].line <= sentTo'
        BY <2>2, <1>1
    <2>5. ASSUME NEW i \in DOMAIN entries, NEW k \in 1 .. n, IsLine(entries[i]), link'.wire[k].kind = "lines"
          PROVE  entries[i].line < link'.wire[k].from
        <3>1. CASE k \in DOMAIN w
            BY <3>1, <2>2, <2>5, <1>3
        <3>2. CASE k = n
            <4>1. link'.wire[k] = f /\ f.from = sentTo + 1
                BY <3>2, <2>5, <1>3
            <4>2. QED
                BY <4>1, <2>2, <2>5, <1>1
        <3>3. QED
            BY <3>1, <3>2, <1>4
    <2>6. ASSUME NEW k \in {1, 2}, k = 1 \/ (n >= 1 /\ link'.wire[1].kind = "resumed")
          PROVE  /\ k = n + 1 => GoesOn(entries, sentTo' + 1, skipped)
                 /\ k \in 1 .. n /\ link'.wire[k].kind = "lines" => GoesOn(entries, link'.wire[k].from, skipped)
        <3>1. k = 1 \/ (Len(w) >= 1 /\ w[1].kind = "resumed")
            <4>1. CASE Len(w) = 0
                BY <4>1, <2>6, <1>3
            <4>2. CASE Len(w) >= 1
                <5>1. 1 \in DOMAIN w
                    BY <4>2, <1>1
                <5>2. QED
                    BY <5>1, <4>2, <2>6, <1>3
            <4>3. QED
                BY <4>1, <4>2, <1>1
        <3>2. k # n + 1
            <4>1. CASE k = 1
                BY <4>1, <1>3
            <4>2. CASE k = 2
                <5>1. Len(w) >= 1
                    BY <4>2, <3>1
                <5>2. QED
                    BY <5>1, <4>2, <1>1
            <4>3. QED
                BY <4>1, <4>2
        <3>3. ASSUME k \in 1 .. n, link'.wire[k].kind = "lines" PROVE GoesOn(entries, link'.wire[k].from, skipped)
            <4>1. CASE k \in DOMAIN w
                BY <4>1, <3>1, <3>3, <2>3, <1>3
            <4>2. CASE k = n
                BY <4>2, <3>1, <3>3, <2>3, <1>3
            <4>3. QED
                BY <4>1, <4>2, <3>3, <1>4
        <3>4. QED
            BY <3>2, <3>3
    <2>7. QED
        BY <2>4, <2>5, <2>6
<1>10. QED
    BY <1>5, <1>6, <1>8, <1>9

\* With no link there is nothing on its way.
LEMMA FeedShut ==
    ASSUME FeedInv, link'.st # "open", link'.wire = <<>>, UNCHANGED <<entries, lastId, met, skipped>>
    PROVE  WireReadsOn' /\ EntriesReadOn' /\ FeedGoesOn' /\ NotMet'
<1>1. DOMAIN link'.wire = {}
    OBVIOUS
<1>2. WireReadsOn' /\ FeedGoesOn'
    BY <1>1 DEF WireReadsOn, FeedGoesOn
<1>3. EntriesReadOn' /\ NotMet'
    BY DEF FeedInv, EntriesReadOn, NotMet
<1>4. QED
    BY <1>2, <1>3

LEMMA FeedRouteKeeps ==
    ASSUME FeedInv, RouteAnswers PROVE WireReadsOn' /\ EntriesReadOn' /\ FeedGoesOn' /\ NotMet'
<1>1. UNCHANGED <<entries, status, lastId, met, written>>
    BY DEF RouteAnswers
<1>2. /\ sentTo \in Nat /\ lastId \in Nat /\ written \in Nat
      /\ \A i \in DOMAIN entries : IsLine(entries[i]) => entries[i].line \in Nat
    BY FeedData
<1>3. ASSUME NEW f \in Frames, f.kind \in {"ready", "resumed"}, f.to = 0, link' = [st |-> "open", wire |-> <<f>>], sentTo' \in Nat
      PROVE  /\ link'.st = "open" /\ link'.wire # <<>> /\ Len(link'.wire) = 1 /\ DOMAIN link'.wire = {1} /\ link'.wire[1] = f
             /\ WireReadsOn'
    <2>1. link'.st = "open" /\ link'.wire = <<f>>
        BY <1>3
    <2>2. Len(<<f>>) = 1 /\ <<f>>[1] = f /\ DOMAIN <<f>> = 1 .. 1 /\ <<f>> # <<>> /\ 1 .. 1 = {1}
        OBVIOUS
    <2>3. WireReadsOn'
        BY <2>1, <2>2, <1>3 DEF WireReadsOn
    <2>4. QED
        BY <2>1, <2>2, <2>3
<1>4. \A k \in Kinds : LET f == Frame(k, 0, 0) IN f \in Frames /\ f.kind = k /\ f.to = 0
    BY DEF Frame, Frames
<1>5. CASE sentTo' \in Nat /\ link' = [st |-> "open", wire |-> <<Frame("ready", 0, 0)>>] /\ skipped' = skipped
    <2> DEFINE f == Frame("ready", 0, 0)
    <2>1. f \in Frames /\ f.kind = "ready" /\ f.to = 0
        BY <1>4 DEF Kinds
    <2> HIDE DEF f
    <2>2. link' = [st |-> "open", wire |-> <<f>>]
        BY <1>5 DEF f
    <2>3. Anew' /\ WireReadsOn'
        BY <1>3, <1>5, <2>1, <2>2 DEF Anew
    <2>4. EntriesReadOn'
        BY <1>1, <1>5 DEF FeedInv, EntriesReadOn
    <2>5. FeedGoesOn' /\ NotMet'
        BY <2>3, <1>1 DEF FeedInv, FeedGoesOn, NotMet
    <2>6. QED
        BY <2>3, <2>4, <2>5
<1>6. CASE /\ lastId > 0 /\ link' = [st |-> "open", wire |-> <<Frame("resumed", 0, 0)>>] /\ sentTo' \in lastId .. written
           /\ skipped' = IF sentTo' > lastId THEN skipped \cup {lastId} ELSE skipped
    <2> DEFINE f == Frame("resumed", 0, 0)
    <2>1. f \in Frames /\ f.kind = "resumed" /\ f.to = 0
        BY <1>4 DEF Kinds
    <2> HIDE DEF f
    <2>2. link' = [st |-> "open", wire |-> <<f>>]
        BY <1>6 DEF f
    <2>3. sentTo' \in Nat /\ lastId <= sentTo' /\ skipped \subseteq skipped' /\ (sentTo' = lastId \/ lastId \in skipped')
        BY <1>2, <1>6
    <2>4. /\ link'.st = "open" /\ link'.wire # <<>> /\ Len(link'.wire) = 1 /\ DOMAIN link'.wire = {1} /\ link'.wire[1] = f
          /\ WireReadsOn'
        BY <1>3, <2>1, <2>2, <2>3
    <2>5. /\ entries \in Seq(Shows) /\ Len(entries) <= MaxEntries /\ InOrder(entries, skipped)
          /\ \A i \in DOMAIN entries : IsLine(entries[i]) => entries[i].line <= lastId
          /\ entries # <<>> /\ IsLine(entries[Len(entries)]) => entries[Len(entries)].line = lastId
        BY DEF FeedInv, EntriesReadOn
    <2>6. InOrder(entries, skipped')
        BY <2>3, <2>5 DEF InOrder
    <2>7. EntriesReadOn'
        BY <2>5, <2>6, <1>1 DEF EntriesReadOn
    <2>8. met /\ NotMet'
        BY <1>1, <1>2, <1>6 DEF FeedInv, NotMet
    <2>9. GoesOn(entries, sentTo' + 1, skipped')
        BY <2>3, <2>5, <1>2 DEF GoesOn
    <2>10. \A i \in DOMAIN entries : IsLine(entries[i]) => entries[i].line <= sentTo'
        BY <2>3, <2>5, <1>2
    <2>11. FeedGoesOn'
        BY <2>1, <2>4, <2>9, <2>10, <1>1 DEF FeedGoesOn
    <2>12. QED
        BY <2>4, <2>7, <2>8, <2>11
<1>7. CASE link' = [st |-> "refused", wire |-> <<>>] /\ skipped' = skipped
    <2>1. link'.st # "open" /\ link'.wire = <<>>
        BY <1>7
    <2>2. QED
        BY <2>1, <1>1, <1>7, FeedShut
<1>8. (IF written > Backfill THEN written - Backfill ELSE 0) \in Nat
    BY <1>2, TailFeedAssumption
<1>9. QED
    BY <1>5, <1>6, <1>7, <1>8 DEF RouteAnswers

LEMMA FeedSendsKeeps ==
    ASSUME FeedInv, RouteSends \/ RouteNotes PROVE WireReadsOn' /\ EntriesReadOn' /\ FeedGoesOn' /\ NotMet'
<1>1. link.st = "open" /\ UNCHANGED <<entries, lastId, met, skipped>>
    BY DEF RouteSends, RouteNotes
<1>2. sentTo \in Nat /\ written \in Nat
    BY FeedData
<1>3. \A k \in Kinds, a \in Nat, b \in Nat : LET f == Frame(k, a, b) IN f \in Frames /\ f.kind = k /\ f.from = a /\ f.to = b
    BY DEF Frame, Frames
<1>4. CASE RouteSends
    <2>1. PICK k \in {"lines", "gap"}, to \in sentTo + 1 .. written :
              link' = [link EXCEPT !.wire = Append(@, Frame(k, sentTo + 1, to))] /\ sentTo' = to
        BY <1>4 DEF RouteSends
    <2> DEFINE f == Frame(k, sentTo + 1, to)
    <2>2. to \in Nat /\ sentTo + 1 \in Nat /\ sentTo + 1 <= to /\ sentTo <= to /\ k \in Kinds /\ to <= to
        BY <1>2 DEF Kinds
    <2>3. f \in Frames /\ f.kind = k /\ f.from = sentTo + 1 /\ f.to = to
        BY <2>2, <1>3
    <2> HIDE DEF f
    <2>4. link' = [link EXCEPT !.wire = Append(@, f)]
        BY <2>1 DEF f
    <2>5. f.kind \notin {"ready", "resumed"}
        BY <2>3
    <2>6. QED
        BY <1>1, <2>1, <2>2, <2>3, <2>4, <2>5, FrameSent
<1>5. CASE RouteNotes
    <2>1. PICK k \in {"rotated", "fatal"} : link' = [link EXCEPT !.wire = Append(@, Frame(k, 0, 0))]
        BY <1>5 DEF RouteNotes
    <2> DEFINE f == Frame(k, 0, 0)
    <2>2. f \in Frames /\ f.kind = k /\ f.to = 0 /\ f.kind \notin {"ready", "resumed", "lines"}
        BY <1>3 DEF Kinds
    <2> HIDE DEF f
    <2>3. link' = [link EXCEPT !.wire = Append(@, f)]
        BY <2>1 DEF f
    <2>4. sentTo' = sentTo /\ sentTo <= sentTo /\ 0 <= sentTo
        BY <1>2, <1>5 DEF RouteNotes
    <2>5. QED
        BY <1>1, <1>2, <2>2, <2>3, <2>4, FrameSent
<1>6. QED
    BY <1>4, <1>5

\* What is heard leaves the wire from its head, and the rest reads on.
LEMMA WireHeard ==
    ASSUME FeedInv, link.wire # <<>>, link' = [link EXCEPT !.wire = Tail(@)], sentTo' = sentTo
    PROVE  /\ WireReadsOn' /\ ~Anew' /\ link' # NoLink /\ link.st = "open" /\ link'.st = "open"
           /\ 1 \in DOMAIN link.wire /\ Head(link.wire) = link.wire[1]
           /\ Len(link'.wire) = Len(link.wire) - 1
           /\ \A k \in DOMAIN link'.wire : /\ k \in Nat /\ k > 0 /\ k + 1 \in DOMAIN link.wire /\ link'.wire[k] = link.wire[k + 1]
                                           /\ link'.wire[k].kind \notin {"ready", "resumed"}
           /\ \A k \in {1, 2} : (k \in DOMAIN link'.wire <=> k + 1 \in DOMAIN link.wire)
<1> DEFINE w == link.wire
<1>1. /\ w \in Seq(Frames) /\ Len(w) \in Nat /\ DOMAIN w = 1 .. Len(w)
    BY FeedData
<1>2. link'.wire = Tail(w) /\ link'.st = link.st /\ link.st = "open"
    BY DEF FeedInv, EndInv, FeedBounds
<1>3. /\ 1 \in DOMAIN w /\ Head(w) = w[1] /\ Len(Tail(w)) = Len(w) - 1 /\ DOMAIN Tail(w) = 1 .. Len(w) - 1
      /\ \A k \in DOMAIN Tail(w) : Tail(w)[k] = w[k + 1]
    BY <1>1
<1>4. \A k \in DOMAIN link'.wire : k \in Nat /\ k > 0 /\ k + 1 \in DOMAIN w /\ link'.wire[k] = w[k + 1] /\ k + 1 > 1
    BY <1>1, <1>2, <1>3
<1>5. \A k \in DOMAIN w : /\ k > 1 => w[k].kind \notin {"ready", "resumed"}
                          /\ w[k].to <= sentTo /\ (w[k].kind = "lines" => w[k].from <= w[k].to)
                          /\ k = Len(w) /\ w[k].kind = "lines" => w[k].to = sentTo
                          /\ \A l \in DOMAIN w :
                                k < l /\ w[k].kind = "lines" /\ w[l].kind = "lines" =>
                                    w[k].to < w[l].from /\ (l = k + 1 => w[l].from = w[k].to + 1)
    BY DEF FeedInv, WireReadsOn
<1>6. \A k \in DOMAIN link'.wire : link'.wire[k].kind \notin {"ready", "resumed"}
    BY <1>4, <1>5
<1>7. ~Anew'
    <2>1. link'.wire # <<>> => 1 \in DOMAIN link'.wire
        BY <1>1, <1>2, <1>3
    <2>2. QED
        BY <2>1, <1>6 DEF Anew
<1>8. WireReadsOn'
    <2> SUFFICES ASSUME NEW k \in DOMAIN link'.wire
                 PROVE  LET g == link'.wire[k]
                        IN  /\ k > 1 => g.kind \notin {"ready", "resumed"}
                            /\ g.to <= sentTo' /\ (g.kind = "lines" => g.from <= g.to)
                            /\ k = Len(link'.wire) /\ g.kind = "lines" => g.to = sentTo'
                            /\ \A l \in DOMAIN link'.wire :
                                  k < l /\ g.kind = "lines" /\ link'.wire[l].kind = "lines" =>
                                      g.to < link'.wire[l].from /\ (l = k + 1 => link'.wire[l].from = g.to + 1)
        BY DEF WireReadsOn
    <2>1. k + 1 \in DOMAIN w /\ link'.wire[k] = w[k + 1] /\ (k = Len(link'.wire) => k + 1 = Len(w))
        BY <1>1, <1>2, <1>3, <1>4
    <2>2. ASSUME NEW l \in DOMAIN link'.wire, k < l PROVE l + 1 \in DOMAIN w /\ link'.wire[l] = w[l + 1] /\ k + 1 < l + 1 /\ (l = k + 1 => l + 1 = (k + 1) + 1)
        BY <2>2, <1>4
    <2>3. QED
        BY <2>1, <2>2, <1>5, <1>6
<1>9. \A k \in {1, 2} : (k \in DOMAIN link'.wire <=> k + 1 \in DOMAIN w)
    BY <1>1, <1>2, <1>3
<1>10. QED
    BY <1>2, <1>3, <1>4, <1>6, <1>7, <1>8, <1>9 DEF NoLink

LEMMA ReadyHeard ==
    ASSUME FeedInv, FeedHears, Head(link.wire).kind \in {"ready", "resumed"}
    PROVE  WireReadsOn' /\ EntriesReadOn' /\ FeedGoesOn' /\ NotMet' /\ lastId' = lastId
<1> DEFINE f == Head(link.wire)
<1>1. /\ link.wire # <<>> /\ Ready(f.kind = "resumed") /\ link' = [link EXCEPT !.wire = Tail(@)]
      /\ UNCHANGED <<lastId, sentTo, skipped>>
    BY DEF FeedHears, Markers
<1>2. /\ WireReadsOn' /\ link.st = "open" /\ 1 \in DOMAIN link.wire /\ f = link.wire[1]
      /\ Len(link'.wire) = Len(link.wire) - 1
      /\ \A k \in DOMAIN link'.wire : /\ k \in Nat /\ k > 0 /\ k + 1 \in DOMAIN link.wire /\ link'.wire[k] = link.wire[k + 1]
                                      /\ link'.wire[k].kind \notin {"ready", "resumed"}
      /\ \A k \in {1, 2} : (k \in DOMAIN link'.wire <=> k + 1 \in DOMAIN link.wire)
    BY <1>1, WireHeard
<1>3. met' = TRUE /\ NotMet'
    BY <1>1 DEF Ready, NotMet
<1>4. /\ Len(link.wire) \in Nat /\ Len(link'.wire) + 1 = Len(link.wire) /\ DOMAIN link.wire = 1 .. Len(link.wire)
    BY <1>2, FeedData
<1>5. CASE f.kind = "ready"
    <2>1. Anew
        BY <1>1, <1>2, <1>5 DEF Anew
    <2>2. entries' = IF met THEN <<Marker("restart")>> ELSE entries
        BY <1>1, <1>5 DEF Ready
    <2>3. ~met => entries' = <<>>
        BY <2>2 DEF FeedInv, NotMet
    <2>4. /\ entries' \in Seq(Shows) /\ Len(entries') <= MaxEntries
          /\ \A i \in DOMAIN entries' : ~IsLine(entries'[i])
          /\ entries' = <<>> \/ ~IsLine(entries'[Len(entries')])
        <3>1. CASE met
            <4> DEFINE e == Marker("restart")
            <4>1. e \in Shows /\ ~IsLine(e)
                BY ShowKinds DEF Markers
            <4> HIDE DEF e
            <4>2. entries' = <<e>>
                BY <3>1, <2>2 DEF e
            <4>3. <<e>> \in Seq(Shows) /\ Len(<<e>>) = 1 /\ DOMAIN <<e>> = {1} /\ <<e>>[1] = e
                BY <4>1
            <4>4. Len(<<e>>) <= MaxEntries
                BY <4>3, TailFeedAssumption
            <4>5. QED
                BY <4>1, <4>2, <4>3, <4>4
        <3>2. CASE ~met
            <4>1. entries' = <<>> /\ <<>> \in Seq(Shows) /\ Len(<<>>) = 0 /\ DOMAIN <<>> = {}
                BY <3>2, <2>3
            <4>2. QED
                BY <4>1, TailFeedAssumption
        <3>3. QED
            BY <3>1, <3>2
    <2>5. (\A past : InOrder(entries', past)) /\ (\A n, past : GoesOn(entries', n, past))
        BY <2>4, NoLines
    <2>6. EntriesReadOn'
        BY <2>4, <2>5 DEF EntriesReadOn
    <2>7. FeedGoesOn'
        BY <2>4, <2>5 DEF FeedGoesOn
    <2>8. QED
        BY <2>6, <2>7, <1>1, <1>2, <1>3
<1>6. CASE f.kind = "resumed"
    <2>1. ~Anew
        BY <1>2, <1>6 DEF Anew
    <2>2. entries' = entries
        BY <1>1, <1>6 DEF Ready
    <2>3. EntriesReadOn'
        BY <2>2, <1>1 DEF FeedInv, EntriesReadOn
    <2>4. /\ \A i \in DOMAIN entries : IsLine(entries[i]) => entries[i].line <= sentTo
          /\ \A i \in DOMAIN entries, k \in DOMAIN link.wire :
                IsLine(entries[i]) /\ link.wire[k].kind = "lines" => entries[i].line < link.wire[k].from
          /\ \A k \in {1, 2} :
                  /\ k = Len(link.wire) + 1 => GoesOn(entries, sentTo + 1, skipped)
                  /\ k \in DOMAIN link.wire /\ link.wire[k].kind = "lines" => GoesOn(entries, link.wire[k].from, skipped)
        <3>1. Len(link.wire) >= 1 /\ link.wire[1].kind = "resumed"
            BY <1>2, <1>4, <1>6
        <3>2. QED
            BY <2>1, <3>1, <1>2 DEF FeedInv, FeedGoesOn
    <2>5. \A i \in DOMAIN entries, k \in DOMAIN link'.wire :
                IsLine(entries[i]) /\ link'.wire[k].kind = "lines" => entries[i].line < link'.wire[k].from
        BY <2>4, <1>2
    <2>6. ASSUME NEW k \in {1, 2}, k = 1 \/ (Len(link'.wire) >= 1 /\ link'.wire[1].kind = "resumed")
          PROVE  /\ k = Len(link'.wire) + 1 => GoesOn(entries, sentTo + 1, skipped)
                 /\ k \in DOMAIN link'.wire /\ link'.wire[k].kind = "lines" => GoesOn(entries, link'.wire[k].from, skipped)
        <3>1. k = 1
            <4>1. Len(link'.wire) >= 1 => 1 \in DOMAIN link'.wire
                BY <1>2, <1>4
            <4>2. QED
                BY <4>1, <2>6, <1>2
        <3>2. k = Len(link'.wire) + 1 => 2 = Len(link.wire) + 1
            BY <3>1, <1>4
        <3>3. k \in DOMAIN link'.wire => 2 \in DOMAIN link.wire /\ link'.wire[k] = link.wire[2]
            BY <3>1, <1>2
        <3>4. QED
            BY <3>2, <3>3, <2>4
    <2>7. FeedGoesOn'
        BY <2>2, <2>4, <2>5, <2>6, <1>1 DEF FeedGoesOn
    <2>8. QED
        BY <2>3, <2>7, <1>1, <1>2, <1>3
<1>7. QED
    BY <1>5, <1>6

\* What is appended is cut, and its lines are from it.
LEMMA FeedAppends ==
    ASSUME NEW past, NEW t \in Seq(Shows), InOrder(t, past), t # <<>>, NEW top,
           \A i \in DOMAIN t : IsLine(t[i]) => t[i].line <= top,
           IsLine(t[Len(t)]) => t[Len(t)].line = top
    PROVE  LET e == Cut(t)
           IN  /\ e \in Seq(Shows) /\ Len(e) <= MaxEntries /\ InOrder(e, past)
               /\ \A i \in DOMAIN e : IsLine(e[i]) => e[i].line <= top
               /\ e # <<>> /\ IsLine(e[Len(e)]) => e[Len(e)].line = top
<1> DEFINE e == Cut(t)
<1>1. e \in Seq(Shows) /\ Len(e) <= MaxEntries
    BY CutTakes
<1>2. /\ InOrder(e, past) /\ \A i \in DOMAIN e : \E j \in DOMAIN t : e[i] = t[j]
      /\ e # <<>> => e[Len(e)] = t[Len(t)]
    BY CutInOrder
<1> HIDE DEF e
<1>3. QED
    BY <1>1, <1>2 DEF e

LEMMA LinesHeard ==
    ASSUME FeedInv, FeedHears, Head(link.wire).kind = "lines"
    PROVE  WireReadsOn' /\ EntriesReadOn' /\ FeedGoesOn' /\ NotMet' /\ lastId' <= written
<1> DEFINE f == Head(link.wire)
<1>1. /\ link.wire # <<>> /\ entries' = Cut(entries \o Numbered(f.from, f.to)) /\ lastId' = f.to
      /\ link' = [link EXCEPT !.wire = Tail(@)] /\ UNCHANGED <<met, sentTo, skipped>>
    BY DEF FeedHears, Appended, Markers
<1>2. /\ WireReadsOn' /\ link.st = "open" /\ 1 \in DOMAIN link.wire /\ f = link.wire[1]
      /\ Len(link'.wire) = Len(link.wire) - 1
      /\ \A k \in DOMAIN link'.wire : /\ k \in Nat /\ k > 0 /\ k + 1 \in DOMAIN link.wire /\ link'.wire[k] = link.wire[k + 1]
                                      /\ link'.wire[k].kind \notin {"ready", "resumed"}
      /\ \A k \in {1, 2} : (k \in DOMAIN link'.wire <=> k + 1 \in DOMAIN link.wire)
    BY <1>1, WireHeard
<1>3. /\ Len(link.wire) \in Nat /\ Len(link'.wire) + 1 = Len(link.wire) /\ DOMAIN link.wire = 1 .. Len(link.wire)
      /\ f.from \in Nat /\ f.to \in Nat /\ sentTo \in Nat /\ written \in Nat /\ lastId \in Nat
    BY <1>2, FeedData
<1>4. ~Anew /\ met
    BY <1>2 DEF Anew, FeedInv, NotMet
<1>5. /\ f.to <= sentTo /\ f.from <= f.to /\ (1 = Len(link.wire) => f.to = sentTo)
      /\ \A l \in DOMAIN link.wire :
            1 < l /\ link.wire[l].kind = "lines" => f.to < link.wire[l].from /\ (l = 2 => link.wire[l].from = f.to + 1)
    BY <1>2 DEF FeedInv, WireReadsOn
<1>6. GoesOn(entries, f.from, skipped) /\ InOrder(entries, skipped) /\ entries \in Seq(Shows)
    BY <1>2, <1>4 DEF FeedInv, FeedGoesOn, EntriesReadOn
<1> DEFINE t == entries \o Numbered(f.from, f.to)
<1>7. /\ t \in Seq(Shows) /\ InOrder(t, skipped) /\ t # <<>> /\ t[Len(t)] = Line(f.to)
      /\ \A i \in DOMAIN t : IsLine(t[i]) => t[i].line <= f.to
    BY <1>3, <1>5, <1>6, LinesFollow
<1>8. Line(f.to).line = f.to
    BY <1>3, ShowKinds
<1>9. entries' = Cut(t)
    BY <1>1
<1> HIDE DEF t
<1>10. /\ entries' \in Seq(Shows) /\ Len(entries') <= MaxEntries /\ InOrder(entries', skipped)
       /\ \A i \in DOMAIN entries' : IsLine(entries'[i]) => entries'[i].line <= f.to
       /\ entries' # <<>> /\ IsLine(entries'[Len(entries')]) => entries'[Len(entries')].line = f.to
    BY <1>7, <1>8, <1>9, FeedAppends
<1> HIDE DEF f
<1>11. EntriesReadOn'
    BY <1>1, <1>10 DEF EntriesReadOn
<1>12. \A i \in DOMAIN entries' : IsLine(entries'[i]) => entries'[i].line \in Nat
    <2>1. \A i \in DOMAIN entries' : entries'[i] \in Shows
        BY <1>10
    <2>2. QED
        BY <2>1, ShowKinds DEF Shows
<1>13. FeedGoesOn'
    <2>1. \A i \in DOMAIN entries' : IsLine(entries'[i]) => entries'[i].line <= sentTo /\ entries'[i].line < f.to + 1 /\ entries'[i].line < sentTo + 1
        BY <1>3, <1>5, <1>10, <1>12
    <2>2. \A k \in DOMAIN link'.wire : link'.wire[k].kind = "lines" => f.to < link'.wire[k].from /\ link'.wire[k].from \in Nat /\ (k = 1 => link'.wire[k].from = f.to + 1)
        <3> SUFFICES ASSUME NEW k \in DOMAIN link'.wire, link'.wire[k].kind = "lines"
                     PROVE  f.to < link'.wire[k].from /\ link'.wire[k].from \in Nat /\ (k = 1 => link'.wire[k].from = f.to + 1)
            OBVIOUS
        <3>1. k + 1 \in DOMAIN link.wire /\ link'.wire[k] = link.wire[k + 1] /\ 1 < k + 1 /\ (k = 1 => k + 1 = 2)
            <4>1. k + 1 \in DOMAIN link.wire /\ link'.wire[k] = link.wire[k + 1] /\ k \in Nat
                BY <1>2
            <4>2. k # 0
                BY <4>1, <1>2
            <4>3. QED
                BY <4>1, <4>2
        <3>2. link.wire[k + 1].from \in Nat
            BY <3>1, FeedData
        <3>3. QED
            BY <3>1, <3>2, <1>5
    <2>3. \A i \in DOMAIN entries', k \in DOMAIN link'.wire :
              IsLine(entries'[i]) /\ link'.wire[k].kind = "lines" => entries'[i].line < link'.wire[k].from
        BY <2>2, <1>3, <1>10, <1>12
    <2>4. GoesOn(entries', f.to + 1, skipped)
        BY <2>1, <1>10 DEF GoesOn
    <2>5. ASSUME NEW k \in {1, 2}, k = 1 \/ (Len(link'.wire) >= 1 /\ link'.wire[1].kind = "resumed")
          PROVE  /\ k = Len(link'.wire) + 1 => GoesOn(entries', sentTo + 1, skipped)
                 /\ k \in DOMAIN link'.wire /\ link'.wire[k].kind = "lines" => GoesOn(entries', link'.wire[k].from, skipped)
        <3>1. k = 1
            <4>1. Len(link'.wire) >= 1 => 1 \in DOMAIN link'.wire
                BY <1>2, <1>3
            <4>2. QED
                BY <4>1, <2>5, <1>2
        <3>2. k = Len(link'.wire) + 1 => f.to = sentTo
            BY <3>1, <1>3, <1>5
        <3>3. k \in DOMAIN link'.wire /\ link'.wire[k].kind = "lines" => link'.wire[k].from = f.to + 1
            BY <3>1, <2>2
        <3>4. QED
            BY <3>2, <3>3, <2>4
    <2>6. QED
        BY <2>1, <2>3, <2>5, <1>1 DEF FeedGoesOn
<1>14. NotMet'
    BY <1>1, <1>4 DEF NotMet
<1>15. lastId' <= written
    BY <1>1, <1>3, <1>5 DEF FeedInv, FeedBounds
<1>16. QED
    BY <1>2, <1>11, <1>13, <1>14, <1>15

LEMMA MarkHeard ==
    ASSUME FeedInv, FeedHears, Head(link.wire).kind \in Markers
    PROVE  WireReadsOn' /\ EntriesReadOn' /\ FeedGoesOn' /\ NotMet' /\ lastId' = lastId
<1> DEFINE f == Head(link.wire)
<1>1. /\ link.wire # <<>> /\ entries' = Cut(entries \o <<Marker(f.kind)>>)
      /\ link' = [link EXCEPT !.wire = Tail(@)] /\ UNCHANGED <<met, lastId, sentTo, skipped>>
    BY DEF FeedHears, Appended, Markers
<1>2. /\ WireReadsOn' /\ link.st = "open" /\ 1 \in DOMAIN link.wire /\ f = link.wire[1]
      /\ Len(link'.wire) = Len(link.wire) - 1
      /\ \A k \in DOMAIN link'.wire : /\ k \in Nat /\ k > 0 /\ k + 1 \in DOMAIN link.wire /\ link'.wire[k] = link.wire[k + 1]
                                      /\ link'.wire[k].kind \notin {"ready", "resumed"}
      /\ \A k \in {1, 2} : (k \in DOMAIN link'.wire <=> k + 1 \in DOMAIN link.wire)
    BY <1>1, WireHeard
<1>3. /\ Len(link.wire) \in Nat /\ Len(link'.wire) + 1 = Len(link.wire) /\ sentTo \in Nat /\ lastId \in Nat
    BY <1>2, FeedData
<1>4. ~Anew /\ met
    BY <1>2 DEF Anew, FeedInv, NotMet, Markers
<1>5. /\ entries \in Seq(Shows) /\ InOrder(entries, skipped)
      /\ \A i \in DOMAIN entries : IsLine(entries[i]) => entries[i].line <= lastId
    BY DEF FeedInv, EntriesReadOn
<1> DEFINE t == entries \o <<Marker(f.kind)>>
<1>6. /\ t \in Seq(Shows) /\ InOrder(t, skipped) /\ t # <<>> /\ ~IsLine(t[Len(t)])
      /\ \A i \in DOMAIN t : IsLine(t[i]) => i \in DOMAIN entries /\ t[i] = entries[i]
    BY <1>5, MarkFollows
<1>7. entries' = Cut(t)
    BY <1>1
<1> HIDE DEF t, f
<1>8. /\ entries' \in Seq(Shows) /\ Len(entries') <= MaxEntries /\ InOrder(entries', skipped)
      /\ \A i \in DOMAIN entries' : IsLine(entries'[i]) => entries'[i].line <= lastId
      /\ entries' # <<>> /\ IsLine(entries'[Len(entries')]) => entries'[Len(entries')].line = lastId
    <2>1. \A i \in DOMAIN t : IsLine(t[i]) => t[i].line <= lastId
        BY <1>5, <1>6
    <2>2. QED
        BY <2>1, <1>6, <1>7, FeedAppends
<1>9. /\ \A i \in DOMAIN entries' : \E j \in DOMAIN t : entries'[i] = t[j]
      /\ entries' # <<>> => entries'[Len(entries')] = t[Len(t)]
    BY <1>6, <1>7, CutInOrder
<1>10. \A i \in DOMAIN entries' : IsLine(entries'[i]) => \E j \in DOMAIN entries : IsLine(entries[j]) /\ entries'[i] = entries[j]
    BY <1>6, <1>9
<1>11. entries' # <<>> => ~IsLine(entries'[Len(entries')])
    BY <1>6, <1>9
<1>12. EntriesReadOn'
    BY <1>1, <1>8 DEF EntriesReadOn
<1>13. /\ \A i \in DOMAIN entries : IsLine(entries[i]) => entries[i].line <= sentTo /\ entries[i].line \in Nat
       /\ \A i \in DOMAIN entries, k \in DOMAIN link.wire :
             IsLine(entries[i]) /\ link.wire[k].kind = "lines" => entries[i].line < link.wire[k].from
    BY <1>2, <1>4, FeedData DEF FeedInv, FeedGoesOn
<1>14. FeedGoesOn'
    <2>1. \A i \in DOMAIN entries' : IsLine(entries'[i]) => entries'[i].line <= sentTo /\ entries'[i].line < sentTo + 1
        <3>1. \A i \in DOMAIN entries : IsLine(entries[i]) => entries[i].line < sentTo + 1
            BY <1>3, <1>13
        <3>2. QED
            BY <3>1, <1>10, <1>13
    <2>2. \A i \in DOMAIN entries', k \in DOMAIN link'.wire :
              IsLine(entries'[i]) /\ link'.wire[k].kind = "lines" => entries'[i].line < link'.wire[k].from
        BY <1>2, <1>10, <1>13
    <2>3. GoesOn(entries', sentTo + 1, skipped)
        BY <2>1, <1>11 DEF GoesOn
    <2>4. \A k \in DOMAIN link'.wire : link'.wire[k].kind = "lines" => GoesOn(entries', link'.wire[k].from, skipped)
        BY <2>2, <1>11 DEF GoesOn
    <2>5. QED
        BY <2>1, <2>2, <2>3, <2>4, <1>1 DEF FeedGoesOn
<1>15. NotMet'
    BY <1>1, <1>4 DEF NotMet
<1>16. QED
    BY <1>1, <1>2, <1>12, <1>14, <1>15

LEMMA FeedHearsKeeps ==
    ASSUME FeedInv, FeedHears
    PROVE  WireReadsOn' /\ EntriesReadOn' /\ FeedGoesOn' /\ NotMet' /\ lastId' <= written
<1> DEFINE f == Head(link.wire)
<1>1. lastId <= written /\ link.wire # <<>>
    BY DEF FeedInv, FeedBounds, FeedHears
<1>2. f.kind \in Kinds
    <2>1. 1 \in DOMAIN link.wire /\ f = link.wire[1]
        BY <1>1, FeedData
    <2>2. QED
        BY <2>1, FeedData
<1>3. CASE f.kind \in {"ready", "resumed"}
    BY <1>1, <1>3, ReadyHeard
<1>4. CASE f.kind = "lines"
    BY <1>4, LinesHeard
<1>5. CASE f.kind \in Markers
    BY <1>1, <1>5, MarkHeard
<1>6. CASE f.kind = "fatal"
    <2>1. link' = NoLink /\ UNCHANGED <<entries, lastId, met, skipped>>
        BY <1>6 DEF FeedHears, Fatal, Markers
    <2>2. link'.st # "open" /\ link'.wire = <<>>
        BY <2>1 DEF NoLink
    <2>3. QED
        BY <1>1, <2>1, <2>2, FeedShut
<1>7. QED
    BY <1>2, <1>3, <1>4, <1>5, <1>6 DEF Kinds, Markers

LEMMA FeedKindHeard ==
    ASSUME FeedInv, link.wire # <<>>
    PROVE  \/ Head(link.wire).kind \in {"ready", "resumed"} \/ Head(link.wire).kind = "lines"
           \/ Head(link.wire).kind \in Markers \/ Head(link.wire).kind = "fatal"
<1>1. 1 \in DOMAIN link.wire /\ Head(link.wire) = link.wire[1]
    BY FeedData
<1>2. Head(link.wire).kind \in Kinds
    BY <1>1, FeedData
<1>3. QED
    BY <1>2 DEF Kinds, Markers

LEMMA FeedBoundsKept ==
    ASSUME FeedInv, FeedNext PROVE FeedBounds'
<1>1. /\ link.wire \in Seq(Frames) /\ sentTo \in Nat /\ lastId \in Nat /\ written \in Nat /\ attempt \in Nat
      /\ Len(link.wire) \in Nat
    BY FeedData
<1>2. /\ (link.st # "open" => link.wire = <<>>) /\ Len(link.wire) <= MaxOnWire /\ sentTo <= written /\ lastId <= written
      /\ diag \subseteq 0 .. attempt /\ met \in BOOLEAN /\ status \in {"connecting", "live", "reconnecting", "ended"}
    BY DEF FeedInv, FeedBounds
<1>3. Len(<<>>) = 0 /\ 0 <= MaxOnWire /\ 1 <= MaxOnWire
    BY TailFeedAssumption
<1>4. CASE FileGrows
    <2>1. written' = written + 1 /\ UNCHANGED <<link, sentTo, lastId, diag, attempt, met, status>>
        BY <1>4 DEF FileGrows
    <2>2. sentTo <= written' /\ lastId <= written'
        BY <2>1, <1>1, <1>2
    <2>3. QED
        BY <2>1, <2>2, <1>2 DEF FeedBounds
<1>5. CASE RouteAnswers
    <2>1. UNCHANGED <<lastId, written, diag, attempt, met, status>>
        BY <1>5 DEF RouteAnswers
    <2>2. sentTo' <= written
        BY <1>1, <1>2, <1>5, TailFeedAssumption DEF RouteAnswers
    <2>3. /\ link'.st # "open" => link'.wire = <<>>
          /\ Len(link'.wire) <= MaxOnWire
        <3>1. \/ \E x : link' = [st |-> "open", wire |-> <<x>>]
              \/ link' = [st |-> "refused", wire |-> <<>>]
            BY <1>5 DEF RouteAnswers
        <3>2. \A x : Len(<<x>>) = 1
            OBVIOUS
        <3>3. CASE \E x : link' = [st |-> "open", wire |-> <<x>>]
            <4>1. PICK x : link' = [st |-> "open", wire |-> <<x>>]
                BY <3>3
            <4>2. link'.st = "open" /\ link'.wire = <<x>>
                BY <4>1
            <4>3. QED
                BY <4>2, <3>2, <1>3
        <3>4. CASE link' = [st |-> "refused", wire |-> <<>>]
            BY <3>4, <1>3
        <3>5. QED
            BY <3>1, <3>3, <3>4
    <2>4. QED
        BY <2>1, <2>2, <2>3, <1>2 DEF FeedBounds
<1>6. CASE RouteSends \/ RouteNotes
    <2>1. UNCHANGED <<lastId, written, diag, attempt, met, status>> /\ link.st = "open" /\ Len(link.wire) < MaxOnWire
        BY <1>6 DEF RouteSends, RouteNotes
    <2>2. sentTo' <= written
        BY <1>1, <1>2, <1>6 DEF RouteSends, RouteNotes
    <2>3. \E k \in Kinds, a \in Nat, b \in Nat : link' = [link EXCEPT !.wire = Append(@, Frame(k, a, b))]
        <3>1. CASE RouteSends
            <4>1. PICK k \in {"lines", "gap"}, to \in sentTo + 1 .. written :
                      link' = [link EXCEPT !.wire = Append(@, Frame(k, sentTo + 1, to))]
                BY <3>1 DEF RouteSends
            <4>2. k \in Kinds /\ sentTo + 1 \in Nat /\ to \in Nat
                BY <1>1 DEF Kinds
            <4>3. QED
                BY <4>1, <4>2
        <3>2. CASE RouteNotes
            BY <3>2 DEF RouteNotes, Kinds
        <3>3. QED
            BY <1>6, <3>1, <3>2
    <2>4. PICK k \in Kinds, a \in Nat, b \in Nat : link' = [link EXCEPT !.wire = Append(@, Frame(k, a, b))]
        BY <2>3
    <2> DEFINE f == Frame(k, a, b)
    <2>5. f \in Frames
        BY DEF Frame, Frames
    <2> HIDE DEF f
    <2>6. link'.st = "open" /\ link'.wire = Append(link.wire, f)
        BY <2>1, <2>4 DEF FeedInv, EndInv, f
    <2>7. Len(link'.wire) = Len(link.wire) + 1
        BY <2>5, <2>6, <1>1
    <2>8. Len(link'.wire) <= MaxOnWire
        BY <2>1, <2>7, <1>1, TailFeedAssumption
    <2>9. QED
        BY <2>1, <2>2, <2>6, <2>8, <1>2 DEF FeedBounds
<1>7. CASE LinkLost \/ FeedErrs
    <2>1. UNCHANGED <<sentTo, lastId, written, attempt, met>> /\ link'.wire = <<>>
        BY <1>7 DEF LinkLost, FeedErrs, NoLink
    <2>2. diag' \subseteq 0 .. attempt
        <3>1. diag' = diag \/ diag' = diag \cup {attempt}
            BY <1>7 DEF LinkLost, FeedErrs
        <3>2. attempt \in 0 .. attempt
            BY <1>1
        <3>3. QED
            BY <3>1, <3>2, <1>2
    <2>3. status' \in {"connecting", "live", "reconnecting", "ended"}
        BY <1>2, <1>7 DEF LinkLost, FeedErrs
    <2>4. QED
        BY <2>1, <2>2, <2>3, <1>2, <1>3 DEF FeedBounds
<1>8. CASE FeedHears
    <2>1. UNCHANGED <<sentTo, written, diag, attempt>> /\ lastId' <= written
        BY <1>8, FeedHearsKeeps DEF FeedHears
    <2>2. link.wire # <<>> /\ (link' = [link EXCEPT !.wire = Tail(@)] \/ link' = NoLink)
        BY <1>8, FeedKindHeard DEF FeedHears, Fatal
    <2>3. /\ link'.st # "open" => link'.wire = <<>>
          /\ Len(link'.wire) <= MaxOnWire
        <3>1. CASE link' = NoLink
            BY <3>1, <1>3 DEF NoLink
        <3>2. CASE link' = [link EXCEPT !.wire = Tail(@)]
            <4>1. link'.wire = Tail(link.wire) /\ link'.st = link.st /\ link.st = "open"
                BY <2>2, <3>2, <1>2 DEF FeedInv, EndInv
            <4>2. Len(link'.wire) = Len(link.wire) - 1
                BY <2>2, <4>1, <1>1
            <4>3. QED
                BY <4>1, <4>2, <1>1, <1>2, TailFeedAssumption
        <3>3. QED
            BY <2>2, <3>1, <3>2
    <2>4. met' \in BOOLEAN
        BY <1>2, <1>8, FeedKindHeard DEF FeedHears, Fatal, Ready
    <2>5. status' \in {"connecting", "live", "reconnecting", "ended"}
        BY <1>2, <1>8, FeedKindHeard DEF FeedHears, Fatal, Ready
    <2>6. QED
        BY <2>1, <2>3, <2>4, <2>5, <1>2 DEF FeedBounds
<1>9. CASE FeedDiagnosed
    BY <1>2, <1>9 DEF FeedDiagnosed, FeedBounds
<1>10. CASE FeedRetries
    <2>1. /\ attempt' = attempt + 1 /\ sentTo' = 0 /\ lastId' = 0 /\ met' = FALSE /\ link'.wire = <<>> /\ status' = "connecting"
          /\ UNCHANGED <<written, diag>>
        BY <1>10 DEF FeedRetries
    <2>2. diag \subseteq 0 .. attempt'
        BY <2>1, <1>1, <1>2
    <2>3. sentTo' <= written /\ lastId' <= written
        BY <2>1, <1>1
    <2>4. QED
        BY <2>1, <2>2, <2>3, <1>3 DEF FeedBounds
<1>11. QED
    BY <1>4, <1>5, <1>6, <1>7, <1>8, <1>9, <1>10 DEF FeedNext

LEMMA FeedKeeps == FeedInv /\ [FeedNext]_feedVars => FeedInv'
<1> SUFFICES ASSUME FeedInv, [FeedNext]_feedVars PROVE FeedInv'
    OBVIOUS
<1>1. EndInv'
    BY EndKeeps DEF FeedInv
<1>2. CASE UNCHANGED feedVars
    <2>1. FeedBounds' /\ WireReadsOn' /\ EntriesReadOn'
        BY <1>2 DEF feedVars, FeedInv, FeedBounds, WireReadsOn, EntriesReadOn
    <2>2. Anew' <=> Anew
        BY <1>2 DEF feedVars, Anew
    <2>3. FeedGoesOn' /\ NotMet'
        BY <1>2, <2>2 DEF feedVars, FeedInv, FeedGoesOn, NotMet
    <2>4. QED
        BY <2>1, <2>3, <1>1 DEF FeedInv
<1>3. CASE FeedNext
    <2>1. FeedBounds'
        BY <1>3, FeedBoundsKept
    <2>2. CASE FileGrows \/ FeedDiagnosed
        <3>1. UNCHANGED <<entries, link, sentTo, lastId, met, skipped>>
            BY <2>2 DEF FileGrows, FeedDiagnosed
        <3>2. WireReadsOn' /\ EntriesReadOn'
            BY <3>1 DEF FeedInv, WireReadsOn, EntriesReadOn
        <3>3. Anew' <=> Anew
            BY <3>1 DEF Anew
        <3>4. FeedGoesOn' /\ NotMet'
            BY <3>1, <3>3 DEF FeedInv, FeedGoesOn, NotMet
        <3>5. QED
            BY <3>2, <3>4, <2>1, <1>1 DEF FeedInv
    <2>3. CASE LinkLost \/ FeedErrs
        <3>1. link'.st # "open" /\ link'.wire = <<>> /\ UNCHANGED <<entries, lastId, met, skipped>>
            BY <2>3 DEF LinkLost, FeedErrs, NoLink
        <3>2. QED
            BY <3>1, <2>1, <1>1, FeedShut DEF FeedInv
    <2>4. CASE FeedRetries
        <3>1. link'.st # "open" /\ link'.wire = <<>> /\ entries' = <<>> /\ lastId' = 0 /\ met' = FALSE
            BY <2>4 DEF FeedRetries
        <3>2. DOMAIN <<>> = {} /\ <<>> \in Seq(Shows) /\ Len(<<>>) = 0 /\ 0 <= MaxEntries
            BY TailFeedAssumption
        <3>3. WireReadsOn' /\ FeedGoesOn' /\ NotMet'
            BY <3>1, <3>2 DEF WireReadsOn, FeedGoesOn, NotMet
        <3>4. EntriesReadOn'
            BY <3>1, <3>2 DEF EntriesReadOn, InOrder
        <3>5. QED
            BY <3>3, <3>4, <2>1, <1>1 DEF FeedInv
    <2>5. CASE RouteAnswers \/ RouteSends \/ RouteNotes \/ FeedHears
        BY <2>5, <2>1, <1>1, FeedRouteKeeps, FeedSendsKeeps, FeedHearsKeeps DEF FeedInv
    <2>6. QED
        BY <1>3, <2>2, <2>3, <2>4, <2>5 DEF FeedNext
<1>4. QED
    BY <1>2, <1>3

LEMMA FeedHolds == FeedInv => FeedTypeOK /\ FeedReadsOn
<1> SUFFICES ASSUME FeedInv PROVE FeedTypeOK /\ FeedReadsOn
    OBVIOUS
<1>1. FeedTypeOK
    BY DEF FeedInv, FeedBounds, EntriesReadOn, EndInv, FeedTypeOK
<1>2. FeedReadsOn
    BY DEF FeedInv, EntriesReadOn, InOrder, FeedReadsOn
<1>3. QED
    BY <1>1, <1>2

\* "Where a gap fell is the entire information a gap carries": what the strip
\* shows is in the file's order and lacks nothing between two lines that are next
\* to each other (FeedReadsOn), for any buffer, backfill and losses.
THEOREM FeedAlwaysReadsOn == TailFeedSpec => []FeedReadsOn
<1>1. QED
    BY FeedStart, FeedKeeps, FeedHolds, PTL DEF TailFeedSpec
-----------------------------------------------------------------------------
(* The figures of a pane's directory.                                      *)

Streams == 1 .. MaxStreams
Rows    == Listed \cup {"done"}

\* A closure of each stream: a buffer and a timer.
IsClosure(c) == c = [x \in {"pending", "timer"} |-> c[x]]
ClosuresAre(c) ==
    /\ c = [s \in Streams |-> c[s]]
    /\ \A s \in Streams : IsClosure(c[s]) /\ c[s].pending \subseteq Listed

\* The stream, its closures and what each has answered, by their types.
SizesData ==
    /\ at \in 0 .. 2 /\ streams \in 0 .. MaxStreams
    /\ sudo = [on |-> sudo.on, windows |-> sudo.windows]
    /\ sudo.windows \in 0 .. MaxWindows
    /\ sizes = [known |-> sizes.known, walking |-> sizes.walking]
    /\ sizes.known = [r \in DOMAIN sizes.known |-> sizes.known[r]] /\ DOMAIN sizes.known \subseteq Listed
    /\ src = [n |-> src.n, open |-> src.open, wire |-> src.wire, sent |-> src.sent]
    /\ src.wire \in Seq(Rows) /\ src.n \in Nat
    /\ ClosuresAre(closure)
    /\ answered \in [Streams -> SUBSET Listed]

\* A pane that is somewhere has the last stream that was opened, and only that
\* one's closure holds or awaits anything; a closure that holds something has a
\* timer.
SizesOneStream ==
    /\ src.n = (IF at > 0 THEN streams ELSE 0) /\ (at > 0 => streams > 0) /\ (at = 0 => sizes = Nothing)
    /\ at = 0 => ~src.open
    /\ at > 0 => (sizes.walking <=> src.open)
    /\ \A s \in Streams : closure[s].timer => s = src.n /\ src.open
    /\ \A s \in Streams : s = src.n /\ closure[s].pending # {} => closure[s].timer
    /\ \A s \in Streams : s > streams => closure[s] = Fresh /\ answered[s] = {}

\* What came is on screen or in the buffer, and nothing else is.
SizesOnScreen ==
    /\ FiguresAreOfHere
    /\ at > 0 => DOMAIN sizes.known \cup closure[src.n].pending = answered[src.n]

SizesInv == SizesData /\ SizesOneStream /\ SizesOnScreen

LEMMA SizesStart == SizesInit => SizesInv
<1> SUFFICES ASSUME SizesInit PROVE SizesInv
    OBVIOUS
<1>1. <<>> \in Seq(Rows)
    OBVIOUS
<1>2. SizesData
    BY <1>1, SizesAssumption DEF SizesInit, SizesData, ClosuresAre, IsClosure, Nothing, Gone, Fresh, Streams
<1>3. SizesOneStream /\ SizesOnScreen
    BY DEF SizesInit, SizesOneStream, SizesOnScreen, FiguresAreOfHere, Nothing, Gone, Fresh, Streams
<1>4. QED
    BY <1>2, <1>3 DEF SizesInv

LEMMA FreshClosure == IsClosure(Fresh) /\ Fresh.pending = {} /\ ~Fresh.timer
BY DEF IsClosure, Fresh

LEMMA HeldClosure ==
    ASSUME NEW p PROVE IsClosure([pending |-> p, timer |-> TRUE])
BY DEF IsClosure

LEMMA ClosurePut ==
    ASSUME ClosuresAre(closure), NEW s \in Streams, NEW f, IsClosure(f), f.pending \subseteq Listed
    PROVE  ClosuresAre([closure EXCEPT ![s] = f])
<1>1. \A q \in Streams : [closure EXCEPT ![s] = f][q] = IF q = s THEN f ELSE closure[q]
    BY DEF ClosuresAre
<1>2. QED
    BY <1>1 DEF ClosuresAre

\* The clean-up leaves no timer of the stream before.
LEMMA CleanedUp ==
    ASSUME SizesInv
    PROVE  /\ ClosuresAre(Cleanup)
           /\ \A s \in Streams : ~Cleanup[s].timer
           /\ \A s \in Streams : s > streams => Cleanup[s] = Fresh
<1>1. DOMAIN closure = Streams
    BY DEF SizesInv, SizesData, ClosuresAre
<1>2. \A s \in Streams : Cleanup[s] = IF s = src.n THEN [closure[s] EXCEPT !.timer = FALSE] ELSE closure[s]
    BY <1>1 DEF Cleanup
<1>3. ASSUME NEW s \in Streams
      PROVE  IsClosure(Cleanup[s]) /\ ~Cleanup[s].timer /\ Cleanup[s].pending = closure[s].pending
    <2>1. IsClosure(closure[s])
        BY DEF SizesInv, SizesData, ClosuresAre
    <2>2. CASE s = src.n
        <3>1. Cleanup[s] = [closure[s] EXCEPT !.timer = FALSE]
            BY <1>2, <2>2
        <3>2. QED
            BY <2>1, <3>1 DEF IsClosure
    <2>3. CASE s # src.n
        <3>1. Cleanup[s] = closure[s] /\ ~closure[s].timer
            BY <1>2, <2>3 DEF SizesInv, SizesOneStream
        <3>2. QED
            BY <2>1, <3>1
    <2>4. QED
        BY <2>2, <2>3
<1>4. ASSUME NEW s \in Streams, s > streams PROVE Cleanup[s] = Fresh
    <2>1. s # src.n /\ closure[s] = Fresh
        BY <1>4, SizesAssumption DEF SizesInv, SizesData, SizesOneStream, Streams
    <2>2. QED
        BY <1>2, <2>1
<1>5. ClosuresAre(Cleanup)
    <2>1. Cleanup = [s \in Streams |-> Cleanup[s]]
        BY <1>1 DEF Cleanup
    <2>2. \A s \in Streams : closure[s].pending \subseteq Listed
        BY DEF SizesInv, SizesData, ClosuresAre
    <2>3. QED
        BY <1>3, <2>1, <2>2 DEF ClosuresAre
<1>6. QED
    BY <1>3, <1>4, <1>5

LEMMA OpensKeeps ==
    ASSUME SizesInv, Opens, at' \in 1 .. 2,
           sudo' = [on |-> sudo'.on, windows |-> sudo'.windows], sudo'.windows \in 0 .. MaxWindows
    PROVE  SizesInv'
<1>1. <<>> \in Seq(Rows)
    OBVIOUS
<1>2. SizesData'
    BY <1>1, CleanedUp, SizesAssumption DEF Opens, SizesInv, SizesData, ClosuresAre, Streams
<1>3. streams \in Nat /\ streams + 1 \in Streams /\ streams + 1 > streams
    BY SizesAssumption DEF Opens, SizesInv, SizesData, ClosuresAre, Streams
<1>4. SizesOneStream'
    <2>1. \A s \in Streams : s > streams' => s > streams
        BY <1>3 DEF Opens, Streams
    <2>2. closure'[streams + 1].pending = {}
        BY <1>3, CleanedUp DEF Opens, Fresh
    <2>3. src'.n = streams + 1 /\ src'.open /\ sizes'.walking /\ streams' = streams + 1 /\ answered' = answered
        BY DEF Opens
    <2>4. \A s \in Streams : ~closure'[s].timer /\ (s > streams => closure'[s] = Fresh)
        BY CleanedUp DEF Opens
    <2>5. \A s \in Streams : s > streams => answered[s] = {}
        BY DEF SizesInv, SizesOneStream
    <2>6. QED
        BY <1>3, <2>1, <2>2, <2>3, <2>4, <2>5 DEF SizesOneStream
<1>5. SizesOnScreen'
    <2>1. closure'[streams + 1].pending = {} /\ answered'[streams + 1] = {}
        BY <1>3, CleanedUp DEF Opens, Fresh, SizesInv, SizesOneStream
    <2>2. QED
        BY <2>1 DEF Opens, SizesOnScreen, FiguresAreOfHere
<1>6. QED
    BY <1>2, <1>4, <1>5 DEF SizesInv

LEMMA FinishKeeps ==
    ASSUME SizesInv, src.open, Finish, UNCHANGED <<at, sudo, streams, answered>>
    PROVE  SizesInv'
<1>1. at > 0 /\ src.n \in Streams /\ streams \in Nat /\ src.n = streams
    BY SizesAssumption DEF SizesInv, SizesData, ClosuresAre, SizesOneStream, Streams
<1>2. <<>> \in Seq(Rows) /\ closure[src.n].pending \subseteq Listed
    BY <1>1 DEF SizesInv, SizesData, ClosuresAre
<1>3. SizesData'
    <2>1. src' = [n |-> src.n, open |-> FALSE, wire |-> <<>>, sent |-> src.sent]
        BY DEF SizesInv, SizesData, ClosuresAre, Finish
    <2>2. ClosuresAre(closure')
        BY <1>1, FreshClosure, ClosurePut DEF SizesInv, SizesData, Finish
    <2>3. DOMAIN sizes'.known \subseteq Listed /\ sizes'.known = [r \in DOMAIN sizes'.known |-> sizes'.known[r]]
          /\ sizes' = [known |-> sizes'.known, walking |-> sizes'.walking]
        BY <1>2 DEF SizesInv, SizesData, ClosuresAre, Finish, With
    <2>4. QED
        BY <1>2, <2>1, <2>2, <2>3 DEF SizesInv, SizesData, ClosuresAre
<1>4. \A s \in Streams : closure'[s] = IF s = src.n THEN Fresh ELSE closure[s]
    BY <1>1 DEF SizesInv, SizesData, ClosuresAre, Finish
<1>5. SizesOneStream'
    BY <1>1, <1>4 DEF SizesInv, SizesOneStream, Finish, Fresh
<1>6. SizesOnScreen'
    <2>1. DOMAIN sizes'.known = DOMAIN sizes.known \cup closure[src.n].pending
        BY DEF Finish, With
    <2>2. \A r \in DOMAIN sizes'.known : sizes'.known[r] = src.n
        BY <1>1 DEF Finish, With, SizesInv, SizesOnScreen, FiguresAreOfHere
    <2>3. closure'[src.n].pending = {}
        BY <1>1, <1>4 DEF Fresh
    <2>4. src'.n = src.n
        BY DEF Finish, SizesInv, SizesData, ClosuresAre
    <2>5. QED
        BY <1>1, <2>1, <2>2, <2>3, <2>4 DEF SizesInv, SizesOnScreen, FiguresAreOfHere
<1>7. QED
    BY <1>3, <1>5, <1>6 DEF SizesInv

LEMMA SizesKeeps == SizesInv /\ [SizesNext]_sizesVars => SizesInv'
<1> SUFFICES ASSUME SizesInv, [SizesNext]_sizesVars PROVE SizesInv'
    OBVIOUS
<1>1. CASE UNCHANGED sizesVars
    BY <1>1 DEF sizesVars, SizesInv, SizesData, ClosuresAre, SizesOneStream, SizesOnScreen, FiguresAreOfHere
<1>2. CASE SizesLeave
    <2>1. <<>> \in Seq(Rows)
        OBVIOUS
    <2>2. SizesData'
        BY <1>2, <2>1, CleanedUp DEF SizesLeave, SizesInv, SizesData, ClosuresAre, Nothing, Gone
    <2>3. SizesOneStream'
        BY <1>2, CleanedUp DEF SizesLeave, SizesInv, SizesOneStream, Nothing, Gone, Streams
    <2>4. QED
        BY <1>2, <2>2, <2>3 DEF SizesLeave, SizesInv, SizesOnScreen, FiguresAreOfHere, Nothing
<1>3. CASE SizesArrive
    BY <1>3, OpensKeeps DEF SizesArrive, SizesInv, SizesData, ClosuresAre
<1>4. CASE SudoOpens
    <2>1. sudo' = [on |-> sudo'.on, windows |-> sudo'.windows] /\ sudo'.windows \in 0 .. MaxWindows
        BY <1>4, SizesAssumption DEF SudoOpens, SizesInv, SizesData, ClosuresAre
    <2>2. CASE at > 0
        BY <1>4, <2>1, <2>2, OpensKeeps DEF SudoOpens, SizesInv, SizesData, ClosuresAre
    <2>3. CASE ~(at > 0)
        BY <1>4, <2>1, <2>3 DEF SudoOpens, SizesInv, SizesData, ClosuresAre, SizesOneStream, SizesOnScreen, FiguresAreOfHere
    <2>4. QED
        BY <2>2, <2>3
<1>5. CASE SudoExpires
    <2>1. sudo' = [on |-> sudo'.on, windows |-> sudo'.windows] /\ sudo'.windows \in 0 .. MaxWindows
        BY <1>5 DEF SudoExpires, SizesInv, SizesData, ClosuresAre
    <2>2. UNCHANGED <<at, sizes, src, closure, streams, answered>>
        BY <1>5 DEF SudoExpires
    <2>3. SizesData'
        BY <2>1, <2>2 DEF SizesInv, SizesData, ClosuresAre
    <2>4. SizesOneStream' /\ SizesOnScreen'
        BY <2>2 DEF SizesInv, SizesOneStream, SizesOnScreen, FiguresAreOfHere
    <2>5. QED
        BY <2>3, <2>4 DEF SizesInv
<1>6. CASE WalkAnswers
    <2>1. PICK r \in Rows : src' = [src EXCEPT !.wire = Append(@, r), !.sent = @ \cup {r}]
        BY <1>6 DEF WalkAnswers, Rows
    <2>2. src' = [n |-> src.n, open |-> src.open, wire |-> Append(src.wire, r), sent |-> src.sent \cup {r}]
        BY <2>1 DEF SizesInv, SizesData, ClosuresAre
    <2>3. Append(src.wire, r) \in Seq(Rows)
        BY DEF SizesInv, SizesData, ClosuresAre
    <2>4. SizesData'
        <3>1. UNCHANGED <<at, sudo, sizes, closure, streams, answered>>
            BY <1>6 DEF WalkAnswers
        <3>2. src'.wire \in Seq(Rows) /\ src'.n = src.n
            BY <2>2, <2>3
        <3>3. src' = [n |-> src'.n, open |-> src'.open, wire |-> src'.wire, sent |-> src'.sent]
            BY <2>2
        <3>4. QED
            BY <3>1, <3>2, <3>3 DEF SizesInv, SizesData, ClosuresAre
    <2>5. QED
        BY <1>6, <2>2, <2>4 DEF WalkAnswers, SizesInv, SizesOneStream, SizesOnScreen, FiguresAreOfHere
<1>7. CASE SizesHear
    <2>1. CASE Head(src.wire) = "done"
        BY <1>7, <2>1, FinishKeeps DEF SizesHear
    <2>2. CASE Head(src.wire) # "done"
        <3> DEFINE r == Head(src.wire)
        <3>1. r \in Listed /\ Tail(src.wire) \in Seq(Rows)
            <4>1. src.wire \in Seq(Rows) /\ src.wire # <<>>
                BY <1>7 DEF SizesHear, SizesInv, SizesData, ClosuresAre
            <4>2. Head(src.wire) \in Rows /\ Tail(src.wire) \in Seq(Rows)
                BY <4>1
            <4>3. QED
                BY <2>2, <4>2 DEF Rows
        <3>2. at > 0 /\ src.n \in Streams /\ streams \in Nat /\ src.n = streams
            BY <1>7, SizesAssumption DEF SizesHear, SizesInv, SizesData, ClosuresAre, SizesOneStream, Streams
        <3>3. src' = [n |-> src.n, open |-> src.open, wire |-> Tail(src.wire), sent |-> src.sent]
            BY <1>7, <2>2 DEF SizesHear, SizesInv, SizesData, ClosuresAre
        <3>4. /\ closure' = [closure EXCEPT ![src.n] = [pending |-> closure[src.n].pending \cup {r}, timer |-> TRUE]]
              /\ answered' = [answered EXCEPT ![src.n] = answered[src.n] \cup {r}]
              /\ UNCHANGED <<at, sudo, streams, sizes>> /\ src.open
            BY <1>7, <2>2, <3>2 DEF SizesHear, SizesInv, SizesData, ClosuresAre
        <3> HIDE DEF r
        <3>5. closure[src.n].pending \cup {r} \in SUBSET Listed /\ answered[src.n] \cup {r} \in SUBSET Listed
            BY <3>1, <3>2 DEF SizesInv, SizesData, ClosuresAre
        <3>6. SizesData'
            <4>1. ClosuresAre(closure')
                BY <3>2, <3>4, <3>5, HeldClosure, ClosurePut DEF SizesInv, SizesData
            <4>2. answered' \in [Streams -> SUBSET Listed]
                BY <3>2, <3>4, <3>5 DEF SizesInv, SizesData
            <4>3. src' = [n |-> src'.n, open |-> src'.open, wire |-> src'.wire, sent |-> src'.sent]
                  /\ src'.wire \in Seq(Rows) /\ src'.n \in Nat
                BY <3>1, <3>2, <3>3
            <4>4. QED
                BY <3>4, <4>1, <4>2, <4>3 DEF SizesInv, SizesData
        <3>7. /\ \A s \in Streams : closure'[s] = IF s = src.n
                    THEN [pending |-> closure[src.n].pending \cup {r}, timer |-> TRUE] ELSE closure[s]
              /\ \A s \in Streams : answered'[s] = IF s = src.n THEN answered[src.n] \cup {r} ELSE answered[s]
            BY <3>2, <3>4 DEF SizesInv, SizesData, ClosuresAre
        <3>8. SizesOneStream'
            BY <3>2, <3>3, <3>4, <3>7 DEF SizesInv, SizesOneStream, Streams
        <3>9. SizesOnScreen'
            BY <3>2, <3>3, <3>4, <3>7 DEF SizesInv, SizesOnScreen, FiguresAreOfHere
        <3>10. QED
            BY <3>6, <3>8, <3>9 DEF SizesInv
    <2>3. QED
        BY <2>1, <2>2
<1>8. CASE SizesErr
    BY <1>8, FinishKeeps DEF SizesErr
<1>9. CASE SizesFlush
    <2>1. PICK s \in DOMAIN closure : /\ closure[s].timer
                                      /\ closure' = [closure EXCEPT ![s] = Fresh]
                                      /\ sizes' = [sizes EXCEPT !.known = With(@, closure[s].pending, s)]
        BY <1>9 DEF SizesFlush
    <2>2. s \in Streams /\ s = src.n /\ src.open /\ at > 0 /\ src.n = streams /\ streams \in Nat
        BY <2>1 DEF SizesInv, SizesData, ClosuresAre, SizesOneStream
    <2>3. sizes' = [known |-> With(sizes.known, closure[s].pending, s), walking |-> sizes.walking]
        BY <2>1 DEF SizesInv, SizesData, ClosuresAre
    <2>4. closure[s].pending \subseteq Listed
        BY <2>2 DEF SizesInv, SizesData, ClosuresAre
    <2>5. UNCHANGED <<at, sudo, src, streams, answered>>
        BY <1>9 DEF SizesFlush
    <2>6. SizesData'
        <3>1. ClosuresAre(closure')
            BY <2>1 DEF SizesInv, SizesData, ClosuresAre, IsClosure, Fresh
        <3>2. DOMAIN sizes'.known \subseteq Listed /\ sizes'.known = [r \in DOMAIN sizes'.known |-> sizes'.known[r]]
              /\ sizes' = [known |-> sizes'.known, walking |-> sizes'.walking]
            BY <2>3, <2>4 DEF SizesInv, SizesData, ClosuresAre, With
        <3>3. QED
            BY <2>5, <3>1, <3>2 DEF SizesInv, SizesData, ClosuresAre
    <2>7. \A q \in Streams : closure'[q] = IF q = src.n THEN Fresh ELSE closure[q]
        BY <2>1, <2>2 DEF SizesInv, SizesData, ClosuresAre
    <2>8. SizesOneStream'
        BY <2>2, <2>3, <2>5, <2>7 DEF SizesInv, SizesOneStream, Fresh
    <2>9. SizesOnScreen'
        <3>1. DOMAIN sizes'.known = DOMAIN sizes.known \cup closure[src.n].pending
            BY <2>2, <2>3 DEF With
        <3>2. \A r \in DOMAIN sizes'.known : sizes'.known[r] = src.n
            BY <2>2, <2>3 DEF With, SizesInv, SizesOnScreen, FiguresAreOfHere
        <3>3. closure'[src.n].pending = {}
            BY <2>2, <2>7 DEF Fresh
        <3>4. QED
            BY <2>2, <2>5, <3>1, <3>2, <3>3 DEF SizesInv, SizesOnScreen, FiguresAreOfHere
    <2>10. QED
        BY <2>6, <2>8, <2>9 DEF SizesInv
<1>10. QED
    BY <1>1, <1>2, <1>3, <1>4, <1>5, <1>6, <1>7, <1>8, <1>9 DEF SizesNext

\* Every figure on screen is of the stream of this directory and of the latest
\* window, and once a walk is over every answer that came is on screen
\* (FiguresAreOfHere, FinishMissesNothing).
LEMMA SizesHolds == SizesInv => SizesTypeOK /\ FiguresAreOfHere /\ FinishMissesNothing
<1> SUFFICES ASSUME SizesInv PROVE SizesTypeOK /\ FiguresAreOfHere /\ FinishMissesNothing
    OBVIOUS
<1>1. SizesTypeOK
    BY DEF SizesInv, SizesData, ClosuresAre, SizesTypeOK
<1>2. FinishMissesNothing
    <2> SUFFICES ASSUME at > 0, ~sizes.walking PROVE DOMAIN sizes.known = answered[src.n]
        BY DEF FinishMissesNothing
    <2>1. src.n \in Streams
        BY SizesAssumption DEF SizesInv, SizesData, ClosuresAre, SizesOneStream, Streams
    <2>2. closure[src.n].pending = {}
        BY <2>1 DEF SizesInv, SizesOneStream
    <2>3. QED
        BY <2>2 DEF SizesInv, SizesOnScreen
<1>3. QED
    BY <1>1, <1>2 DEF SizesInv, SizesOnScreen

\* The figures of a directory are of that directory, and a finished walk shows
\* all of them.
THEOREM FiguresAlways == SizesSpec => [](FiguresAreOfHere /\ FinishMissesNothing)
BY SizesStart, SizesKeeps, SizesHolds, PTL DEF SizesSpec
-----------------------------------------------------------------------------
(* A page.                                                                 *)

\* A behaviour of a page is, to each of its components, one of the component's.
LEMMA PagePart ==
    [PartNext]_<<trayVars, stripVars, feedVars, sizesVars, paneVars, termVars, dlgVars, part>> =>
        /\ [TrayNext]_trayVars /\ [StripNext]_stripVars /\ [DlgNext]_dlgVars
        /\ [FeedNext]_feedVars /\ [PaneNext]_paneVars
        /\ [SizesNext]_sizesVars /\ [TermNext]_termVars
BY DEF PartNext

\* What is done once is done once: a file of an upload is put there once, an end
\* is told once, and what was cut is moved once (OnceIsOnce).
THEOREM OnceAlways == PartSpec => []OnceIsOnce
<1> DEFINE all == <<trayVars, stripVars, feedVars, sizesVars, paneVars, termVars, dlgVars, part>>
           Inv == TrayInv /\ StripInv /\ DlgInv
<1>1. PartInit => Inv
    BY TrayBegins, StripStart, DlgStart DEF PartInit
<1>2. Inv /\ [PartNext]_all => Inv'
    BY PagePart, TrayKeeps, StripKeeps, DlgKeeps
<1>3. Inv => OnceIsOnce
    BY TrayHolds, StripHolds, DlgHolds DEF OnceIsOnce
<1>4. QED
    BY <1>1, <1>2, <1>3, PTL DEF PartSpec

\* What a page shows is of where it is and lacks nothing that was answered, a
\* line of the terminal does what it says, and a dialog's requests are for what
\* it was given (ScreenIsTrue).
THEOREM ScreenAlways == PartSpec => []ScreenIsTrue
<1> DEFINE all == <<trayVars, stripVars, feedVars, sizesVars, paneVars, termVars, dlgVars, part>>
           Inv == LeavesInv /\ FeedInv /\ SizesInv /\ HereInv /\ TermInv /\ AimInv
<1>1. PartInit => Inv
    BY LeavesStart, FeedStart, SizesStart, HereStart, TermStart, AimStart DEF PartInit
<1>2. Inv /\ [PartNext]_all => Inv'
    <2> SUFFICES ASSUME Inv, [PartNext]_all PROVE Inv'
        OBVIOUS
    <2>1. LeavesInv' /\ FeedInv' /\ SizesInv'
        BY PagePart, LeavesKeeps, FeedKeeps, SizesKeeps
    <2>2. HereInv' /\ TermInv' /\ AimInv'
        BY PagePart, HereKeeps, TermKeeps, AimKeeps
    <2>3. QED
        BY <2>1, <2>2
<1>3. Inv => ScreenIsTrue
    BY LeavesHolds, FeedHolds, SizesHolds, HereHolds, TermHolds DEF ScreenIsTrue, AimInv
<1>4. QED
    BY <1>1, <1>2, <1>3, PTL DEF PartSpec

\* Every variable of a page has its type, and every count its bound (FrontTypesOK).
THEOREM FrontTypes == PartSpec => []FrontTypesOK
<1> DEFINE all == <<trayVars, stripVars, feedVars, sizesVars, paneVars, termVars, dlgVars, part>>
           Left  == TrayInv /\ RowsOwn /\ LeavesInv /\ FeedInv /\ SizesInv
           Right == HereInv /\ TermInv /\ TypedDlg /\ LateInv
<1>1. PartInit => Left /\ Right
    BY TrayBegins, RowsStart, LeavesStart, FeedStart, SizesStart, HereStart, TermStart, TypedStart, LateStart
       DEF PartInit
<1>2. Left /\ Right /\ [PartNext]_all => Left' /\ Right'
    <2> SUFFICES ASSUME Left, Right, [PartNext]_all PROVE Left' /\ Right'
        OBVIOUS
    <2>1. TrayInv' /\ RowsOwn'
        BY PagePart, TrayKeeps, RowsKeep
    <2>2. LeavesInv' /\ FeedInv' /\ SizesInv'
        BY PagePart, LeavesKeeps, FeedKeeps, SizesKeeps
    <2>3. HereInv' /\ TermInv'
        BY PagePart, HereKeeps, TermKeeps
    <2>4. TypedDlg' /\ LateInv'
        BY PagePart, TypedKeeps, LateKeeps
    <2>5. QED
        BY <2>1, <2>2, <2>3, <2>4
<1>3. Left /\ Right => FrontTypesOK
    BY TrayTypes, LeavesHolds, FeedHolds, SizesHolds, HereHolds, TermHolds, TypedHolds DEF FrontTypesOK
<1>4. QED
    BY <1>1, <1>2, <1>3, PTL DEF PartSpec

\* What is over stays over: a cancelled upload is not sent again, a tail that
\* ended is not taken up, Back goes somewhere, what is held is held until it is
\* let go, moved or gone, and what was taken is no longer selected (OverIsOver).
THEOREM OverAlways == PartSpec => OverIsOver
<1> DEFINE all == <<trayVars, stripVars, feedVars, sizesVars, paneVars, termVars, dlgVars, part>>
           Inv == TrayInv /\ CancelInv /\ EndInv /\ PaneInv /\ LateInv
           CancelStep == ~req.on /\ sentAt \in {"wire", "pause"} => ~req'.on
           EndStep == status = "ended" /\ attempt' = attempt => status' = "ended" /\ entries' = entries
           BackStep == Len(mem'.hist) < Len(mem.hist) => mem'.tabs[mem'.tab] # url.p
<1>1. PartInit => Inv
    BY TrayBegins, EndStart, PaneStart, LateStart DEF PartInit, TrayInit, CancelInv
<1>2. Inv /\ [PartNext]_all =>
          /\ Inv'
          /\ [CancelStep]_trayVars /\ [EndStep]_feedVars /\ [BackStep]_paneVars
          /\ [HeldStep]_dlgVars /\ [GhostStep]_dlgVars
    <2> SUFFICES ASSUME Inv, [PartNext]_all
                 PROVE  /\ Inv'
                        /\ [CancelStep]_trayVars /\ [EndStep]_feedVars /\ [BackStep]_paneVars
                        /\ [HeldStep]_dlgVars /\ [GhostStep]_dlgVars
        OBVIOUS
    <2>1. TrayInv' /\ CancelInv' /\ [CancelStep]_trayVars
        BY PagePart, TrayKeeps, CancelKeeps, CancelHolds
    <2>2. EndInv' /\ [EndStep]_feedVars
        BY PagePart, EndKeeps
    <2>3. PaneInv' /\ BackStep
        BY PagePart, PaneKeeps
    <2>4. LateInv' /\ HeldStep /\ GhostStep
        BY PagePart, LateKeeps
    <2>5. QED
        BY <2>1, <2>2, <2>3, <2>4
<1>3. PartSpec => [][CancelStep]_trayVars /\ [][EndStep]_feedVars /\ [][BackStep]_paneVars
                  /\ [][HeldStep]_dlgVars /\ [][GhostStep]_dlgVars
    <2> HIDE DEF CancelStep, EndStep, BackStep
    <2>1. QED
        BY <1>1, <1>2, PTL DEF PartSpec
<1>4. QED
    BY <1>3 DEF OverIsOver, CancelledStaysOff, EndedIsEnd, BackGoesSomewhere, HeldIsKept, NoGhosts, HeldStep, GhostStep
=============================================================================
