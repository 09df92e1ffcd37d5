----------------------------- MODULE Downloads -----------------------------
(***************************************************************************)
(* One download, from the request to its audit row: DownloadService,       *)
(* LinkService, PreviewService and sendDownload, over a host other people  *)
(* write to. A file streams as itself, a directory as a zip that is walked *)
(* once to be judged and once more to be sent. What is in a file is its    *)
(* length; a byte is its position.                                         *)
(***************************************************************************)
EXTENDS Integers, SequencesExt, FiniteSetsExt, Picking

CONSTANTS
    DownEntries,  \* every name there ever is under the host, in post-order
    DownTop,      \* the directory the others are under
    DownParent,   \* DownParent[n]: the directory that holds n
    Churned,      \* the names other people make, replace and remove
    DownDenied,   \* the denylist
    Hidden,       \* directories that may be closed to the account at first
    NotOurs,      \* the files the account cannot read without sudo
    DownCeiling,  \* entryCeiling()
    SeenCeiling,  \* previewCeiling()
    MaxBytes, MaxMeddling   \* bounds on a file and on what others do

DownNames == ToSet(DownEntries)
NoBytes   == -1    \* `expectBytes: null`
WholeFile == [kind |-> "full", start |-> 0, end |-> 0]

ASSUME DownAssumption ==
    /\ DownEntries \in Seq(DownNames) /\ IsInjective(DownEntries) /\ DownTop \in DownNames
    /\ DownParent \in [DownNames \ {DownTop} -> DownNames]
    /\ UNION {Churned, DownDenied, Hidden, NotOurs} \subseteq DownNames \ {DownTop}
    /\ {DownCeiling, SeenCeiling, MaxBytes, MaxMeddling} \subseteq Nat

VARIABLES
    onDisk,    \* what a name is on the host: "none", "file" or "dir"
    size,      \* its length
    listable,  \* the directories the account can list
    rootFor,   \* a sudo window is open for the session
    meddled,   \* how often others have written
    token,     \* the path a signed link was minted for, "" before
    fresh,     \* the link has not expired and its key has not been rotated
    downStep,  \* where the request stands
    want,      \* the route, the path and the window asked for
    dplan,     \* the DownloadPlan
    promised,  \* `expectBytes`
    auditRow,  \* the audit row
    from, pos, \* the first byte sent, and the next one
    manifest,  \* what of the second walk is still to be zipped
    zipped,    \* what the archive holds
    steady,    \* history: what was there, and seen, from the first walk on
    short      \* history: the second walk stopped at the ceiling

downVars == <<onDisk, size, listable, rootFor, meddled, token, fresh, downStep, want, dplan,
              promised, auditRow, from, pos, manifest, zipped, steady, short>>
hostVars == <<onDisk, size, listable, rootFor, meddled>>
linkVars == <<token, fresh>>
sendVars == <<from, pos, manifest, zipped, short>>

Over[n \in DownNames] == IF n = DownTop THEN {} ELSE {DownParent[n]} \cup Over[DownParent[n]]
There(n) == onDisk[n] # "none" /\ \A d \in Over[n] : onDisk[d] = "dir"

\* walkTree(): post-order, the root last whether or not it can be listed.
Seen(r) == {n \in DownNames : n # r /\ r \in Over[n] /\ There(n)
                /\ \A d \in Over[n] : d \in Over[r] \/ d \in listable}
Walk(r) == Picked(DownEntries, {i \in DOMAIN DownEntries : DownEntries[i] \in {r} \cup Seen(r)})
Exceeded(r) == Cardinality(Seen(r)) > DownCeiling

\* `paths` of a walk: all of it, or what came before the ceiling was passed.
DownPaths(r) == IF Exceeded(r) THEN SubSeq(Walk(r), 1, DownCeiling + 1) ELSE Walk(r)

\* isDeniedLocally: an entry of the denylist, or something under one.
Closed(n) == ({n} \cup Over[n]) \cap DownDenied # {}

\* rangeLength.
RangeLength(r) == r.end - r.start + 1

\* Mutation: an end past the last byte is not clamped.
Unclamped(r, n) == [ok |-> n > 0 /\ r.start < n, range |-> [r EXCEPT !.kind = "partial"]]

\* parseRange: a window clamped to the file, or nothing of it that exists.
ParseRange(r, n) ==
    CASE r.kind = "full"   -> [ok |-> TRUE, range |-> WholeFile]
      [] r.kind = "suffix" -> [ok |-> n > 0 /\ r.end > 0,
                               range |-> [kind |-> "partial", start |-> Max({n - r.end, 0}), end |-> n - 1]]
      [] OTHER             -> [ok |-> n > 0 /\ r.start < n /\ r.start <= r.end,
                               range |-> [kind |-> "partial", start |-> r.start, end |-> Min({r.end, n - 1})]]

Windows == {WholeFile} \cup {[kind |-> "suffix", start |-> 0, end |-> k] : k \in 0..MaxBytes + 1}
    \cup {[kind |-> "window", start |-> a, end |-> b] : a, b \in 0..MaxBytes + 1}

\* The host: what others write to is not there, or is a file.
DownHost ==
    /\ \E k \in {"none", "file"} :
          onDisk = [n \in DownNames |->
              IF n \in Churned THEN k
              ELSE IF \E m \in DownNames \ {DownTop} : DownParent[m] = n THEN "dir" ELSE "file"]
    /\ listable \in {DownNames, DownNames \ Hidden} /\ rootFor \in BOOLEAN

DownFresh ==
    /\ size = [n \in DownNames |-> MaxBytes] /\ meddled = 0
    /\ token = "" /\ fresh = FALSE
    /\ downStep = "idle" /\ want = [route |-> "none", path |-> DownTop, range |-> WholeFile]
    /\ dplan = [kind |-> "none", size |-> 0]
    /\ promised = NoBytes /\ auditRow = "none" /\ from = 0 /\ pos = 0
    /\ manifest = <<>> /\ zipped = {} /\ steady = {} /\ short = FALSE

DownInit == DownHost /\ DownFresh
-----------------------------------------------------------------------------
(* What others do (external).                                              *)

DownMeddle ==
    /\ downStep \notin {"idle", "over", "refused", "gone"}
    /\ meddled < MaxMeddling /\ meddled' = meddled + 1
    /\ \/ \E n \in Churned, k \in {"none", "file", "dir"} :
            onDisk' = [onDisk EXCEPT ![n] = k] /\ UNCHANGED <<size, listable, rootFor>>
       \/ \E s \in 0..MaxBytes :
            onDisk[want.path] = "file" /\ size' = [size EXCEPT ![want.path] = s] /\ UNCHANGED <<onDisk, listable, rootFor>>
       \/ \E n \in Hidden : listable' = SymDiff(listable, {n}) /\ UNCHANGED <<onDisk, size, rootFor>>
       \/ rootFor' = ~rootFor /\ UNCHANGED <<onDisk, size, listable>>
    /\ UNCHANGED <<linkVars, downStep, want, dplan, promised, auditRow, sendVars>>
    /\ steady' = {n \in steady : n = want.path \/ n \in Seen(want.path)'}

LinkLapses ==
    /\ fresh /\ fresh' = FALSE
    /\ UNCHANGED <<hostVars, token, downStep, want, dplan, promised, auditRow, sendVars, steady>>
-----------------------------------------------------------------------------
(* The plan: everything that can refuse.                                   *)

\* mint(): a plan of its own, of one file.
LinkMint(n) ==
    /\ token = "" /\ downStep = "idle" /\ There(n) /\ onDisk[n] = "file" /\ ~Closed(n)
    /\ token' = n /\ fresh' = TRUE
    /\ UNCHANGED <<hostVars, downStep, want, dplan, promised, auditRow, sendVars, steady>>

\* The request: the guard and the limits of its route. verifyLink is a guard
\* of the route of a link, whose path is the claim's. The window asked of a
\* directory is not read.
DownAsk(route, n, r) ==
    /\ downStep = "idle"
    /\ route = "link" => n = token /\ fresh
    /\ route # "session" \/ onDisk[n] # "file" => r = WholeFile
    /\ want' = [route |-> route, path |-> n, range |-> r]
    /\ \/ ~Closed(n) /\ downStep' = "stat"
       \/ downStep' = "refused"
    /\ UNCHANGED <<hostVars, linkVars, dplan, promised, auditRow, sendVars, steady>>

\* driver.stat: a file is planned here, a directory is walked first. The
\* window is judged against this size; a preview is of a small file.
DownStat ==
    /\ downStep = "stat"
    /\ IF ~There(want.path) THEN downStep' = "refused" /\ UNCHANGED <<want, dplan, promised>>
       ELSE LET n == size[want.path]
                v == ParseRange(want.range, n)
            IN  IF onDisk[want.path] = "dir" THEN downStep' = "walk" /\ UNCHANGED <<want, dplan, promised>>
                ELSE IF ~v.ok \/ (want.route = "preview" /\ n > SeenCeiling)
                THEN downStep' = "refused" /\ UNCHANGED <<want, dplan, promised>>
                ELSE /\ downStep' = "record" /\ dplan' = [kind |-> "file", size |-> n]
                     /\ want' = [want EXCEPT !.range = v.range]
                     /\ promised' = IF v.range = WholeFile THEN n ELSE RangeLength(v.range)
    /\ UNCHANGED <<hostVars, linkVars, auditRow, sendVars, steady>>

\* The walk that judges a directory. A link is served with the length of a
\* file whatever its path has become.
DownWalk ==
    /\ downStep = "walk"
    /\ IF Exceeded(want.path) \/ (\E n \in ToSet(Walk(want.path)) : Closed(n)) \/ want.route = "preview"
       THEN downStep' = "refused" /\ UNCHANGED <<dplan, promised, steady>>
       ELSE /\ downStep' = "record" /\ dplan' = [kind |-> "dir", size |-> 0]
            /\ promised' = IF want.route = "link" THEN 0 ELSE NoBytes
            /\ steady' = ToSet(Walk(want.path))
    /\ UNCHANGED <<hostVars, linkVars, want, auditRow, sendVars>>

\* AuditService.open: a download that cannot be recorded does not happen; a
\* preview has no row.
DownRecord ==
    /\ downStep = "record"
    /\ \/ want.route # "preview" /\ auditRow' = "open" /\ downStep' = "open"
       \/ want.route = "preview" /\ downStep' = "open" /\ UNCHANGED auditRow
       \/ want.route # "preview" /\ downStep' = "refused" /\ UNCHANGED auditRow
    /\ UNCHANGED <<hostVars, linkVars, want, dplan, promised, sendVars, steady>>
-----------------------------------------------------------------------------
(* stream().                                                               *)

\* Only the route of a session hands its session on.
Elevates == want.route # "link" /\ rootFor

\* Mutation: sudo cat answers a window too.
CatAnswersAll ==
    /\ downStep = "open" /\ dplan.kind = "file" /\ There(want.path)
    /\ want.path \in NotOurs => Elevates
    /\ from' = IF want.path \in NotOurs THEN 0 ELSE want.range.start
    /\ pos' = from' /\ downStep' = "send"
    /\ UNCHANGED <<hostVars, linkVars, want, dplan, promised, auditRow, manifest, zipped, short, steady>>

\* file(): an ordinary read from the start of the window, or sudo cat of the
\* whole file where no window was asked for.
DownOpenFile ==
    /\ downStep = "open" /\ dplan.kind = "file" /\ There(want.path)
    /\ want.path \in NotOurs => Elevates /\ want.range = WholeFile
    /\ from' = want.range.start /\ pos' = want.range.start /\ downStep' = "send"
    /\ UNCHANGED <<hostVars, linkVars, want, dplan, promised, auditRow, manifest, zipped, short, steady>>

\* Mutation: the archive is made of a walk nobody judged.
UnjudgedArchive ==
    /\ downStep = "open" /\ dplan.kind = "dir"
    /\ manifest' = DownPaths(want.path) /\ short' = Exceeded(want.path) /\ downStep' = "send"
    /\ UNCHANGED <<hostVars, linkVars, want, dplan, promised, auditRow, from, pos, zipped, steady>>

\* archive(): the second walk is the manifest, and is judged again; that it
\* stopped at the ceiling is not looked at.
DownOpenArchive ==
    /\ downStep = "open" /\ dplan.kind = "dir"
    /\ ~\E n \in ToSet(DownPaths(want.path)) : Closed(n)
    /\ manifest' = DownPaths(want.path) /\ short' = Exceeded(want.path) /\ downStep' = "send"
    /\ UNCHANGED <<hostVars, linkVars, want, dplan, promised, auditRow, from, pos, zipped, steady>>

\* What stream() throws leaves the handler with its row open.
DownOpenFails ==
    /\ downStep = "open"
    /\ downStep' = "refused"
    /\ UNCHANGED <<hostVars, linkVars, want, dplan, promised, auditRow, sendVars, steady>>
-----------------------------------------------------------------------------
(* sendDownload().                                                         *)

\* Where the stream ends: at the end of the file as it is, or of the window.
StreamEnd == IF want.range = WholeFile THEN size[want.path] ELSE Min({size[want.path], want.range.end + 1})

DownRead ==
    /\ downStep = "send" /\ dplan.kind = "file" /\ pos < StreamEnd
    /\ pos' = pos + 1
    /\ UNCHANGED <<hostVars, linkVars, downStep, want, dplan, promised, auditRow, from, manifest, zipped, short, steady>>

\* An entry of the archive: a directory, or a file opened when its turn comes.
Zippable(n) == onDisk[n] = "dir" \/ (There(n) /\ n \notin NotOurs)

\* Mutation: directories are left to their files.
DropsDirectories ==
    /\ downStep = "send" /\ manifest # <<>> /\ (Zippable(Head(manifest)) \/ Head(manifest) = want.path)
    /\ manifest' = Tail(manifest)
    /\ zipped' = IF onDisk[Head(manifest)] = "file" THEN zipped \cup {Head(manifest)} ELSE zipped
    /\ UNCHANGED <<hostVars, linkVars, downStep, want, dplan, promised, auditRow, from, pos, short, steady>>

DownZip ==
    /\ downStep = "send" /\ manifest # <<>> /\ (Zippable(Head(manifest)) \/ Head(manifest) = want.path)
    /\ manifest' = Tail(manifest) /\ zipped' = zipped \cup {Head(manifest)}
    /\ UNCHANGED <<hostVars, linkVars, downStep, want, dplan, promised, auditRow, from, pos, short, steady>>

\* A file of the archive that cannot be opened: the archiver emits an error
\* nobody listens to, and the process ends (external).
ZipBreaks ==
    /\ downStep = "send" /\ manifest # <<>> /\ ~Zippable(Head(manifest)) /\ Head(manifest) # want.path
    /\ downStep' = "gone"
    /\ UNCHANGED <<hostVars, linkVars, want, dplan, promised, auditRow, sendVars, steady>>

\* ByteCounter.
Sent == IF dplan.kind = "file" THEN pos - from ELSE Cardinality(zipped)

Settles(outcome) ==
    /\ downStep' = "over"
    /\ auditRow' = IF auditRow = "open" THEN outcome ELSE auditRow
    /\ UNCHANGED <<hostVars, linkVars, want, dplan, promised, sendVars, steady>>

\* The pipeline ends with its stream.
DownEnds ==
    /\ downStep = "send" /\ manifest = <<>> /\ (dplan.kind = "file" => pos >= StreamEnd)
    /\ Settles("success")

\* Mutation: whoever hangs up has failed.
CutFails == downStep = "send" /\ Settles("failure")

\* The client hangs up, or the stream fails: a success where every byte that
\* was promised has left.
DownCut ==
    /\ downStep = "send"
    /\ Settles(IF Sent = promised THEN "success" ELSE "failure")

DownNext ==
    \/ DownMeddle \/ LinkLapses
    \/ \E n \in DownNames : LinkMint(n)
    \/ \E n \in DownNames, r \in Windows, route \in {"session", "link", "preview"} : DownAsk(route, n, r)
    \/ DownStat \/ DownWalk \/ DownRecord
    \/ DownOpenFile \/ DownOpenArchive \/ DownOpenFails
    \/ DownRead \/ DownZip \/ ZipBreaks \/ DownEnds \/ DownCut
-----------------------------------------------------------------------------
DownTypeOK ==
    /\ onDisk \in [DownNames -> {"none", "file", "dir"}] /\ size \in [DownNames -> 0..MaxBytes]
    /\ listable \subseteq DownNames /\ rootFor \in BOOLEAN /\ meddled \in 0..MaxMeddling
    /\ token \in DownNames \cup {""} /\ fresh \in BOOLEAN
    /\ downStep \in {"idle", "stat", "walk", "record", "open", "send", "over", "refused", "gone"}
    /\ want.route \in {"none", "session", "link", "preview"} /\ want.path \in DownNames
    /\ dplan.kind \in {"none", "file", "dir"} /\ dplan.size \in 0..MaxBytes
    /\ promised \in NoBytes..MaxBytes /\ auditRow \in {"none", "open", "success", "failure"}
    /\ from \in 0..MaxBytes /\ pos \in 0..MaxBytes
    /\ ToSet(manifest) \subseteq DownNames /\ zipped \subseteq DownNames /\ steady \subseteq DownNames /\ short \in BOOLEAN

\* Nothing protected leaves the host: a name the first walk could not see is
\* judged by the second (download.service.ts, archive).
NothingClosedLeaves ==
    /\ \A n \in zipped : ~Closed(n)
    /\ downStep = "send" => ~Closed(want.path)

\* An archive that was told complete holds everything that was there to be
\* seen from the first walk to its end, unless the tree outgrew the ceiling
\* between the two walks, or a link promised the length of a file.
ArchiveIsTheTree ==
    auditRow = "success" /\ dplan.kind = "dir" /\ promised = NoBytes /\ ~short => steady \subseteq zipped

\* A window is answered with bytes of that window, never with more, whoever
\* writes to the file and however it is read.
RangeIsKept ==
    want.range.kind = "partial" /\ downStep \in {"send", "over"} =>
        /\ from = want.range.start /\ pos <= want.range.end + 1
        /\ pos - from <= promised /\ 0 < promised /\ want.range.end < dplan.size

\* A row that says failure is of a download whose promised bytes did not all
\* leave, however the exchange ended (download-response.ts, sendDownload).
FailureIsShort == auditRow = "failure" => Sent # promised

\* Not a property of the code, and checked by no run: the length was promised
\* from the plan, and a file that shrinks ends its stream early and counts as
\* a success.
SuccessIsWhole == auditRow = "success" /\ dplan.kind = "file" => pos - from = promised

\* Not a property of the code, and checked by no run: a signed link serves a
\* file, but the path may have become a directory since it was minted.
LinkIsAFile == downStep = "send" /\ want.route = "link" => dplan.kind = "file"

\* Not a property of the code, and checked by no run: a row is settled
\* whatever becomes of the download; one whose stream() threw stays open.
RowIsSettled == downStep \in {"over", "refused", "gone"} => auditRow # "open"
=============================================================================
