---------------------------- MODULE HostReadings ----------------------------
(***************************************************************************)
(* What the panels say of one host: the summary, metrics and disks         *)
(* services with their caches and the readings under way, while the host   *)
(* is edited (HostsService.update, which makes them forget).  Another host *)
(* has entries of its own in each map.                                     *)
(***************************************************************************)
EXTENDS Naturals, Integers, Sequences, FiniteSets

CONSTANTS
    Readers,      \* the requests
    Window,       \* HISTORY_SAMPLES
    MaxEdits,     \* bounds: edits of the connection,
    MaxReadings   \* and the collections

ASSUME ReadingAssumption ==
    /\ IsFiniteSet(Readers) /\ "none" \notin Readers /\ Window \in Nat \ {0}
    /\ {MaxEdits, MaxReadings} \subseteq Nat

Kinds     == {"summary", "metrics", "disks"}
Coalesced == {"metrics", "disks"}     \* the services with an `inFlight`
None      == [gen |-> -1, fresh |-> FALSE]

VARIABLES
    gen,        \* the edit the stored connection comes from
    owed,       \* an update has committed and not yet made the services forget
    cache,      \* cache[k]: the connection its value was read over, and whether
                \* the entry is younger than its TTL
    inFlight,   \* inFlight[k]: the reader collecting, or "none"
    history,    \* the loads kept, each by the connection it was read over
    reader,     \* reader[r]: [at, kind, gen]
    readings,
    late        \* history: the kinds somebody was reading when last forgotten

readVars == <<gen, owed, cache, inFlight, history, reader, readings, late>>

Quiet == [at |-> "idle", kind |-> "summary", gen |-> 0]

Pending(k)  == k \in Coalesced /\ inFlight[k] # "none"
At(r, p, k) == reader[r].at = p /\ reader[r].kind = k
-----------------------------------------------------------------------------
(* A request.                                                              *)

\* The host is looked up and a driver made for it as it is now.
ReadAsk(r) ==
    /\ reader[r].at = "idle"
    /\ \E k \in Kinds : reader' = [reader EXCEPT ![r] = [at |-> "driver", kind |-> k, gen |-> gen]]
    /\ UNCHANGED <<gen, owed, cache, inFlight, history, readings, late>>

Answered(rs) == [r \in Readers |-> IF r \in rs THEN Quiet ELSE reader[r]]

\* forHost: the cache while it is young, the reading under way, or a reading.
ReadBegin(r) ==
    /\ reader[r].at = "driver"
    /\ LET k == reader[r].kind
       IN  IF cache[k].fresh
           THEN reader' = Answered({r}) /\ UNCHANGED <<inFlight, readings>>
           ELSE IF Pending(k)
           THEN /\ reader' = [reader EXCEPT ![r].at = "wait"]
                /\ UNCHANGED <<inFlight, readings>>
           ELSE /\ readings < MaxReadings /\ readings' = readings + 1
                /\ reader' = [reader EXCEPT ![r].at = "collect"]
                /\ inFlight' = IF k \in Coalesced THEN [inFlight EXCEPT ![k] = r] ELSE inFlight
    /\ UNCHANGED <<gen, owed, cache, history, late>>

\* Mutation: a reading under way is not shared.
ReadBeginAlone(r) ==
    /\ reader[r].at = "driver"
    /\ LET k == reader[r].kind
       IN  IF cache[k].fresh
           THEN reader' = Answered({r}) /\ UNCHANGED <<inFlight, readings>>
           ELSE /\ readings < MaxReadings /\ readings' = readings + 1
                /\ reader' = [reader EXCEPT ![r].at = "collect"]
                /\ inFlight' = IF k \in Coalesced THEN [inFlight EXCEPT ![k] = r] ELSE inFlight
    /\ UNCHANGED <<gen, owed, cache, history, late>>

\* Mutation: the window is trimmed before the push.
KeptPast(s) == IF Len(s) > Window + 1 THEN SubSeq(s, Len(s) - Window, Len(s)) ELSE s

\* The last HISTORY_SAMPLES of what is kept and this one.
Kept(s) == IF Len(s) > Window THEN SubSeq(s, Len(s) - Window + 1, Len(s)) ELSE s

\* Mutation: a reading that ended is still the one under way.
ReadDoneHeld(r) ==
    /\ reader[r].at = "collect"
    /\ LET k == reader[r].kind
       IN  /\ cache' = [cache EXCEPT ![k] = [gen |-> reader[r].gen, fresh |-> TRUE]]
           /\ reader' = Answered({r} \cup {w \in Readers : At(w, "wait", k)})
    /\ UNCHANGED <<gen, owed, inFlight, history, readings, late>>

\* The collection ends, whatever of it failed: the value is cached, those who
\* waited have it too, and a metrics sample adds its load to the history when
\* the host gave one.
ReadDone(r) ==
    /\ reader[r].at = "collect"
    /\ LET k == reader[r].kind
       IN  /\ cache' = [cache EXCEPT ![k] = [gen |-> reader[r].gen, fresh |-> TRUE]]
           /\ inFlight' = IF k \in Coalesced THEN [inFlight EXCEPT ![k] = "none"] ELSE inFlight
           /\ reader' = Answered({r} \cup {w \in Readers : At(w, "wait", k)})
           /\ \/ UNCHANGED history
              \/ k = "metrics" /\ history' = Kept(Append(history, reader[r].gen))
    /\ UNCHANGED <<gen, owed, readings, late>>
-----------------------------------------------------------------------------
(* Time and edits.                                                         *)

ReadExpire(k) ==
    /\ cache[k].fresh /\ cache' = [cache EXCEPT ![k].fresh = FALSE]
    /\ UNCHANGED <<gen, owed, inFlight, history, reader, readings, late>>

\* The transaction of an update that changed the connection commits.
ReadEdit ==
    /\ ~owed /\ gen < MaxEdits
    /\ gen' = gen + 1 /\ owed' = TRUE
    /\ UNCHANGED <<cache, inFlight, history, reader, readings, late>>

\* What follows it: all three services forget the host.
ReadForget ==
    /\ owed /\ owed' = FALSE
    /\ cache' = [k \in Kinds |-> None] /\ history' = <<>>
    /\ late' = {reader[r].kind : r \in {q \in Readers : reader[q].at # "idle"}}
    /\ UNCHANGED <<gen, inFlight, reader, readings>>

\* Mutation: the disks are forgotten by the delete only.
ReadForgetTwo ==
    /\ owed /\ owed' = FALSE
    /\ cache' = [k \in Kinds |-> IF k = "disks" THEN cache[k] ELSE None] /\ history' = <<>>
    /\ late' = {reader[r].kind : r \in {q \in Readers : reader[q].at # "idle"}}
    /\ UNCHANGED <<gen, inFlight, reader, readings>>

ReadInit ==
    /\ gen = 0 /\ owed = FALSE
    /\ cache = [k \in Kinds |-> None] /\ inFlight = [k \in Coalesced |-> "none"]
    /\ history = <<>> /\ reader = [r \in Readers |-> Quiet]
    /\ readings = 0 /\ late = {}

ReadNext ==
    \/ \E r \in Readers : ReadAsk(r) \/ ReadBegin(r) \/ ReadDone(r)
    \/ \E k \in Kinds : ReadExpire(k)
    \/ ReadEdit \/ ReadForget

\* Every command a collection runs has a deadline and its failure is caught.
ReadFair == \A r \in Readers : WF_readVars(ReadDone(r))

ReadSpec == ReadInit /\ [][ReadNext]_readVars /\ ReadFair
-----------------------------------------------------------------------------
(* Properties.                                                             *)

ReadTypeOK ==
    /\ gen \in 0..MaxEdits /\ owed \in BOOLEAN /\ readings \in 0..MaxReadings
    /\ \A k \in Kinds : cache[k].gen \in -1..gen /\ cache[k].fresh \in BOOLEAN
    /\ \A k \in Coalesced : inFlight[k] # "none" => At(inFlight[k], "collect", k)
    /\ Len(history) <= Window /\ late \subseteq Kinds
    /\ \A r \in Readers : reader[r].at = "wait" =>
          Pending(reader[r].kind)

\* "Ten tabs on one host produce one sample."
OneSampleAtATime ==
    \A k \in Coalesced : Cardinality({r \in Readers : At(r, "collect", k)}) <= 1

\* An edit of the connection leaves nothing read over the old one behind, in
\* any of the three services, except what was being read at that moment.
ForgottenWithTheEdit ==
    ~owed =>
        /\ \A k \in Kinds : cache[k].gen \in {-1, gen} \/ k \in late
        /\ (\A i \in DOMAIN history : history[i] = gen) \/ "metrics" \in late

\* A request for a panel is answered.
ReadIsAnswered == \A r \in Readers : reader[r].at \in {"wait", "collect"} ~> reader[r].at = "idle"

\* "Drop a host's samples and its history -- on delete or credential change."
NothingOutlivesTheEdit == ~owed => \A k \in Kinds : cache[k].gen \in {-1, gen}
=============================================================================
