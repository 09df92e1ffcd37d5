------------------------------ MODULE SshPool ------------------------------
(***************************************************************************)
(* SshConnectionPool for one key, a host and a user: the handshakes, the   *)
(* map entry, the slots of a connection and the borrowers queued for one.  *)
(* Keys share nothing, so one is enough.                                   *)
(*                                                                         *)
(* The pool is single-threaded.  A socket event or a timer finds every     *)
(* settled promise already resumed (TurnOver); requests and releases are   *)
(* themselves resumed promises and come in between.                        *)
(***************************************************************************)
EXTENDS Integers, FiniteSets, SequencesExt

CONSTANTS
    Borrowers,       \* the calls of acquire, each made once
    Background,      \* those made with `background`
    MaxConcurrency,  \* settings.maxConcurrency
    Reserved,        \* RESERVED_INTERACTIVE
    MaxConns,        \* bounds: the handshakes begun, those whose `connect`
    MaxBad,          \* throws at once, the connections the server closes,
    MaxDrops,        \* the evictions of the host by a request
    MaxEvictions

ASSUME PoolAssumption ==
    /\ IsFiniteSet(Borrowers)
    /\ Background \subseteq Borrowers
    /\ MaxConcurrency \in Nat \ {0}
    /\ {Reserved, MaxConns, MaxBad, MaxDrops, MaxEvictions} \subseteq Nat

Conns == 1..MaxConns
None  == 0

VARIABLES
    entry,     \* entries.get(key): a connection, a placeholder while it shakes
    conn,      \* where a connection stands
    mark,      \* the key is in evictedWhileConnecting
    inFlight,  \* entry.inFlight
    waiting,   \* entry.waiting
    timer,     \* entry.idleTimer is running
    stray,     \* the running idle timers no entry refers to any more
    who,       \* where a borrower stands
    at,        \* the connection it joined, waits for or leases
    foreign,   \* history: releases of another connection's lease it took
    revoked,   \* history: the handshakes that were evicted
    used       \* how much of each environment bound is spent

map  == <<entry, mark>>
slot == <<inFlight, waiting>>
idle == <<timer, stray>>
call == <<who, at>>
past == <<foreign, revoked>>
vars == <<map, conn, slot, idle, call, past, used>>

Standing == {"new", "shaking", "broken", "open", "ending", "closed", "failed"}
Stage    == {"idle", "joining", "asleep", "woken", "leased", "done", "failed"}

Pending == {"shaking", "broken"}   \* the entry is only { connecting }

\* The map's connection, if it has one, and its placeholder, if it has one.
Pooled   == {c \in Conns : entry = c /\ conn[c] \notin Pending}
Expected == {c \in Conns : entry = c /\ conn[c] \in Pending}
-----------------------------------------------------------------------------
(* The slots.                                                              *)

\* Mutation: background work may take every slot.
CeilingFlat(b) == MaxConcurrency

Ceiling(b) ==
    IF b \notin Background THEN MaxConcurrency
    ELSE IF MaxConcurrency - Reserved > 1 THEN MaxConcurrency - Reserved ELSE 1

\* Mutation: a borrower that was woken takes the slot without asking again.
TakeUnasked(b, c) ==
    IF conn[c] = "closed" \/ inFlight[c] < Ceiling(b) \/ who[b] = "woken"
    THEN /\ who'      = [who EXCEPT ![b] = "leased"]
         /\ inFlight' = [inFlight EXCEPT ![c] = @ + 1]
         /\ UNCHANGED waiting
    ELSE /\ who'      = [who EXCEPT ![b] = "asleep"]
         /\ waiting'  = [waiting EXCEPT ![c] = Append(@, b)]
         /\ UNCHANGED inFlight

\* The loop of acquire: take a slot, or sleep until somebody wakes us.
Take(b, c) ==
    IF conn[c] = "closed" \/ inFlight[c] < Ceiling(b)
    THEN /\ who'      = [who EXCEPT ![b] = "leased"]
         /\ inFlight' = [inFlight EXCEPT ![c] = @ + 1]
         /\ UNCHANGED waiting
    ELSE /\ who'      = [who EXCEPT ![b] = "asleep"]
         /\ waiting'  = [waiting EXCEPT ![c] = Append(@, b)]
         /\ UNCHANGED inFlight

\* The promise a borrower awaits has settled, and its code has not resumed.
Resumable(b) ==
    \/ who[b] = "woken"
    \/ who[b] = "joining" /\ conn[at[b]] # "shaking"

TurnOver == \A b \in Borrowers : ~ Resumable(b)
-----------------------------------------------------------------------------
(* The borrowers.                                                          *)

\* A cold key: a handshake begins, and the placeholder takes the map entry.
\* ssh2 may throw out of `connect`, which rejects the promise and no more.
Connect(b) ==
    /\ who[b] = "idle"
    /\ entry = None
    /\ \E c \in Conns, fate \in Pending :
        /\ conn[c] = "new"
        /\ \A d \in 1..(c - 1) : conn[d] # "new"
        /\ fate = "broken" => used.bad < MaxBad
        /\ conn'  = [conn EXCEPT ![c] = fate]
        /\ entry' = c
        /\ who'   = [who EXCEPT ![b] = "joining"]
        /\ at'    = [at EXCEPT ![b] = c]
        /\ used'  = IF fate = "broken" THEN [used EXCEPT !.bad = @ + 1] ELSE used
    /\ UNCHANGED <<mark, slot, idle, past>>

\* A placeholder: its handshake is joined.
Join(b) ==
    /\ who[b] = "idle"
    /\ \E c \in Expected :
        /\ who' = [who EXCEPT ![b] = "joining"]
        /\ at'  = [at EXCEPT ![b] = c]
    /\ UNCHANGED <<map, conn, slot, idle, past, used>>

\* A pooled connection.
Borrow(b) ==
    /\ who[b] = "idle"
    /\ \E c \in Pooled :
        /\ timer' = [timer EXCEPT ![c] = FALSE]
        /\ at'    = [at EXCEPT ![b] = c]
        /\ Take(b, c)
    /\ UNCHANGED <<map, conn, stray, past, used>>

Joined(b) ==
    /\ who[b] = "joining"
    /\ \/ /\ conn[at[b]] \in {"broken", "failed"}
          /\ who' = [who EXCEPT ![b] = "failed"]
          /\ UNCHANGED <<slot, timer>>
       \/ /\ conn[at[b]] \notin Pending \cup {"failed"}
          /\ timer' = [timer EXCEPT ![at[b]] = FALSE]
          /\ Take(b, at[b])
    /\ UNCHANGED <<map, conn, stray, at, past, used>>

Woken(b) ==
    /\ who[b] = "woken"
    /\ Take(b, at[b])
    /\ UNCHANGED <<map, conn, idle, at, past, used>>

\* The place of the first waiter that can run with n in flight, 0 if none can.
FirstAble(c, n) ==
    LET able == {i \in DOMAIN waiting[c] : n < Ceiling(waiting[c][i])}
    IN  IF able = {} THEN 0 ELSE CHOOSE i \in able : \A k \in able : i <= k

\* Mutation: without the floor.
FewerUnfloored(n) == n - 1

\* One slot fewer, never below zero.
Fewer(n) == IF n = 0 THEN 0 ELSE n - 1

\* The lease is given back by key, to whatever the entry is by now.  It frees a
\* slot there, and wakes the first waiter that can run or, when nothing is in
\* flight, sets the idle timer over any timer that runs already.  A missing
\* entry, or a placeholder, takes nothing.
Release(b) ==
    /\ who[b] = "leased"
    /\ \/ /\ Pooled = {}
          /\ who' = [who EXCEPT ![b] = "done"]
          /\ UNCHANGED <<slot, idle, foreign>>
       \/ \E c \in Pooled :
          LET left == Fewer(inFlight[c])
              next == FirstAble(c, left)
          IN  /\ inFlight' = [inFlight EXCEPT ![c] = left]
              /\ foreign'  = [foreign EXCEPT ![c] = @ + IF at[b] = c THEN 0 ELSE 1]
              /\ \/ /\ next # 0
                    /\ who'     = [who EXCEPT ![b] = "done", ![waiting[c][next]] = "woken"]
                    /\ waiting' = [waiting EXCEPT ![c] = RemoveAt(@, next)]
                    /\ UNCHANGED idle
                 \/ /\ next = 0
                    /\ who'   = [who EXCEPT ![b] = "done"]
                    /\ timer' = [timer EXCEPT ![c] = @ \/ left = 0]
                    /\ stray' = stray + IF left = 0 /\ timer[c] THEN 1 ELSE 0
                    /\ UNCHANGED waiting
    /\ UNCHANGED <<map, conn, at, revoked, used>>
-----------------------------------------------------------------------------
(* The connections.                                                        *)

\* `fail`, on an error, a timeout, or an arrival that finds the key marked:
\* whatever holds the entry goes, and so does the mark.
Fail(c) ==
    /\ conn[c] \in Pending
    /\ TurnOver
    /\ conn'  = [conn EXCEPT ![c] = "failed"]
    /\ entry' = None
    /\ mark'  = FALSE
    /\ UNCHANGED <<slot, idle, call, past, used>>

\* Mutation: the mark is not looked at on arrival.
ReadyUnasked(c) ==
    /\ conn[c] = "shaking"
    /\ TurnOver
    /\ conn'  = [conn EXCEPT ![c] = "open"]
    /\ entry' = c
    /\ UNCHANGED <<mark, slot, idle, call, past, used>>

\* The handshake is done and the key was not evicted: the connection takes the
\* entry, whoever has it.
Ready(c) ==
    /\ conn[c] = "shaking"
    /\ TurnOver
    /\ ~ mark
    /\ conn'  = [conn EXCEPT ![c] = "open"]
    /\ entry' = c
    /\ UNCHANGED <<mark, slot, idle, call, past, used>>

\* Mutation: a connection that closes wakes nobody.
ClosedQuietly(c) ==
    /\ conn'    = [conn EXCEPT ![c] = "closed"]
    /\ entry'   = IF entry = c THEN None ELSE entry
    /\ UNCHANGED <<mark, slot, idle, call, past>>

\* The `close` event: everybody who waits is woken, to find the entry dead.
\* The idle timer is left running.
Closed(c) ==
    /\ conn'    = [conn EXCEPT ![c] = "closed"]
    /\ entry'   = IF entry = c THEN None ELSE entry
    /\ who'     = [b \in Borrowers |->
                     IF who[b] = "asleep" /\ at[b] = c THEN "woken" ELSE who[b]]
    /\ waiting' = [waiting EXCEPT ![c] = <<>>]
    /\ UNCHANGED <<mark, inFlight, idle, at, past>>

Drop(c) ==
    /\ conn[c] = "open"
    /\ TurnOver
    /\ used.drops < MaxDrops
    /\ used' = [used EXCEPT !.drops = @ + 1]
    /\ Closed(c)

\* What `client.end()` began.
Close(c) ==
    /\ conn[c] = "ending"
    /\ TurnOver
    /\ Closed(c)
    /\ UNCHANGED used
-----------------------------------------------------------------------------
(* Evictions.                                                              *)

\* The entry goes.  A pooled connection loses its timer and is ended; of a
\* handshake only the key can be marked.  `on` are the timers still running.
EvictEntry(on) ==
    /\ entry' = None
    /\ \/ \E c \in Expected :
          /\ mark'    = TRUE
          /\ revoked' = revoked \cup {c}
          /\ timer'   = on
          /\ UNCHANGED conn
       \/ \E c \in Pooled :
          /\ conn'    = [conn EXCEPT ![c] = "ending"]
          /\ timer'   = [on EXCEPT ![c] = FALSE]
          /\ UNCHANGED <<mark, revoked>>

\* evictHost, on a deletion, a new credential or a refused key.
Evict ==
    /\ used.evictions < MaxEvictions
    /\ used' = [used EXCEPT !.evictions = @ + 1]
    /\ EvictEntry(timer)
    /\ UNCHANGED <<slot, stray, call, foreign>>

\* An idle timer runs out, held by an entry or stray: it evicts by key.
IdleFires ==
    /\ TurnOver
    /\ \E on \in {[timer EXCEPT ![c] = FALSE] : c \in Conns} :
        /\ \/ on # timer /\ stray' = stray
           \/ on = timer /\ stray > 0 /\ stray' = stray - 1
        /\ \/ EvictEntry(on)
           \/ /\ entry = None
              /\ timer' = on
              /\ UNCHANGED <<map, conn, revoked>>
    /\ UNCHANGED <<slot, call, foreign, used>>
-----------------------------------------------------------------------------
Init ==
    /\ entry    = None
    /\ mark     = FALSE
    /\ conn     = [c \in Conns |-> "new"]
    /\ inFlight = [c \in Conns |-> 0]
    /\ waiting  = [c \in Conns |-> <<>>]
    /\ timer    = [c \in Conns |-> FALSE]
    /\ stray    = 0
    /\ who      = [b \in Borrowers |-> "idle"]
    /\ at       = [b \in Borrowers |-> None]
    /\ foreign  = [c \in Conns |-> 0]
    /\ revoked  = {}
    /\ used     = [bad |-> 0, drops |-> 0, evictions |-> 0]

Acquire(b) == Connect(b) \/ Join(b) \/ Borrow(b)
Resume(b)  == Joined(b) \/ Woken(b)
Arrive(c)  == Ready(c) \/ Fail(c)

Next ==
    \/ \E b \in Borrowers : Acquire(b) \/ Resume(b) \/ Release(b)
    \/ \E c \in Conns : Arrive(c) \/ Drop(c) \/ Close(c)
    \/ Evict
    \/ IdleFires

Spec == Init /\ [][Next]_vars

\* Promises resume, leases are released, handshakes end by the connect timeout
\* at the latest, and a client that was ended closes.  The server need not drop
\* anything, nobody need evict, and no timer need run out.  Which borrower
\* or connection is next is left open, which is less than the event loop gives.
FairSpec ==
    /\ Spec
    /\ WF_vars(\E b \in Borrowers : Resume(b) \/ Release(b))
    /\ WF_vars(\E c \in Conns : Arrive(c) \/ Close(c))
-----------------------------------------------------------------------------
Leases(c) == {b \in Borrowers : who[b] = "leased" /\ at[b] = c}

\* The pool's state has its types, the queue of a connection is exactly the
\* borrowers asleep on it, and the entry is a handshake or an open connection.
TypeOK ==
    /\ entry \in Conns \cup {None}
    /\ conn \in [Conns -> Standing]
    /\ \A c \in Conns : entry = c => conn[c] \in Pending \cup {"open"}
    /\ mark \in BOOLEAN
    /\ inFlight \in [Conns -> Nat]
    /\ timer \in [Conns -> BOOLEAN]
    /\ stray \in Nat
    /\ who \in [Borrowers -> Stage]
    /\ at \in [Borrowers -> Conns \cup {None}]
    /\ waiting \in [Conns -> Seq(Borrowers)]
    /\ \A c \in Conns :
        /\ IsInjective(waiting[c])
        /\ ToSet(waiting[c]) = {b \in Borrowers : who[b] = "asleep" /\ at[b] = c}
    /\ foreign \in [Conns -> Nat]
    /\ revoked \subseteq Conns

\* "Capped so a single recursive walk cannot consume every channel": as long as
\* a connection lives, its leases stay within maxConcurrency, whoever is woken
\* or barges in, short of the slots that leases of other connections on the key
\* gave back to it.
CapRespected ==
    \A c \in Conns : conn[c] \in {"open", "ending"} =>
        Cardinality(Leases(c)) <= MaxConcurrency + foreign[c]

\* acquire: background work leaves the last RESERVED_INTERACTIVE slots of a
\* connection to the panes, with the same allowance.
BackgroundLeavesRoom ==
    \A c \in Conns : conn[c] \in {"open", "ending"} =>
        Cardinality(Leases(c) \cap Background)
            <= (IF MaxConcurrency - Reserved > 1 THEN MaxConcurrency - Reserved ELSE 1)
               + foreign[c]

\* Both: what a live connection lends, to anybody and to background work.
SlotsHeld == CapRespected /\ BackgroundLeavesRoom

\* connect: an evicted handshake is discarded on arrival.  When one is pooled
\* after all, another handshake of the key has failed and taken the mark along.
RevokedIsTraded ==
    \A c \in revoked : conn[c] = "open" => \E d \in Conns \ {c} : conn[d] = "failed"

\* Its connection is open and not the map's: nothing is released into it.
Orphaned(b) == \E c \in Conns : at[b] = c /\ conn[c] = "open" /\ entry # c

\* acquire: every borrower gets its lease or an error, however the connection it
\* waits on ends, unless that connection was put off the map while open: again
\* and again there is a moment when nobody else waits.
AcquireAnswered ==
    []<>(\A b \in Borrowers :
            who[b] \in {"joining", "asleep", "woken"} => Orphaned(b))
=============================================================================
