------------------------------ MODULE AuditTrail ------------------------------
(***************************************************************************)
(* What stands around every route that changes something: the use of the   *)
(* account's limit, counted in Redis, the row of the audit trail opened    *)
(* before the handler and settled before the answer.  Every await ends a   *)
(* step; Redis and the database may fail a call, and the process may end.  *)
(***************************************************************************)
EXTENDS Naturals, FiniteSets

CONSTANTS
    Calls,      \* the requests of one account, under one rule
    MaxUses,    \* max of the rule
    MaxBroken,  \* bound on calls of Redis or of the database that fail
    MaxCrashes  \* bound on the ends of the process

ASSUME TrailAssumption ==
    /\ IsFiniteSet(Calls) /\ MaxUses \in Nat \ {0} /\ {MaxBroken, MaxCrashes} \subseteq Nat

VARIABLES
    call,      \* call[c]: where the request stands, and the count it was told
    answer,    \* answer[c]: what the client was told, "none" yet
    trail,     \* trail[c]: the outcome of its row, "none" without one
    did,       \* the requests whose handler changed something
    counter,   \* the key in Redis: its value, and whether it has an expiry
    broken, crashes,
    allowed,   \* history: the requests this window's counter let through
    unsettled, \* history: the requests whose settle failed
    orphan     \* history: whether a key was left without its expiry

trailVars == <<call, answer, trail, did, counter, broken, crashes, allowed, unsettled, orphan>>

InFlight(c) == call[c].at \notin {"new", "over", "lost"}
Goes(c, p)  == call' = [call EXCEPT ![c].at = p]
Breaks      == broken < MaxBroken /\ broken' = broken + 1
Says(c, a)  == answer' = [answer EXCEPT ![c] = a] /\ Goes(c, "over")
Rows(c, o)  == trail' = [trail EXCEPT ![c] = o]
-----------------------------------------------------------------------------
(* RateLimitService.consume.                                               *)

CallArrives(c) ==
    /\ call[c].at = "new" /\ Goes(c, "count")
    /\ UNCHANGED <<answer, trail, did, counter, broken, crashes, allowed, unsettled, orphan>>

\* Mutation: one use too many.
VerdictLate(c, n) ==
    /\ call' = [call EXCEPT ![c] = [at |-> IF n <= MaxUses + 1 THEN "open" ELSE "ttl", count |-> n]]
    /\ allowed' = IF n <= MaxUses + 1 THEN allowed \cup {c} ELSE allowed

\* Within the rule, or the reset is asked for.
LimitVerdict(c, n) ==
    /\ call' = [call EXCEPT ![c] = [at |-> IF n <= MaxUses THEN "open" ELSE "ttl", count |-> n]]
    /\ allowed' = IF n <= MaxUses THEN allowed \cup {c} ELSE allowed

\* Mutation: the key gets its expiry when the limit is passed.
CountedPastMax(c) ==
    /\ call[c].at = "count" /\ counter' = [counter EXCEPT !.n = @ + 1]
    /\ IF counter'.n = MaxUses + 1
       THEN call' = [call EXCEPT ![c] = [at |-> "expire", count |-> counter'.n]] /\ UNCHANGED allowed
       ELSE LimitVerdict(c, counter'.n)
    /\ UNCHANGED <<answer, trail, did, broken, crashes, unsettled, orphan>>

\* incrBy, and an expiry for the use that created the key.
Counted(c) ==
    /\ call[c].at = "count" /\ counter' = [counter EXCEPT !.n = @ + 1]
    /\ IF counter'.n = 1
       THEN call' = [call EXCEPT ![c] = [at |-> "expire", count |-> counter'.n]] /\ UNCHANGED allowed
       ELSE LimitVerdict(c, counter'.n)
    /\ UNCHANGED <<answer, trail, did, broken, crashes, unsettled, orphan>>

\* The expiry is for the key, whichever window it is of by now.
Expires(c) ==
    /\ call[c].at = "expire" /\ counter' = [counter EXCEPT !.ttl = @ \/ counter.n > 0]
    /\ LimitVerdict(c, call[c].count)
    /\ UNCHANGED <<answer, trail, did, broken, crashes, unsettled, orphan>>

\* Redis fails any of the three: the request is allowed.
LimitFails(c) ==
    /\ call[c].at \in {"count", "expire", "ttl"} /\ Breaks /\ Goes(c, "open")
    /\ orphan' = (orphan \/ call[c].at = "expire")
    /\ UNCHANGED <<answer, trail, did, counter, crashes, allowed, unsettled>>

LimitTells(c) ==
    /\ call[c].at = "ttl" /\ Goes(c, "refuse")
    /\ UNCHANGED <<answer, trail, did, counter, broken, crashes, allowed, unsettled, orphan>>

\* The window rolls: Redis drops the key.
WindowRolls ==
    /\ counter.ttl /\ counter' = [n |-> 0, ttl |-> FALSE] /\ allowed' = {}
    /\ UNCHANGED <<call, answer, trail, did, broken, crashes, unsettled, orphan>>
-----------------------------------------------------------------------------
(* AuditInterceptor.                                                       *)

\* A refusal has a row of its own, or none when that write fails.
TrailRefuses(c) ==
    /\ call[c].at = "refuse" /\ Says(c, "429")
    /\ \/ Rows(c, "refused") /\ UNCHANGED broken
       \/ Breaks /\ UNCHANGED trail
    /\ UNCHANGED <<did, counter, crashes, allowed, unsettled, orphan>>

\* Mutation: what cannot be recorded is done all the same.
TrailOpensAnyway(c) ==
    /\ call[c].at = "open" /\ Goes(c, "handler")
    /\ \/ Rows(c, "pending") /\ UNCHANGED broken
       \/ Breaks /\ UNCHANGED trail
    /\ UNCHANGED <<answer, did, counter, crashes, allowed, unsettled, orphan>>

\* open: without its row the operation does not run.
TrailOpens(c) ==
    /\ call[c].at = "open"
    /\ \/ Rows(c, "pending") /\ Goes(c, "handler") /\ UNCHANGED <<answer, broken>>
       \/ Breaks /\ Says(c, "503") /\ UNCHANGED trail
    /\ UNCHANGED <<did, counter, crashes, allowed, unsettled, orphan>>

\* Mutation: the answer goes out first.
HandledTold(c) ==
    /\ call[c].at = "handler" /\ did' = did \cup {c}
    /\ call' = [call EXCEPT ![c].at = "success"] /\ answer' = [answer EXCEPT ![c] = "success"]
    /\ UNCHANGED <<trail, counter, broken, crashes, allowed, unsettled, orphan>>

\* The handler returns, or throws before or after it changed anything.
Handled(c) ==
    /\ call[c].at = "handler"
    /\ \E o \in {"success", "failure", "refused"} :
        /\ Goes(c, o)
        /\ did' \in IF o = "success" THEN {did \cup {c}} ELSE {did, did \cup {c}}
    /\ UNCHANGED <<answer, trail, counter, broken, crashes, allowed, unsettled, orphan>>

\* settle, which never throws, and then the answer.
TrailSettles(c) ==
    /\ call[c].at \in {"success", "failure", "refused"} /\ Says(c, call[c].at)
    /\ \/ Rows(c, call[c].at) /\ UNCHANGED <<broken, unsettled>>
       \/ Breaks /\ unsettled' = unsettled \cup {c} /\ UNCHANGED trail
    /\ UNCHANGED <<did, counter, crashes, allowed, orphan>>

\* The process ends; a handler may have changed something before it did.
TrailCrash ==
    /\ crashes < MaxCrashes /\ crashes' = crashes + 1
    /\ orphan' = (orphan \/ \E c \in Calls : call[c].at = "expire")
    /\ did' \in {did \cup S : S \in SUBSET {c \in Calls : call[c].at = "handler"}}
    /\ call' = [c \in Calls |-> IF InFlight(c) THEN [call[c] EXCEPT !.at = "lost"] ELSE call[c]]
    /\ UNCHANGED <<answer, trail, counter, broken, allowed, unsettled>>

TrailInit ==
    /\ call = [c \in Calls |-> [at |-> "new", count |-> 0]]
    /\ answer = [c \in Calls |-> "none"] /\ trail = [c \in Calls |-> "none"] /\ did = {}
    /\ counter = [n |-> 0, ttl |-> FALSE] /\ broken = 0 /\ crashes = 0
    /\ allowed = {} /\ unsettled = {} /\ orphan = FALSE

TrailStep(c) == \/ Counted(c) \/ Expires(c) \/ LimitTells(c) \/ TrailRefuses(c)
                \/ TrailOpens(c) \/ Handled(c) \/ TrailSettles(c)
TrailNext == \/ \E c \in Calls : CallArrives(c) \/ TrailStep(c) \/ LimitFails(c)
             \/ WindowRolls \/ TrailCrash

\* Every call is answered or fails, and Redis drops a key that is out of time.
TrailFair == WF_trailVars(WindowRolls) /\ \A c \in Calls : WF_trailVars(TrailStep(c))
TrailSpec == TrailInit /\ [][TrailNext]_trailVars /\ TrailFair
-----------------------------------------------------------------------------
(* Properties.                                                             *)

TrailTypeOK ==
    /\ \A c \in Calls : call[c].count \in 0 .. Cardinality(Calls)
    /\ answer \in [Calls -> {"none", "success", "failure", "refused", "429", "503"}]
    /\ trail \in [Calls -> {"none", "pending", "success", "failure", "refused"}]
    /\ counter.n \in 0 .. Cardinality(Calls) /\ (counter.ttl => counter.n > 0)
    /\ broken \in 0 .. MaxBroken /\ crashes \in 0 .. MaxCrashes

\* "An unrecorded rm -rf is worse than a refused one": whatever changed has a
\* row, whenever the process ended.
ChangeIsRecorded == \A c \in did : trail[c] # "none"

\* "If the client was told it worked, the record that it worked is already
\* durable", and the same of a failure, unless that very write failed.
ToldIsRecorded ==
    \A c \in Calls \ unsettled : answer[c] \in {"success", "failure", "refused"} => trail[c] = answer[c]

\* "Those rows are supposed to mean 'this crashed mid-flight'": nothing else
\* leaves a row pending, but a settle that failed.
PendingIsUnfinished ==
    \A c \in Calls \ unsettled : trail[c] = "pending" => InFlight(c) \/ call[c].at = "lost"

\* However the requests of an account interleave, its counter lets no more
\* through in a window than the rule says.
LimitHolds == Cardinality(allowed) <= MaxUses

\* "Names the limit and when it lifts": a counted window rolls, unless its key
\* was left without an expiry by a call that failed or a process that ended.
WindowLifts == counter.n > 0 ~> counter.n = 0 \/ orphan

\* Every request is answered or lost with its process.
CallsAreAnswered == \A c \in Calls : InFlight(c) ~> call[c].at \in {"over", "lost"}
=============================================================================
