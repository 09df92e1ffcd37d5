---------------------------- MODULE RenameBatch ----------------------------
(***************************************************************************)
(* RenameService over one directory: the plan and its refusals, the order  *)
(* the moves are made in, the parking that unties a cycle, and the         *)
(* rollback.  driver.rename is POSIX rename: it replaces what has the name *)
(* already.  A rename may fail, and may be done though its answer is lost. *)
(* `plan` and `pending` are maps, as in the code; what a round takes from    *)
(* them is taken here in any order, of which the code's is one.             *)
(***************************************************************************)
EXTENDS Naturals, SequencesExt

CONSTANTS
    Names,         \* the names of the directory
    Bad,           \* a name nameProblem refuses
    Parking,       \* parkingName's candidates
    Held,          \* the names that have an entry at first
    Guarded,       \* entries that are, or hold, key material of ours
    MaxFaults,     \* bounds: the renames that fail in a behaviour, those of
    MaxLost        \* them that were done all the same

Empty  == "empty"

ASSUME RenameAssumption ==
    /\ Held \subseteq Names /\ Guarded \subseteq Names
    /\ Empty \notin Names /\ Bad \notin Names /\ Parking \cap (Names \cup {Bad}) = {}
    /\ {MaxFaults, MaxLost} \subseteq Nat

Places == Names \cup Parking

VARIABLES
    dir,      \* dir[n]: the entry that has the name, called by its first one
    plan,     \* the moves asked for: plan[n] is the new name of n
    one,      \* renameOne, not batch
    pending,  \* `pending`: the new name, by where the entry is
    free,     \* what is left of `free` in this round
    done,     \* `done`, the renames performed
    restored, \* rollBack: the names put back
    stranded, \* rollBack: the names that could not be
    faults,   \* the renames that failed
    lost,     \* those of them that were done
    renAt

renVars == <<dir, plan, one, pending, free, done, restored, stranded, faults, lost, renAt>>

Began  == [n \in Places |-> IF n \in Held THEN n ELSE Empty]
Moving == {n \in DOMAIN plan : plan[n] # n}
Moved(d, from, to) == [d EXCEPT ![to] = d[from], ![from] = Empty]
-----------------------------------------------------------------------------
(* The plan.                                                               *)

\* Mutation: only what moves vacates its name, but all the batch is counted.
JudgeAll(p) ==
    \A n \in DOMAIN p : p[n] # n =>
        /\ p[n] # Bad
        /\ \A m \in DOMAIN p \ {n} : p[m] # m => p[m] # p[n]
        /\ p[n] \notin Held \ DOMAIN p

\* judge(): no moving entry has an impossible name, the new name of another or
\* the name of an entry that stays.
Judge(p) ==
    LET moving == {n \in DOMAIN p : p[n] # n}
    IN  \A n \in moving :
            /\ p[n] # Bad
            /\ \A m \in moving \ {n} : p[m] # p[n]
            /\ p[n] \notin Held \ moving

\* denied, for either name of a move, and refuseProtectedInside.
Clear(p) == \A n \in DOMAIN p : p[n] # n => {n, p[n]} \cap Guarded = {}

\* A request reaches the API: the patterns a client may send map the names of
\* its selection to any others.  The directory is listed, and the whole batch
\* refused or begun.
RenameAsk ==
    /\ renAt = "idle"
    /\ \E chosen \in SUBSET Held \ {{}} : plan' \in [chosen -> Names \cup {Bad}]
    /\ one' \in BOOLEAN /\ (one' => \E n \in Held : DOMAIN plan' = {n})
    /\ IF ~Judge(plan') \/ ~Clear(plan')
       THEN renAt' = "refused" /\ UNCHANGED pending
       ELSE /\ pending' = Restrict(plan', Moving')
            /\ renAt' = IF Moving' = {} THEN "done" ELSE "moving"
    /\ UNCHANGED <<dir, free, done, restored, stranded, faults, lost>>
-----------------------------------------------------------------------------
(* applyMoves().                                                           *)

\* Mutation: a round takes everything.
OpenAll(p) == DOMAIN p

\* The moves whose new name nobody has to leave first.
Open(p) == {n \in DOMAIN p : p[n] \notin DOMAIN p}

RenameRound ==
    /\ renAt = "moving" /\ free = {} /\ Open(pending) # {}
    /\ free' = Open(pending)
    /\ UNCHANGED <<dir, plan, one, pending, done, restored, stranded, faults, lost, renAt>>

\* `taken`: the listing, and every name given to a parked entry.
Taken == Held \cup {done[i].to : i \in DOMAIN done}

\* The rename under way: a move of the round, or the parking of an entry when
\* none is open, as in a cycle.
Renaming(from, to) ==
    \/ from \in free /\ to = pending[from]
    \/ free = {} /\ Open(pending) = {} /\ from \in DOMAIN pending /\ to \in Parking \ Taken

Step(from, to) == done' = Append(done, [from |-> from, to |-> to]) /\ dir' = Moved(dir, from, to)

\* No move is free: one of a cycle is parked.
RenamePark ==
    /\ renAt = "moving" /\ free = {}
    /\ \E n \in DOMAIN pending, t \in Parking :
        /\ Renaming(n, t) /\ Step(n, t)
        /\ pending' = [m \in (DOMAIN pending \ {n}) \cup {t} |-> IF m = t THEN pending[n] ELSE pending[m]]
    /\ UNCHANGED <<plan, one, free, restored, stranded, faults, lost, renAt>>

RenameMove ==
    /\ renAt = "moving"
    /\ \E n \in free :
        /\ Step(n, pending[n])
        /\ pending' = Restrict(pending, DOMAIN pending \ {n})
        /\ free' = free \ {n}
    /\ renAt' = IF DOMAIN pending' = {} THEN "done" ELSE "moving"
    /\ UNCHANGED <<plan, one, restored, stranded, faults, lost>>

Fault(happened, from, to) ==
    /\ faults < MaxFaults /\ faults' = faults + 1
    /\ happened => lost < MaxLost
    /\ lost' = IF happened THEN lost + 1 ELSE lost
    /\ dir'  = IF happened THEN Moved(dir, from, to) ELSE dir

\* driver.rename throws: the batch is put back.  renameOne only says so.
RenameFails(happened) ==
    /\ renAt = "moving"
    /\ \E from, to \in Places : Renaming(from, to) /\ Fault(happened, from, to)
    /\ renAt' = IF one THEN "failed" ELSE "undoing"
    /\ UNCHANGED <<plan, one, pending, free, done, restored, stranded>>
-----------------------------------------------------------------------------
(* rollBack(), newest first.                                               *)

RenameUndo ==
    /\ renAt = "undoing" /\ done # <<>>
    /\ dir' = Moved(dir, Last(done).to, Last(done).from)
    /\ restored' = Append(restored, Last(done).from)
    /\ done' = Front(done)
    /\ UNCHANGED <<plan, one, pending, free, stranded, faults, lost, renAt>>

\* "Best effort": a step that fails is noted, and the ones before it go on.
RenameUndoFails(happened) ==
    /\ renAt = "undoing" /\ done # <<>>
    /\ Fault(happened, Last(done).to, Last(done).from)
    /\ stranded' = Append(stranded, Last(done).to)
    /\ done' = Front(done)
    /\ UNCHANGED <<plan, one, pending, free, restored, renAt>>

RenameUndone ==
    /\ renAt = "undoing" /\ done = <<>>
    /\ renAt' = "failed"
    /\ UNCHANGED <<dir, plan, one, pending, free, done, restored, stranded, faults, lost>>
-----------------------------------------------------------------------------
RenameInit ==
    /\ dir = Began /\ plan = <<>> /\ one = FALSE
    /\ pending = <<>> /\ free = {} /\ done = <<>>
    /\ restored = <<>> /\ stranded = <<>>
    /\ faults = 0 /\ lost = 0
    /\ renAt = "idle"

RenameNext ==
    \/ RenameAsk \/ RenameRound \/ RenamePark \/ RenameMove
    \/ \E h \in BOOLEAN : RenameFails(h) \/ RenameUndoFails(h)
    \/ RenameUndo \/ RenameUndone

RenameSpec == RenameInit /\ [][RenameNext]_renVars
RenameFair == WF_renVars(RenameNext)
-----------------------------------------------------------------------------
(* Properties.                                                             *)

RenameTypeOK ==
    /\ dir \in [Places -> Held \cup {Empty}]
    /\ DOMAIN plan \subseteq Held /\ \A n \in DOMAIN plan : plan[n] \in Names \cup {Bad}
    /\ one \in BOOLEAN
    /\ DOMAIN pending \subseteq Places /\ \A n \in DOMAIN pending : pending[n] \in Names
    /\ free \subseteq DOMAIN pending
    /\ \A i \in DOMAIN done : done[i] \in [from : Places, to : Places]
    /\ faults <= MaxFaults /\ lost <= MaxLost
    /\ renAt \in {"idle", "refused", "moving", "undoing", "done", "failed"}

\* Whose new name that is.
Whose(q) == CHOOSE m \in Moving : plan[m] = q

\* What the pattern says, as one simultaneous renaming of the directory.
Image ==
    [n \in Places |->
        IF \E m \in Moving : plan[m] = n THEN Whose(n)
        ELSE IF n \in Moving THEN Empty ELSE Began[n]]

\* "Half a pattern rename is worse than none": a batch that is reported done is
\* the whole renaming, chains and cycles included, and one that was refused or
\* put back left every entry under its own name; but for the names reported as
\* stranded and an answer the host never gave.
AllOrNothing ==
    /\ renAt = "done" => dir = Image
    /\ renAt = "refused" => dir = Began
    /\ renAt = "failed" /\ stranded = <<>> /\ lost = 0 => dir = Began

\* While the moves are made and put back, no rename lands on an entry: what the
\* listing had is somewhere in the directory, as long as no answer is lost and
\* every step back works.
NothingReplaced ==
    stranded = <<>> /\ lost = 0 => \A f \in Held : \E n \in Places : dir[n] = f

\* Key material stays where it is, whatever the pattern.
KeysStay == \A f \in Guarded \cap Held : dir[f] = f

\* "A rollback step that fails is reported rather than swallowed, because that
\* entry is the one a person now has to go and find": it is there to be found.
StrandedIsThere ==
    renAt = "failed" /\ lost = 0 => \A f \in Held : \E n \in Places : dir[n] = f
=============================================================================
