------------------------------ MODULE ScanTree ------------------------------
(***************************************************************************)
(* ScanAggregator: du's records, folded as they arrive into the levels of  *)
(* a treemap under three bounds.  du prints in post-order: everything in a *)
(* directory before the directory, siblings in any order.  A path is a     *)
(* node of a small tree and its dirname is the node above it.              *)
(***************************************************************************)
EXTENDS Naturals, Sequences, FiniteSets, FiniteSetsExt, SequencesExt, Ancestry, Picking

CONSTANTS
    Nodes,
    Root,
    UpOf,          \* UpOf[n]: the directory that holds n
    Directories,   \* the directories of the tree; they hold any others
    OwnSizes,      \* the sizes a node itself may have
    LevelDepth,    \* options.depth
    TopPerParent,  \* TOP_PER_PARENT
    MaxParents,    \* MAX_PARENTS
    MaxEntries,    \* MAX_ENTRIES
    FloorPart      \* 1 / MIN_CHILD_SHARE

ASSUME TreeAssumption ==
    /\ Root \in Directories /\ Directories \subseteq Nodes
    /\ UpOf \in [Nodes \ {Root} -> Directories]
    /\ IsFiniteSet(Nodes) /\ "none" \notin Nodes
    \* Every node is under the root.
    /\ \A S \in SUBSET Nodes : Root \in S /\ (\A n \in Nodes \ {Root} : UpOf[n] \in S => n \in S) => S = Nodes
    /\ OwnSizes \subseteq Nat /\ LevelDepth \in Nat
    /\ {TopPerParent, MaxParents, MaxEntries, FloorPart} \subseteq Nat \ {0}

VARIABLES
    own,      \* the sizes on the disk
    files,    \* the rung prints files, or only directories
    printed,  \* the nodes du has printed
    last,     \* `previousPath`
    parents,  \* `parents`: the directories with a level, its bytes and its top
    cut,      \* `truncated`
    rows,     \* the entries of the result
    front,    \* emitLevels' queue, from `head` on
    phase

treeVars == <<own, files, printed, last, parents, cut, rows, front, phase>>

Trail == [n \in Nodes |-> {n} \cup Ancestors(Nodes, Root, UpOf)[n]]
Depth(n)   == Cardinality(Trail[n]) - 1
Below(n)   == {m \in Nodes : n \in Trail[m]}
Sizes(S)   == MapThenSumSet(LAMBDA n : own[n], S)
Bytes(S)   == MapThenSumSet(LAMBDA e : e.bytes, S)
Records    == IF files THEN Nodes ELSE Directories
-----------------------------------------------------------------------------
\* What du may print next: all that n holds is printed, and no directory that
\* du is in the middle of is left for it.
PostOrder(n) ==
    /\ n \in Records \ printed
    /\ (Below(n) \cap Records) \ {n} \subseteq printed
    /\ \A d \in Records \ printed :
        Below(d) \cap printed # {} => n \in Below(d)

\* "The record before this one was one of its children."
LooksDirectory(n) ==
    n = Root \/ (last \in Nodes \ {Root} /\ UpOf[last] = n)

\* closeParent: the subtotal of a directory whose children are all in.
CloseParent(ps, n) ==
    IF n \in DOMAIN ps THEN [ps EXCEPT ![n].bytes = Sizes(Below(n))]
    ELSE IF Cardinality(DOMAIN ps) >= MaxParents THEN ps
    ELSE [m \in DOMAIN ps \cup {n} |-> IF m = n THEN [bytes |-> Sizes(Below(n)), top |-> <<>>] ELSE ps[m]]

\* An entry takes its place in a level, which keeps the largest few.
Placed(top, e) ==
    LET full == Len(top) >= TopPerParent
        base == IF full THEN Front(top) ELSE top
        at   == Cardinality({i \in DOMAIN base : base[i].bytes >= e.bytes}) + 1
    IN  IF full /\ e.bytes <= Last(top).bytes THEN top ELSE InsertAt(base, at, e)

\* offer: to the level of the directory above, made when it is the first.
Offer(ps, n, kind) ==
    LET up == UpOf[n]
        e  == [path |-> n, bytes |-> Sizes(Below(n)), up |-> up, kind |-> kind]
    IN  IF up \in DOMAIN ps THEN [ps EXCEPT ![up].top = Placed(@, e)]
        ELSE IF Cardinality(DOMAIN ps) >= MaxParents THEN ps
        ELSE [m \in DOMAIN ps \cup {up} |-> IF m = up THEN [bytes |-> 0, top |-> <<e>>] ELSE ps[m]]

\* The bound on the number of levels says so when it refused one.
Refused(ps, n) == n \notin DOMAIN ps /\ Cardinality(DOMAIN ps) >= MaxParents

\* A walk begins: what the disk holds, and the rung of `du` that answered.
TreeStart ==
    /\ phase = "idle"
    /\ own'   \in [Nodes -> OwnSizes]
    /\ files' \in BOOLEAN
    /\ phase' = "walk"
    /\ UNCHANGED <<printed, last, parents, cut, rows, front>>

\* add().
TreeAdd(n) ==
    /\ phase = "walk" /\ PostOrder(n)
    /\ printed' = printed \cup {n}
    /\ last'    = n
    /\ LET directory == LooksDirectory(n)
           closes    == n = Root \/ (directory /\ Depth(n) < LevelDepth)
           offers    == n # Root /\ Depth(n) <= LevelDepth
           closed    == IF closes THEN CloseParent(parents, n) ELSE parents
       IN  /\ parents' = IF offers THEN Offer(closed, n, IF directory THEN "DIRECTORY" ELSE "FILE")
                         ELSE closed
           /\ cut' = (cut \/ (closes /\ Refused(parents, n)) \/ (offers /\ Refused(closed, UpOf[n])))
    /\ IF n = Root
       THEN /\ rows'  = {[path |-> Root, bytes |-> Sizes(Nodes), up |-> "none", kind |-> "DIRECTORY"]}
            /\ front' = <<Root>>
            /\ phase' = "levels"
       ELSE UNCHANGED <<rows, front, phase>>
    /\ UNCHANGED <<own, files>>

\* Mutation: `other` is what the level dropped, not what is left of the parent.
LevelOfDropped(n) ==
    LET floor == Sizes(Nodes) \div FloorPart
        top   == parents[n].top
        kept  == Picked(top, {i \in DOMAIN top : top[i].bytes >= floor})
        lost  == parents[n].bytes - Bytes(ToSet(parents[n].top))
    IN  IF lost = 0 THEN kept
        ELSE Append(kept, [path |-> n, bytes |-> lost, up |-> n, kind |-> "OTHER"])

\* levelOf: the entries above the floor, and one for all the others.
LevelOf(n) ==
    LET floor == Sizes(Nodes) \div FloorPart
        top   == parents[n].top
        kept  == Picked(top, {i \in DOMAIN top : top[i].bytes >= floor})
        other == parents[n].bytes - Bytes(ToSet(kept))
    IN  IF other = 0 THEN kept
        ELSE Append(kept, [path |-> n, bytes |-> other, up |-> n, kind |-> "OTHER"])

\* One turn of emitLevels.
TreeEmit ==
    /\ phase = "levels" /\ front # <<>>
    /\ UNCHANGED <<own, files, printed, last, parents, phase>>
    /\ IF Head(front) \notin DOMAIN parents
       THEN front' = Tail(front) /\ UNCHANGED <<rows, cut>>
       ELSE LET level == LevelOf(Head(front))
                drill == Picked(level, {i \in DOMAIN level : level[i].kind = "DIRECTORY" /\ Depth(level[i].path) < LevelDepth})
            IN  IF Cardinality(rows) + Len(level) > MaxEntries
                THEN front' = <<>> /\ cut' = TRUE /\ UNCHANGED rows
                ELSE /\ rows'  = rows \cup ToSet(level)
                     /\ front' = Tail(front) \o [i \in DOMAIN drill |-> drill[i].path]
                     /\ UNCHANGED cut

TreeFinish ==
    /\ phase = "levels" /\ front = <<>>
    /\ phase' = "done"
    /\ UNCHANGED <<own, files, printed, last, parents, cut, rows, front>>
-----------------------------------------------------------------------------
TreeInit ==
    /\ own = [n \in Nodes |-> 0] /\ files = TRUE
    /\ printed = {} /\ last = "none"
    /\ parents = [n \in {} |-> 0]
    /\ cut = FALSE
    /\ rows = {} /\ front = <<>>
    /\ phase = "idle"

TreeNext ==
    \/ TreeStart
    \/ \E n \in Nodes : TreeAdd(n)
    \/ TreeEmit \/ TreeFinish

TreeSpec == TreeInit /\ [][TreeNext]_treeVars
-----------------------------------------------------------------------------
(* Properties.                                                             *)

TreeTypeOK ==
    /\ own \in [Nodes -> Nat] /\ files \in BOOLEAN
    /\ printed \subseteq Nodes /\ last \in Nodes \cup {"none"}
    /\ DOMAIN parents \subseteq Directories /\ Cardinality(DOMAIN parents) <= MaxParents
    /\ \A n \in DOMAIN parents : Len(parents[n].top) <= TopPerParent
    /\ cut \in BOOLEAN /\ Cardinality(rows) <= MaxEntries + 1
    /\ front \in Seq(Directories)
    /\ phase \in {"idle", "walk", "levels", "done"}

\* "The level still sums to the parent": whatever a bound dropped, a level that
\* is stored adds up to the bytes of its directory; and a result that does not
\* say it was truncated has a level under every directory of its levels.
LevelsSumToParent ==
    phase = "done" =>
        \A r \in {q \in rows : q.kind = "DIRECTORY"} :
            LET level == {q \in rows : q.up = r.path}
            IN  /\ level # {} => Bytes(level) = r.bytes
                /\ level = {} /\ Depth(r.path) < LevelDepth => r.bytes = 0 \/ cut

\* "A record is a directory exactly when the record before it was one of its
\* children", but for an empty directory: where du prints files, no file is
\* taken for a directory and no directory with anything in it for a file.
KindsAreRight ==
    phase = "done" /\ files =>
        \A r \in {q \in rows : q.kind # "OTHER"} :
            r.kind = "DIRECTORY" <=> (r.path = Root \/ Below(r.path) # {r.path})
=============================================================================
