-------------------------- MODULE PermissionUndo --------------------------
(***************************************************************************)
(* A chmod request and its undo: PermissionsService.apply over a selection *)
(* of paths, the snapshot rows it records when all of them are done, and   *)
(* PermissionsUndoService.restore over those rows.  chown differs only in  *)
(* what a mode is.  Modes are told apart by whether the account may still  *)
(* pass through a directory that has them.  Paths, the entries of a walk   *)
(* and rows are taken in any order that has an entry before its directory. *)
(***************************************************************************)
EXTENDS Naturals, SequencesExt, FiniteSetsExt, Ancestry

CONSTANTS
    PermNodes,     \* every entry
    PermTop,      \* the directory they are under, never changed
    PermParent,    \* PermParent[n]: the directory that holds n
    Folders,     \* the entries that are directories
    Was,         \* Was[n]: the mode before
    Shut,        \* the mode of a directory the account may not pass through
    NewModes,    \* the modes a request may ask for
    Locked,     \* denylisted
    RootModes,   \* the entries whose mode only root may change
    MaxPermPaths,    \* bounds: the paths of a request,
    MaxUndos,    \* the undos of it,
    MaxGone      \* the entries somebody removes

ASSUME PermissionAssumption ==
    /\ PermTop \in Folders /\ Folders \subseteq PermNodes
    /\ PermParent \in [PermNodes \ {PermTop} -> Folders]
    /\ Was = [n \in PermNodes |-> Was[n]] /\ IsFiniteSet(PermNodes) /\ Locked \cup RootModes \subseteq PermNodes
    /\ {MaxPermPaths, MaxUndos, MaxGone} \subseteq Nat

VARIABLES
    mode,      \* the mode of every entry
    gone,      \* the entries somebody removed
    asRoot,    \* a sudo window is open for the session
    stage,
    ask,       \* the request: its paths, `recursive` and the mode
    pathsLeft, \* the paths not begun
    targetsLeft, \* the targets of the path under way not reached
    before,    \* `before`
    rows,      \* `snapshots`, and then the PermissionSnapshots of the request
    changed,   \* history: the entries the request changed
    undo,      \* the rows the undo has not reached, by index,
    undone,    \* those it restored
    failed,    \* and those it could not
    undos

permVars == <<mode, gone, asRoot, stage, ask, pathsLeft, targetsLeft, before, rows, changed,
              undo, undone, failed, undos>>
opVars   == <<ask, pathsLeft, targetsLeft, before, changed>>
undoVars == <<undo, undone, failed, undos>>

PermAbove == Ancestors(PermNodes, PermTop, PermParent)

Reached(n) == \A d \in PermAbove[n] : mode[d] # Shut
Exists(n)  == n \notin gone /\ PermAbove[n] \cap gone = {}
-----------------------------------------------------------------------------
(* One change on the host.                                                 *)

\* The account may make it, or it is refused for want of privilege while the
\* window is open and sudo makes it.
Changeable(n) == Exists(n) /\ ((Reached(n) /\ n \notin RootModes) \/ asRoot)

\* A selection with the paths the client has seen.
PermAsk ==
    /\ stage = "idle"
    /\ \E paths \in SUBSET (PermNodes \ {PermTop}), r \in BOOLEAN, m \in NewModes :
        /\ paths # {} /\ Cardinality(paths) <= MaxPermPaths
        /\ ask' = [paths |-> paths, recursive |-> r, mode |-> m]
        /\ pathsLeft' = paths
    /\ stage' = "apply"
    /\ UNCHANGED <<mode, gone, asRoot, targetsLeft, before, rows, changed, undoVars>>

\* walkTree: a directory that cannot be listed is there, what it holds is not.
Walked(r) == {r} \cup {n \in PermNodes : r \in PermAbove[n] /\ Exists(n) /\ Reached(n)}

\* What describeRoot says of a path it cannot stat.
Unknown == "0000"

\* The next path.  The guard refuses it, or it is walked or its one stat made;
\* the denylisted targets are dropped.
PermPath ==
    /\ stage = "apply" /\ targetsLeft = {}
    /\ \E p \in pathsLeft :
        /\ pathsLeft' = pathsLeft \ {p}
        /\ \/ p \in Locked /\ UNCHANGED <<targetsLeft, before>>
           \/ /\ p \notin Locked
              /\ ask.recursive \/ (Exists(p) /\ Reached(p))
              /\ LET targets == IF ask.recursive THEN Walked(p) ELSE {p}
                 IN  /\ before' = [n \in targets |-> IF Exists(n) /\ Reached(n) THEN mode[n] ELSE Unknown]
                     /\ targetsLeft' = targets \ Locked
    /\ UNCHANGED <<mode, gone, asRoot, stage, ask, rows, changed, undoVars>>

\* The stat of a path that is not recursive rejects, or a walk meets the
\* ceiling: apply() throws, with the rows it holds.
PermThrow ==
    /\ stage = "apply" /\ targetsLeft = {}
    /\ \E p \in pathsLeft \ Locked : ask.recursive \/ ~(Exists(p) /\ Reached(p))
    /\ stage' = "thrown" /\ rows' = <<>>
    /\ UNCHANGED <<mode, gone, asRoot, opVars, undoVars>>

Row(n, v) == [path |-> n, mode |-> v]

\* Mutation: the row holds what the entry was given.
SnapshotLate(n) == Row(n, ask.mode)

Snapshot(n) == Row(n, before[n])

\* Post-order: a directory comes after what is in it.
Lowest == {n \in targetsLeft : \A m \in targetsLeft : n \notin PermAbove[m]}

\* The next target; the first that fails ends its path.
PermEntry ==
    /\ stage = "apply"
    /\ \E n \in Lowest :
        \/ /\ Changeable(n)
           /\ mode' = [mode EXCEPT ![n] = ask.mode]
           /\ rows' = Append(rows, Snapshot(n))
           /\ changed' = changed \cup {n}
           /\ targetsLeft' = targetsLeft \ {n}
        \/ /\ ~Changeable(n)
           /\ targetsLeft' = {}
           /\ UNCHANGED <<mode, rows, changed>>
    /\ UNCHANGED <<gone, asRoot, stage, ask, pathsLeft, before, undoVars>>

\* record(), and then the answer, which may be that no path went well.
PermAnswer ==
    /\ stage = "apply" /\ targetsLeft = {} /\ pathsLeft = {}
    /\ stage' = "recorded"
    /\ UNCHANGED <<mode, gone, asRoot, rows, opVars, undoVars>>

\* The process ends before it: nothing was recorded.
PermCrash ==
    /\ stage = "apply" /\ changed # {}
    /\ stage' = "thrown" /\ rows' = <<>> /\ asRoot' = FALSE
    /\ UNCHANGED <<mode, gone, opVars, undoVars>>
-----------------------------------------------------------------------------
(* The undo.                                                               *)

\* listFor(): the rows of the request, by an id that orders them only by the
\* millisecond.
UndoAsk ==
    /\ stage \in {"recorded", "undone"} /\ undos < MaxUndos
    /\ undo' = DOMAIN rows
    /\ undos' = undos + 1 /\ undone' = {} /\ failed' = {}
    /\ stage' = "undo"
    /\ UNCHANGED <<mode, gone, asRoot, rows, opVars>>

\* Mutation: a row that fails is passed over.
UndoEntryQuiet ==
    /\ stage = "undo"
    /\ \E i \in undo :
        /\ undo' = undo \ {i}
        /\ mode' = IF Changeable(rows[i].path) THEN [mode EXCEPT ![rows[i].path] = rows[i].mode] ELSE mode
        /\ undone' = undone \cup {i} /\ UNCHANGED failed
    /\ UNCHANGED <<gone, asRoot, stage, rows, opVars, undos>>

\* One row; one that fails does not stop the others.
UndoEntry ==
    /\ stage = "undo"
    /\ \E i \in undo :
        /\ undo' = undo \ {i}
        /\ \/ /\ Changeable(rows[i].path)
              /\ mode' = [mode EXCEPT ![rows[i].path] = rows[i].mode]
              /\ undone' = undone \cup {i} /\ UNCHANGED failed
           \/ /\ ~Changeable(rows[i].path)
              /\ failed' = failed \cup {i} /\ UNCHANGED <<mode, undone>>
    /\ UNCHANGED <<gone, asRoot, stage, rows, opVars, undos>>

UndoAnswer ==
    /\ stage = "undo" /\ undo = {}
    /\ stage' = "undone"
    /\ UNCHANGED <<mode, gone, asRoot, rows, opVars, undoVars>>
-----------------------------------------------------------------------------
PermGone ==
    /\ Cardinality(gone) < MaxGone
    /\ \E n \in PermNodes \ Folders : gone' = gone \cup {n}
    /\ UNCHANGED <<mode, asRoot, stage, rows, opVars, undoVars>>

PermWindowEnds ==
    /\ asRoot /\ asRoot' = FALSE
    /\ UNCHANGED <<mode, gone, stage, rows, opVars, undoVars>>

PermInit ==
    /\ mode = Was /\ gone = {} /\ asRoot \in BOOLEAN
    /\ stage = "idle"
    /\ ask = [paths |-> {}, recursive |-> FALSE, mode |-> Shut]
    /\ pathsLeft = {} /\ targetsLeft = {} /\ before = [n \in {} |-> Shut]
    /\ rows = <<>> /\ changed = {}
    /\ undo = {} /\ undone = {} /\ failed = {} /\ undos = 0

PermNext ==
    \/ PermAsk \/ PermPath \/ PermThrow \/ PermEntry \/ PermAnswer \/ PermCrash
    \/ UndoAsk \/ UndoEntry \/ UndoAnswer
    \/ PermGone \/ PermWindowEnds

PermSpec == PermInit /\ [][PermNext]_permVars
-----------------------------------------------------------------------------
(* Properties.                                                             *)

PermTypeOK ==
    /\ mode \in [PermNodes -> NewModes \cup {Was[n] : n \in PermNodes} \cup {Unknown}]
    /\ gone \subseteq PermNodes /\ asRoot \in BOOLEAN
    /\ stage \in {"idle", "apply", "recorded", "thrown", "undo", "undone"}
    /\ \A i \in DOMAIN rows : rows[i].path \in PermNodes
    /\ pathsLeft \subseteq ask.paths /\ targetsLeft \subseteq DOMAIN before
    /\ changed \subseteq PermNodes /\ undos <= MaxUndos

\* What the account could not reach when the request came: what is recorded of
\* such an entry, if sudo changes it, is Unknown.
OutOfReach == {n \in PermNodes : \E d \in PermAbove[n] : Was[d] = Shut}

\* "Written only for paths that end up in the operation's own `changed` set ...
\* so a snapshot never claims to cover an entry the change never actually
\* reached", and each of those is covered by the mode it had, whichever path
\* failed and whatever sudo had to do; no key material is ever among them.
SnapshotsAreWhole ==
    stage \in {"recorded", "undo", "undone"} =>
        /\ {rows[i].path : i \in DOMAIN rows} = changed
        /\ \A n \in changed \ OutOfReach : \E i \in DOMAIN rows : rows[i] = Row(n, Was[n])
        /\ changed \cap Locked = {}

Once == \A i, j \in DOMAIN rows : rows[i].path = rows[j].path => i = j

\* "Restoring exactly what a previous operation changed": an undo that restored
\* every row left every entry with the mode it had, for a selection that
\* reached no entry twice.
UndoRestores ==
    stage = "undone" /\ failed = {} /\ Once => \A n \in PermNodes \ OutOfReach : mode[n] = Was[n]

\* "That change is exactly as undoable as any other": whatever way a request
\* ends, what it changed is recorded.
ChangesAreRecorded ==
    stage \notin {"idle", "apply"} => changed \subseteq {rows[i].path : i \in DOMAIN rows}

\* "A path that has vanished or changed is skipped and the rest continue": an
\* undo fails only for an entry that is gone or that is root's.
UndoIsComplete ==
    stage = "undone" => \A i \in failed :
        ~Exists(rows[i].path) \/ rows[i].path \in RootModes
=============================================================================
