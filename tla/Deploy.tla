-------------------------------- MODULE Deploy --------------------------------
(***************************************************************************)
(* deploy-api.sh and deploy-front.sh with what they source: the checks and *)
(* their marker, the switch that keeps the previous version as a backup,   *)
(* the rollback, automatic or by hand, and what is reported.  One run at a *)
(* time; any command may fail, and a run may be killed anywhere.           *)
(***************************************************************************)
EXTENDS Naturals

CONSTANTS
    MaxShips,   \* bounds: the runs of the script,
    MaxTree     \* and the changes of the working tree

ASSUME DeployAssumption == MaxShips \in Nat \ {0} /\ MaxTree \in Nat

VARIABLES
    half,     \* "api" or "front": which script
    sound,    \* the releases that are healthy once they are served
    tree,     \* the working tree: [head, dirty]
    marker,   \* PREFLIGHT_MARKER: the commit it names, none when it is too old
    passed,   \* history: the commits for which a run of the checks has passed
    live,     \* NEST_DIR or CURRENT_DIR: [rel, built]
    bak,      \* the backup directory
    conf,     \* the run whose ecosystem.config.js is on the server
    schema,   \* the run whose migrations were applied last
    served,   \* what pm2 runs: a release, or Down
    kept,     \* history: the release that was live and well
    torn,     \* history: a run broke off with neither the new release nor the old one in place
    ship      \* the run: [id, at, switched, fp, label, sent, before, moved, report]

treeVars == <<tree, marker, passed>>
boxVars  == <<live, bak, conf, schema, served>>
shipVars == <<half, sound, treeVars, boxVars, kept, torn, ship>>

NoDir    == [rel |-> 0, built |-> FALSE]     \* the directory is not there
Down     == 0
Unmarked == 0
Release(i) == 1 + i                          \* the first run finds release 1
NewShip(p, d) ==
    [id |-> ship.id + 1, at |-> p, switched |-> FALSE, fp |-> Unmarked, label |-> 0,
     sent |-> "nothing", before |-> d, moved |-> FALSE, report |-> "none"]
ShipAt(p) == ship' = [ship EXCEPT !.at = p]
Ends(r)   == ship' = [ship EXCEPT !.at = "over", !.report = r, !.switched = FALSE, !.fp = Unmarked, !.label = 0,
                                  !.before = IF r = "none" THEN NoDir ELSE @]
Served(d) == IF d.built THEN d.rel ELSE Down
-----------------------------------------------------------------------------
(* What is checked before anything is sent.                                *)

\* deploy(): setup, then require_clean_tree.
ShipBegins ==
    /\ ship.at = "over" /\ ship.id < MaxShips
    /\ ship' = NewShip(IF tree.dirty THEN "over" ELSE "preflight", live)
    /\ UNCHANGED <<half, sound, treeVars, boxVars, kept, torn>>

\* preflight_fingerprint, which names no dirty tree.
Fingerprint == IF tree.dirty THEN Unmarked ELSE tree.head

\* Mutation: a marker is a marker.
AnyMarker(fp) == fp # Unmarked /\ marker # Unmarked

\* preflight_already_passed.
AlreadyPassed(fp) == fp # Unmarked /\ marker = fp

Preflight ==
    /\ ship.at = "preflight"
    /\ ship' = [ship EXCEPT !.fp = Fingerprint, !.at = IF AlreadyPassed(Fingerprint) THEN "named" ELSE "checks"]
    /\ UNCHANGED <<half, sound, treeVars, boxVars, kept, torn>>

\* run_preflight_checks: a check that fails ends the run, with nothing sent.
PreflightEnds ==
    /\ ship.at = "checks"
    /\ \/ Ends("none") /\ UNCHANGED <<marker, passed>>
       \/ /\ ShipAt("named")
          /\ IF ship.fp = Unmarked THEN UNCHANGED <<marker, passed>>
             ELSE marker' = ship.fp /\ passed' = passed \cup {ship.fp}
    /\ UNCHANGED <<half, sound, tree, boxVars, kept, torn>>

\* Where the marker and the tree are looked at: what becomes of them later in a
\* run comes to the same after it.
Looking == ship.at \in {"over", "preflight", "checks", "named", "send"}

\* PREFLIGHT_TTL_SECONDS pass.
MarkerAges ==
    /\ Looking /\ marker # Unmarked /\ marker' = Unmarked
    /\ UNCHANGED <<half, sound, tree, passed, boxVars, kept, torn, ship>>

\* Somebody edits a file, and commits or discards what is edited.
TreeMoves ==
    /\ Looking /\ tree.head <= MaxTree
    /\ tree' \in IF tree.dirty THEN {[head |-> h, dirty |-> FALSE] : h \in {tree.head, tree.head + 1}}
                 ELSE {[tree EXCEPT !.dirty = TRUE]}
    /\ ship' = [ship EXCEPT !.moved = @ \/ ship.at # "over"]
    /\ UNCHANGED <<half, sound, marker, passed, boxVars, kept, torn>>

\* compute_release_metadata, after the checks.
Named ==
    /\ ship.at = "named" /\ ship' = [ship EXCEPT !.label = tree.head, !.at = "send"]
    /\ UNCHANGED <<half, sound, treeVars, boxVars, kept, torn>>
-----------------------------------------------------------------------------
(* What is done on the server.                                             *)

\* What is sent, against its name and the checks.
Content ==
    IF ship.moved THEN "touched"
    ELSE IF ~tree.dirty /\ tree.head = ship.label /\ ship.label \in passed THEN "as named" ELSE "other"

\* rsync sends the files as they are; the front is built where they land.
Sent ==
    /\ ship.at = "send"
    /\ ship' = [ship EXCEPT !.at = IF half = "api" THEN "conf" ELSE "rmbak", !.fp = Unmarked, !.label = 0,
                            !.moved = FALSE, !.sent = Content]
    /\ UNCHANGED <<half, sound, treeVars, boxVars, kept, torn>>

\* The API's configuration lies outside what is switched.
Configured ==
    /\ ship.at = "conf" /\ ShipAt("rmbak") /\ conf' = ship.id
    /\ UNCHANGED <<half, sound, treeVars, live, bak, schema, served, kept, torn>>

\* The switch: the old backup goes,
SwitchDrops ==
    /\ ship.at = "rmbak" /\ ShipAt("mvold") /\ bak' = NoDir
    /\ UNCHANGED <<half, sound, treeVars, live, conf, schema, served, kept, torn>>

\* Mutation: the version that is replaced is not kept.
SwitchKeepsNot ==
    /\ ship.at = "mvold" /\ ShipAt("mvnew")
    /\ live' = NoDir
    /\ UNCHANGED <<half, sound, treeVars, bak, conf, schema, served, kept, torn>>

\* the live version becomes the backup,
SwitchKeeps ==
    /\ ship.at = "mvold" /\ ShipAt("mvnew")
    /\ bak' = IF live # NoDir THEN live ELSE bak
    /\ live' = NoDir
    /\ UNCHANGED <<half, sound, treeVars, conf, schema, served, kept, torn>>

\* and the release, which the front has built, goes live: moved, or copied, and
\* a copy that fails leaves what it had copied.
SwitchMoves ==
    /\ ship.at = "mvnew" /\ ShipAt("answer")
    /\ live' = [rel |-> Release(ship.id), built |-> half = "front"]
    /\ UNCHANGED <<half, sound, treeVars, bak, conf, schema, served, kept, torn>>

\* SWITCH_DONE, once the server has answered.
Switched ==
    /\ ship.at = "answer"
    /\ ship' = [ship EXCEPT !.switched = TRUE, !.at = IF half = "api" THEN "build" ELSE "reload"]
    /\ UNCHANGED <<half, sound, treeVars, boxVars, kept, torn>>

\* The API is installed, built and migrated where it is live.
Built ==
    /\ ship.at = "build" /\ ShipAt("migrate") /\ live' = [live EXCEPT !.built = TRUE]
    /\ UNCHANGED <<half, sound, treeVars, bak, conf, schema, served, kept, torn>>

Migrated ==
    /\ ship.at = "migrate" /\ ShipAt("reload") /\ schema' = ship.id
    /\ UNCHANGED <<half, sound, treeVars, live, bak, conf, served, kept, torn>>

Reloaded ==
    /\ ship.at = "reload" /\ ShipAt("verify") /\ served' = Served(live)
    /\ UNCHANGED <<half, sound, treeVars, live, bak, conf, schema, kept, torn>>

\* Mutation: an answer is health.
Answers(r) == r # Down

\* Ten looks at the health of what is served: "it answered" is not the check.
Healthy(r) == r \in sound

\* The trap is lifted; the prune and the changelog fail nothing.
Verified ==
    /\ ship.at = "verify" /\ Healthy(served)
    /\ Ends("success") /\ kept' = served /\ torn' = FALSE
    /\ UNCHANGED <<half, sound, treeVars, boxVars>>
-----------------------------------------------------------------------------
(* What fails.                                                             *)

Trapped == {"send", "conf", "rmbak", "mvold", "mvnew", "answer", "build", "migrate", "reload", "verify"}
Halfway == {"mvnew", "answer", "build", "migrate", "reload", "verify", "undo", "back", "restart"}

\* Mutation: what failed in the switch is rolled back too.
UndoneEarly == ship.switched \/ ship.at \in {"rmbak", "mvold", "mvnew", "answer"}

\* on_error rolls back what it knows was switched.
Undone == ship.switched

\* The ERR trap: any command after it was set may fail.  A copy of the front
\* that fails leaves what it had copied.
ShipFails ==
    /\ ship.at \in Trapped
    /\ IF Undone THEN ShipAt("undo") ELSE Ends("unmodified")
    /\ torn' = (torn \/ (~Undone /\ ship.at \in Halfway))
    /\ live' \in IF ship.at = "mvnew" /\ half = "front"
                 THEN {live, [rel |-> Release(ship.id), built |-> FALSE]} ELSE {live}
    /\ UNCHANGED <<half, sound, treeVars, bak, conf, schema, served, kept>>

\* rollback by hand.
UndoAsked ==
    /\ ship.at = "over" /\ ship.id < MaxShips
    /\ ship' = [NewShip("undo", bak) EXCEPT !.report = "by hand"]
    /\ UNCHANGED <<half, sound, treeVars, boxVars, kept, torn>>

\* remote_rollback: without a backup there is nothing to go back to; else what
\* is live is removed,
UndoRemoves ==
    /\ ship.at = "undo"
    /\ IF bak = NoDir THEN Ends("failed") /\ UNCHANGED <<live, kept>>
       ELSE /\ ShipAt("back") /\ live' = NoDir
            /\ kept' = IF ship.report = "by hand" THEN bak.rel ELSE kept
    /\ UNCHANGED <<half, sound, treeVars, bak, conf, schema, served, torn>>

\* and the backup takes its place.
UndoPutsBack ==
    /\ ship.at = "back" /\ ShipAt("restart") /\ live' = bak /\ bak' = NoDir
    /\ UNCHANGED <<half, sound, treeVars, conf, schema, served, kept, torn>>

\* pm2 is reloaded and the rollback told; one that is automatic is told
\* although the reload failed.
UndoReloads ==
    /\ ship.at = "restart"
    /\ \/ Ends("rolled_back") /\ served' = Served(live)
       \/ Ends(IF ship.report = "by hand" THEN "none" ELSE "rolled_back") /\ UNCHANGED served
    /\ UNCHANGED <<half, sound, treeVars, live, bak, conf, schema, kept, torn>>

\* The removal or the move fails, or the answer to them is lost.
UndoFails ==
    /\ ship.at \in {"undo", "back", "restart"} /\ Ends("failed") /\ torn' = TRUE
    /\ live' \in IF ship.at = "undo" THEN {live, NoDir} ELSE {live}
    /\ UNCHANGED <<half, sound, treeVars, bak, conf, schema, served, kept>>

\* The terminal is closed, the laptop sleeps: no trap runs.
ShipKilled ==
    /\ ship.at # "over" /\ Ends("none") /\ torn' = (torn \/ ship.at \in Halfway)
    /\ UNCHANGED <<half, sound, treeVars, boxVars, kept>>

ShipInit ==
    /\ half \in {"api", "front"} /\ sound \in {{1} \cup {Release(i) : i \in S} : S \in SUBSET (1 .. MaxShips)}
    /\ tree = [head |-> 1, dirty |-> FALSE] /\ marker = Unmarked /\ passed = {}
    /\ live = [rel |-> 1, built |-> TRUE] /\ bak = NoDir /\ conf = 0 /\ schema = 0
    /\ served = 1 /\ kept = 1 /\ torn = FALSE
    /\ ship = [id |-> 0, at |-> "over", switched |-> FALSE, fp |-> Unmarked, label |-> 0,
               sent |-> "nothing", before |-> NoDir, moved |-> FALSE, report |-> "none"]

ShipNext ==
    \/ ShipBegins \/ Preflight \/ PreflightEnds \/ MarkerAges \/ TreeMoves \/ Named
    \/ Sent \/ Configured \/ SwitchDrops \/ SwitchKeeps \/ SwitchMoves \/ Switched
    \/ Built \/ Migrated \/ Reloaded \/ Verified
    \/ ShipFails \/ UndoAsked \/ UndoRemoves \/ UndoPutsBack \/ UndoReloads \/ UndoFails
    \/ ShipKilled

ShipSpec == ShipInit /\ [][ShipNext]_shipVars
-----------------------------------------------------------------------------
(* Properties.                                                             *)

ShipTypeOK ==
    /\ {live.rel, bak.rel, served, kept} \subseteq 0 .. Release(MaxShips)
    /\ {conf, schema, ship.id} \subseteq 0 .. MaxShips
    /\ ship.at \in Trapped \cup {"over", "preflight", "checks", "named", "undo", "back", "restart"}
    /\ ship.report \in {"none", "by hand", "success", "unmodified", "failed", "rolled_back"}
    /\ half = "front" => conf = 0 /\ schema = 0

\* A run is over and told this.
Told(r) == ship.at = "over" /\ ship.report = r

\* A run that is told a success is what is served, well, with its own
\* configuration and schema, and the version it replaced is the backup.
SuccessIsServed ==
    Told("success") =>
        /\ live = [rel |-> Release(ship.id), built |-> TRUE] /\ served = live.rel /\ served \in sound
        /\ half = "api" => conf = ship.id /\ schema = ship.id
        /\ bak = ship.before

\* "A commit whose content is not what is running": a release that is told a
\* success is clean, named after its commit and checked, while nobody touched
\* the tree as it was being checked and sent.
ShippedIsNamed ==
    Told("success") => ship.sent \in {"as named", "touched"}

\* "The box is serving exactly what it served before": the version that was
\* live, or the backup that was asked for, is live after a rollback; and after
\* a failure that says production was not modified, unless it failed within
\* the switch.
FailureLeavesLive ==
    /\ Told("rolled_back") => live = ship.before
    /\ Told("unmodified") => live = ship.before \/ torn

\* "Atomic switch keeping the previous version": until a run breaks off
\* halfway, the last version that was well is live or is the backup.
VersionIsKept == ~torn => kept \in {live.rel, bak.rel}

\* ... and its report says what the box serves, which a reload that fails after
\* a rollback makes untrue.
RolledBackIsServed == Told("rolled_back") => served = Served(live)
=============================================================================
