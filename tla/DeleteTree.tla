---------------------------- MODULE DeleteTree ----------------------------
(***************************************************************************)
(* DeleteService: requests that each survey every selected path, refuse as *)
(* a whole or remove entry by entry, post-order, with a retry as root.     *)
(* walkTree, the guard's resolution and the mount table are operators over *)
(* the tree as it is when they run; the tree is shared by the requests and *)
(* by whoever else writes to the host.  Paths, and the entries of a walk,  *)
(* are taken in any order that has an entry before its directory.          *)
(***************************************************************************)
EXTENDS Naturals, FiniteSetsExt, Ancestry

CONSTANTS
    Nodes,       \* every entry there ever is
    TopDir,      \* the directory the others are under; it is never selected
    ParentOf,    \* ParentOf[n]: the directory that holds n
    KindOf,      \* KindOf[n]: "dir", "file" or "link"
    PointsAt,    \* PointsAt[n]: what a link resolves to
    Late,        \* the entries somebody makes later
    Barred,      \* too shallow, a root of the host, or a mount point
    Denied,      \* denylisted
    Unlistable,  \* the directories the account cannot list
    RootOwned,   \* the entries it cannot remove
    Requests,
    MaxPaths,    \* MaxPaths[q]: a bound on what q selects, as MAX_PATHS is
    Ceiling,     \* entryCeiling()
    Threshold    \* elevationThreshold()

Links == {n \in Nodes : KindOf[n] = "link"}

ASSUME DeleteAssumption ==
    /\ IsFiniteSet(Nodes) /\ TopDir \in Nodes /\ KindOf[TopDir] = "dir"
    /\ ParentOf \in [Nodes \ {TopDir} -> {n \in Nodes : KindOf[n] = "dir"}]
    /\ \A n \in Nodes \ {TopDir} : ParentOf[n] \in Late => n \in Late
    /\ PointsAt \in [Links -> Nodes]
    /\ UNION {Late, Barred, Denied, Unlistable, RootOwned} \subseteq Nodes
    /\ MaxPaths \in [Requests -> Nat] /\ {Ceiling, Threshold} \subseteq Nat

VARIABLES
    tree,     \* the entries that are there
    sudo,     \* a sudo window is open for the session
    phase,    \* where a request stands
    asked,    \* its selection
    todo,     \* the paths still to survey, or to remove
    surveyed, \* `surveyed`: what each path resolved to, and its walk
    target,   \* the path being removed, TopDir before there is one
    rest,     \* what is left of its walk
    refused,  \* the entry that met EACCES and is to be retried as root
    outcome,  \* `results`, and which entries they count
    removed   \* history: the entries each request took off the tree

delVars == <<tree, sudo, phase, asked, todo, surveyed, target, rest, refused, outcome, removed>>

Above == Ancestors(Nodes, TopDir, ParentOf)
Under(n) == {m \in Nodes : m = n \/ n \in Above[m]}
Children(n) == {m \in tree : m # TopDir /\ ParentOf[m] = n}
-----------------------------------------------------------------------------
(* The survey of one path.                                                 *)

\* validate(): realpath of the path, a link's included, where it exists.
Resolve(p) == IF p \in Links /\ p \in tree /\ PointsAt[p] \in tree THEN PointsAt[p] ELSE p

\* walkTree: a directory that cannot be listed hides what it holds, and the root
\* is there even when it is not.
WalkTree(r) ==
    {r} \cup {n \in tree : r \in Above[n] /\ Above[n] \cap Under(r) \cap Unlistable = {}}

Refused(r) ==
    \/ r \in Barred \cup Denied
    \/ Cardinality(WalkTree(r)) > Ceiling + 1
    \/ WalkTree(r) \cap (Denied \cup Barred) # {}
-----------------------------------------------------------------------------
\* A request with the right token: the paths are any the client has seen.
DeleteAsk(q) ==
    /\ phase[q] = "idle"
    /\ \E paths \in SUBSET (tree \ {TopDir}) :
        /\ paths # {} /\ Cardinality(paths) <= MaxPaths[q]
        /\ asked' = [asked EXCEPT ![q] = paths]
        /\ todo'  = [todo EXCEPT ![q] = paths]
    /\ phase' = [phase EXCEPT ![q] = "survey"]
    /\ UNCHANGED <<tree, sudo, surveyed, target, rest, refused, outcome, removed>>

Surveyed(q, p, r) ==
    /\ surveyed' = [surveyed EXCEPT ![q][p] = [root |-> r, walk |-> WalkTree(r)]]
    /\ todo' = [todo EXCEPT ![q] = @ \ {p}]
    /\ UNCHANGED phase

Refusal(q) == phase' = [phase EXCEPT ![q] = "refused"] /\ UNCHANGED <<todo, surveyed>>

\* Mutation: a path is removed in the turn that surveys it.
DeleteSurveyEager(q) ==
    /\ phase[q] = "survey"
    /\ \E p \in todo[q] :
        LET r == Resolve(p)
        IN  \/ Refused(r) /\ Refusal(q) /\ UNCHANGED <<tree, removed>>
            \/ /\ ~Refused(r) /\ Surveyed(q, p, r)
               /\ tree' = tree \ {r} /\ removed' = [removed EXCEPT ![q] = @ \cup ({r} \cap tree)]
    /\ UNCHANGED <<sudo, asked, target, rest, refused, outcome>>

\* One turn of survey(): the refusals of a path come before anything of the
\* request is removed.
DeleteSurvey(q) ==
    /\ phase[q] = "survey"
    /\ \E p \in todo[q] :
        LET r == Resolve(p)
        IN  (Refused(r) /\ Refusal(q)) \/ (~Refused(r) /\ Surveyed(q, p, r))
    /\ UNCHANGED <<tree, sudo, asked, target, rest, refused, outcome, removed>>

Total(q) == MapThenSumSet(LAMBDA p : Cardinality(surveyed[q][p].walk), asked[q])

\* Every path is surveyed: the threshold, then the limit of the account.
DeleteAllow(q) ==
    /\ phase[q] = "survey" /\ todo[q] = {}
    /\ \/ phase' = [phase EXCEPT ![q] = "refused"] /\ UNCHANGED todo
       \/ /\ Total(q) <= Threshold
          /\ phase' = [phase EXCEPT ![q] = "remove"]
          /\ todo' = [todo EXCEPT ![q] = asked[q]]
    /\ UNCHANGED <<tree, sudo, asked, surveyed, target, rest, refused, outcome, removed>>
-----------------------------------------------------------------------------
(* removeTree().                                                           *)

DeleteTarget(q) ==
    /\ phase[q] = "remove" /\ rest[q] = {} /\ refused[q] = {}
    /\ \E p \in todo[q] :
        /\ target' = [target EXCEPT ![q] = p]
        /\ rest' = [rest EXCEPT ![q] = surveyed[q][p].walk]
        /\ todo' = [todo EXCEPT ![q] = @ \ {p}]
    /\ UNCHANGED <<tree, sudo, phase, asked, surveyed, refused, outcome, removed>>

\* Post-order: a directory comes after what is in it.
LowestLeft(q) == {n \in rest[q] : \A m \in rest[q] : n \notin Above[m]}

\* `entries` and `elevated`, by what they count.
Counted(q, S, up) ==
    outcome' = [outcome EXCEPT ![q][target[q]] =
                   [ok |-> @.ok, entries |-> @.entries \cup S, elevated |-> @.elevated \cup up]]
Failed(q) == outcome' = [outcome EXCEPT ![q][target[q]].ok = FALSE]

Took(q, S) ==
    /\ tree' = tree \ S
    /\ removed' = [removed EXCEPT ![q] = @ \cup (S \cap tree)]

\* rmdir or unlink of the next entry of the walk.
DeleteEntry(q) ==
    /\ phase[q] = "remove" /\ refused[q] = {}
    /\ \E n \in LowestLeft(q) :
        /\ rest' = [rest EXCEPT ![q] = @ \ {n}]
        /\ \/ /\ n \in tree \ RootOwned /\ Children(n) = {}
              /\ Took(q, {n}) /\ Counted(q, {n}, {})
              /\ UNCHANGED refused
           \/ /\ n \notin tree \/ (n \notin RootOwned /\ Children(n) # {})
              /\ Failed(q)
              /\ UNCHANGED <<tree, removed, refused>>
           \/ /\ n \in tree \cap RootOwned /\ ~sudo
              /\ Failed(q)
              /\ UNCHANGED <<tree, removed, refused>>
           \/ /\ n \in tree \cap RootOwned /\ sudo
              /\ refused' = [refused EXCEPT ![q] = {n}]
              /\ UNCHANGED <<tree, removed, outcome>>
    /\ UNCHANGED <<sudo, phase, asked, todo, surveyed, target>>

\* Mutation: rm -r.
DeleteElevatedTree(q) ==
    /\ \E n \in refused[q] :
        \/ sudo /\ Took(q, Under(n)) /\ Counted(q, {n}, {n})
        \/ ~sudo /\ Failed(q) /\ UNCHANGED <<tree, removed>>
    /\ refused' = [refused EXCEPT ![q] = {}]
    /\ UNCHANGED <<sudo, phase, asked, todo, surveyed, target, rest>>

\* rmArgv: -f is content with an entry that is gone, -d wants an empty directory.
RemovableAsRoot(n) == KindOf[n] = "dir" => n \in tree /\ Children(n) = {}

\* `sudo rm -d` or `sudo rm -f`, if the window is still open.
DeleteElevated(q) ==
    /\ \E n \in refused[q] :
        \/ sudo /\ RemovableAsRoot(n) /\ Took(q, {n}) /\ Counted(q, {n}, {n})
        \/ ~(sudo /\ RemovableAsRoot(n)) /\ Failed(q) /\ UNCHANGED <<tree, removed>>
    /\ refused' = [refused EXCEPT ![q] = {}]
    /\ UNCHANGED <<sudo, phase, asked, todo, surveyed, target, rest>>

\* The answer: the outcomes, or a failure when there is no other.
DeleteAnswer(q) ==
    /\ phase[q] = "remove" /\ rest[q] = {} /\ todo[q] = {} /\ refused[q] = {}
    /\ phase' = [phase EXCEPT ![q] =
          IF \A p \in asked[q] : ~outcome[q][p].ok THEN "failed" ELSE "answered"]
    /\ UNCHANGED <<tree, sudo, asked, todo, surveyed, target, rest, refused, outcome, removed>>
-----------------------------------------------------------------------------
(* Everybody else.                                                         *)

\* Somebody makes an entry, once each.
DeleteOther ==
    /\ \E n \in Late \ (tree \cup UNION {removed[q] : q \in Requests}) :
        ParentOf[n] \in tree /\ tree' = tree \cup {n}
    /\ UNCHANGED <<sudo, phase, asked, todo, surveyed, target, rest, refused, outcome, removed>>

DeleteWindowEnds ==
    /\ sudo /\ sudo' = FALSE
    /\ UNCHANGED <<tree, phase, asked, todo, surveyed, target, rest, refused, outcome, removed>>

DeleteInit ==
    /\ tree = Nodes \ Late /\ sudo \in BOOLEAN
    /\ phase    = [q \in Requests |-> "idle"]
    /\ asked    = [q \in Requests |-> {}]
    /\ todo     = [q \in Requests |-> {}]
    /\ surveyed = [q \in Requests |-> [p \in Nodes |-> [root |-> p, walk |-> {}]]]
    /\ target   = [q \in Requests |-> TopDir]
    /\ rest     = [q \in Requests |-> {}]
    /\ refused  = [q \in Requests |-> {}]
    /\ outcome  = [q \in Requests |-> [p \in Nodes |-> [ok |-> TRUE, entries |-> {}, elevated |-> {}]]]
    /\ removed  = [q \in Requests |-> {}]

DeleteNext ==
    \/ \E q \in Requests : \/ DeleteAsk(q) \/ DeleteSurvey(q) \/ DeleteAllow(q) \/ DeleteTarget(q)
                           \/ DeleteEntry(q) \/ DeleteElevated(q) \/ DeleteAnswer(q)
    \/ DeleteOther \/ DeleteWindowEnds

DeleteSpec == DeleteInit /\ [][DeleteNext]_delVars
-----------------------------------------------------------------------------
(* Properties.                                                             *)

DeleteTypeOK ==
    /\ tree \subseteq Nodes /\ sudo \in BOOLEAN
    /\ phase \in [Requests -> {"idle", "survey", "refused", "remove", "answered", "failed"}]
    /\ asked \in [Requests -> SUBSET Nodes] /\ todo \in [Requests -> SUBSET Nodes]
    /\ surveyed \in [Requests -> [Nodes -> [root : Nodes, walk : SUBSET Nodes]]]
    /\ target \in [Requests -> Nodes] /\ rest \in [Requests -> SUBSET Nodes]
    /\ refused \in [Requests -> SUBSET Nodes] /\ removed \in [Requests -> SUBSET Nodes]
    /\ outcome \in [Requests -> [Nodes -> [ok : BOOLEAN, entries : SUBSET Nodes, elevated : SUBSET Nodes]]]
    /\ \A q \in Requests :
        todo[q] \subseteq asked[q] /\ rest[q] \cup refused[q] \subseteq surveyed[q][target[q]].walk

\* "Every refusal, decided for every target, before any of them is touched".
RefusedIsUntouched ==
    \A q \in Requests : phase[q] \in {"survey", "refused"} => removed[q] = {}

\* "The walk is the security boundary": whatever is removed was surveyed, as
\* root too, so what somebody put there after the walk stays, in its directory,
\* and so does what the walk refused.
OnlySurveyedGoes ==
    \A q \in Requests :
        /\ removed[q] \subseteq UNION {surveyed[q][p].walk : p \in asked[q]}
        /\ removed[q] \cap (Denied \cup Barred) = {}
        /\ \A n \in tree \ {TopDir} : ParentOf[n] \in tree

\* "The outcome names the first thing that actually went wrong": a target said
\* to be deleted is gone with all there was under it, and the entries reported
\* are the entries this request removed, each once; only of those `rm -f` was
\* asked for may another request have taken one first.
OutcomesAreTrue ==
    \A q \in Requests :
        /\ removed[q] \subseteq UNION {outcome[q][p].entries : p \in asked[q]}
        /\ \A p \in asked[q] : outcome[q][p].entries \subseteq removed[q] \cup outcome[q][p].elevated
        /\ \A p, k \in asked[q] : p # k => outcome[q][p].entries \cap outcome[q][k].entries = {}
        /\ phase[q] \in {"answered", "failed"} =>
            \A p \in asked[q] : outcome[q][p].ok =>
                \A n \in tree : surveyed[q][p].root \notin {n} \cup Above[n]

\* "`unlink` for everything that is not a directory - a symlink included, which
\* removes the link and never what it points at": a request removes entries of
\* the paths it names.
NothingBehindALink ==
    \A q \in Requests : \A n \in removed[q] :
        \E p \in asked[q] : n \in Under(p)
=============================================================================
