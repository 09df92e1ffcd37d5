------------------------------ MODULE PageDialogs ------------------------------
(***************************************************************************)
(* The dialogs that send something: the transfer of a pane's selection to  *)
(* the other pane, its removal, and the paste of what was cut or copied.   *)
(* A transfer or a removal is aimed at what the panes show as they show it; *)
(* a paste is aimed once, after its source was listed again.  Meanwhile    *)
(* the operator goes on, listings are read again and others change the     *)
(* directories.                                                            *)
(***************************************************************************)
EXTENDS Naturals, FiniteSets

CONSTANTS
    DlgDirs, DlgNames,  \* directories, whatever their host, and names
    Held0, Start,       \* the names a directory starts with, and where the panes start
    FirstOf,            \* FirstOf[s]: the first of some names, as they are sorted
    MaxActs, MaxPosts,  \* bounds: what the operator and others do, but for requests, those,
    MaxStrays,          \* and the keys a pane hears under a dialog
    Touched             \* the names others add and remove, and where

ASSUME DialogsAssumption ==
    /\ Held0 \in [DlgDirs -> SUBSET DlgNames] /\ Start \in [1 .. 2 -> DlgDirs]
    /\ Touched \subseteq DlgDirs \X DlgNames
    /\ \A s \in SUBSET DlgNames \ {{}} : FirstOf[s] \in s
    /\ {MaxActs, MaxPosts, MaxStrays} \subseteq Nat

VARIABLES
    tree,    \* tree[d]: the names of a directory, on its host
    listed,  \* listed[d]: as the page last read them
    side,    \* side[i]: a pane: [at, sel, cur]
    lead,    \* the active pane
    clip,    \* what is held: [no, op, from, names], or NoClip
    lookups, \* pastes whose source is being listed: [clip, to, no]
    dlg,     \* dlg[k]: a dialog, with the state of its panel
    plans,   \* the answers of the plan routes the page keeps: [key, clash]
    posts,   \* requests under way
    sent,    \* requests that were accepted,
    toRun,   \* and those whose job has not run
    acts, posted, strays,
    strayed,  \* history: a key reached the panes under a dialog, or the cursor's row stood in
    crossed, \* history: something was taken while a paste was under way
    hasty    \* history: two lookups at once, or a dialog answered while it leaves

dlgVars == <<tree, listed, side, lead, clip, lookups, dlg, plans, posts, sent, toRun, acts, posted, strays,
             strayed, crossed, hasty>>

NoName  == "no name"
NoClip  == [no |-> 0, op |-> "none", from |-> "nowhere", names |-> {}]
NoAim == [op |-> "none", from |-> "nowhere", names |-> {}, to |-> "nowhere"]
Shut    == [up |-> FALSE, op |-> "none", aim |-> NoAim, blanket |-> "ask", rows |-> {},
            typed |-> [count |-> 0, name |-> {}], given |-> NoAim, cut |-> NoClip, stood |-> "nowhere",
            busy |-> FALSE, leaving |-> FALSE]
Kinds3  == {"transfer", "delete", "paste"}
Live    == {"transfer", "delete"}
Other(i) == 3 - i
AnyUp   == \E k \in Kinds3 : dlg[k].up
-----------------------------------------------------------------------------
(* What a dialog is aimed at.                                              *)

\* inspected, or else the row under the cursor.
Inspected(p, l) ==
    LET sel == p.sel \cap l[p.at]
    IN  IF sel # {} THEN sel ELSE {p.cur} \cap l[p.at]

\* transferTarget, deleteTarget: of what the panes show; paste.target.
Aimed(k, f, s, l, i) ==
    LET names == Inspected(s[i], l)
    IN  IF k = "paste" \/ ~f.up THEN f.aim
        ELSE IF names = {} THEN NoAim
        ELSE [op |-> f.op, from |-> s[i].at, names |-> names,
              to |-> IF k = "delete" THEN "nowhere" ELSE s[Other(i)].at]
Target(k) == Aimed(k, dlg[k], side, listed, lead)

\* The words that arm a removal: the name, or how many.
Token(names) == [count |-> Cardinality(names), name |-> IF Cardinality(names) = 1 THEN names ELSE {}]

\* A plan is there, and its conflicts are answered or its words are typed.
Answered(f, n) == f.blanket # "ask" \/ n \in f.rows
Planned(k) == {p \in plans : dlg[k].up /\ p.key = Target(k)}
Armed(k) ==
    \E p \in Planned(k) : IF k = "delete" THEN dlg[k].typed = Token(p.key.names)
                          ELSE \A n \in p.clash : Answered(dlg[k], n)
-----------------------------------------------------------------------------
(* The render after a step.                                                *)

\* Requests whose dialog is unmounted keep the closures of its last render.
Frozen(ps, gone) ==
    {IF r.k \in gone /\ r.live THEN [r EXCEPT !.live = FALSE, !.lead = lead, !.at = <<side[1].at, side[2].at>>]
     ELSE r : r \in ps}

\* A cursor is seeded; transferEmpty, deleteEmpty: what is aimed at nothing is put away.
Render(d, s, l, i, ps, under) ==
    LET seeded == [j \in 1 .. 2 |-> IF s[j].cur = NoName /\ l[s[j].at] # {}
                                    THEN [s[j] EXCEPT !.cur = FirstOf[l[s[j].at]]] ELSE s[j]]
        gone   == {k \in Live : d[k].up /\ Aimed(k, d[k], seeded, l, i) = NoAim}
    IN  /\ side' = seeded /\ listed' = l /\ lead' = i
        /\ dlg' = [k \in Kinds3 |-> IF k \in gone THEN Shut ELSE d[k]]
        /\ posts' = Frozen(ps, gone)
        /\ strayed' = (strayed \/ under \/ \E k \in Live \ gone :
                        /\ d[k].up /\ dlg[k].up
                        /\ ~(Aimed(k, d[k], seeded, l, i).names \subseteq Target(k).names))

\* A key of the panes: useKeyboard hears it under a dialog too.
PaneKey(s, i) ==
    /\ acts < MaxActs /\ acts' = acts + 1
    /\ AnyUp => strays < MaxStrays
    /\ strays' = IF AnyUp THEN strays + 1 ELSE strays
    /\ Render(dlg, s, listed, i, posts, AnyUp)
    /\ UNCHANGED <<tree, clip, lookups, plans, sent, toRun, posted, crossed, hasty>>

\* go, an arrow or a click, a click with its modifier, and Tab.
Arrived(d)  == [at |-> d, sel |-> {}, cur |-> NoName]
GoTo(d)   == d # side[lead].at /\ PaneKey([side EXCEPT ![lead] = Arrived(d)], lead)
Pick(n)    == /\ n \in listed[side[lead].at]
             /\ PaneKey([side EXCEPT ![lead].sel = {n}, ![lead].cur = n], lead)
Mark(n)   == /\ ~AnyUp /\ n \in listed[side[lead].at]
             /\ PaneKey([side EXCEPT ![lead].sel = (@ \cup {n}) \ (@ \cap {n}), ![lead].cur = n], lead)
TabKey    == PaneKey(side, Other(lead))

\* F5, F6 and forward delete: they too are heard over what is open.
Open(k, op) ==
    /\ IF k = "delete" THEN op = "delete" ELSE op \in {"copy", "move"}
    /\ ~dlg[k].leaving /\ dlg[k].op # op
    /\ acts < MaxActs /\ acts' = acts + 1
    /\ AnyUp => strays < MaxStrays
    /\ strays' = IF AnyUp THEN strays + 1 ELSE strays
    /\ Render([dlg EXCEPT ![k].up = TRUE, ![k].op = op], side, listed, lead, posts, AnyUp)
    /\ UNCHANGED <<tree, clip, lookups, plans, sent, toRun, posted, crossed, hasty>>
-----------------------------------------------------------------------------
(* The clipboard: take, release, putDown.                                  *)

Chord == ~AnyUp /\ acts < MaxActs /\ acts' = acts + 1

\* The names as the selection has them, gone or not.
Take(op) ==
    LET p     == side[lead]
        names == IF p.sel # {} THEN p.sel ELSE {p.cur} \cap listed[p.at]
    IN  /\ Chord /\ names # {}
        /\ clip' = [no |-> acts', op |-> op, from |-> p.at, names |-> names]
        /\ crossed' = (crossed \/ lookups # {} \/ \E r \in posts : r.k = "paste")
        /\ UNCHANGED <<tree, listed, side, lead, lookups, dlg, plans, posts, sent, toRun, posted, strays, strayed, hasty>>

LetGo ==
    /\ Chord /\ clip # NoClip /\ clip' = NoClip
    /\ UNCHANGED <<tree, listed, side, lead, lookups, dlg, plans, posts, sent, toRun, posted, strays,
                   strayed, crossed, hasty>>

\* resolvePaste: a cut is not put where it is.  The place is read before the await.
Landing(look) == look.to
PutDown ==
    /\ Chord /\ clip # NoClip
    /\ ~(clip.op = "move" /\ clip.from = side[lead].at)
    /\ lookups' = lookups \cup {[clip |-> clip, to |-> side[lead].at, no |-> acts']}
    /\ hasty' = (hasty \/ lookups # {} \/ posts # {})
    /\ UNCHANGED <<tree, listed, side, lead, clip, dlg, plans, posts, sent, toRun, posted, strays, strayed, crossed>>

\* Mutation: the place is the pane's when the listing is answered.
LandingLate(look) == side[lead].at

\* splitHeld: what is still there is aimed at; with nothing left, the clipboard is let go.
PutListed(look) ==
    LET c    == look.clip
        here == c.names \cap tree[c.from]
        l    == [listed EXCEPT ![c.from] = tree[c.from]]
    IN  /\ lookups' = lookups \ {look}
        /\ IF here = {}
           THEN clip' = NoClip /\ Render(dlg, side, l, lead, posts, FALSE)
           ELSE /\ clip' = clip
                /\ Render([dlg EXCEPT !["paste"].up = TRUE, !["paste"].op = c.op, !["paste"].cut = c, !["paste"].stood = look.to,
                              !["paste"].aim = [op |-> c.op, from |-> c.from, names |-> here, to |-> Landing(look)]],
                          side, l, lead, posts, FALSE)
        /\ UNCHANGED <<tree, plans, sent, toRun, acts, posted, strays, crossed, hasty>>
PutFails(look) ==
    /\ lookups' = lookups \ {look}
    /\ UNCHANGED <<tree, listed, side, lead, clip, dlg, plans, posts, sent, toRun, acts, posted, strays,
                   strayed, crossed, hasty>>
-----------------------------------------------------------------------------
(* The panel of a dialog.                                                  *)

Spends == acts < MaxActs /\ acts' = acts + 1
Panel(k, f) ==
    /\ dlg[k] # f /\ dlg' = [dlg EXCEPT ![k] = f]
    /\ UNCHANGED <<tree, listed, side, lead, clip, lookups, plans, sent, toRun, strays,
                   strayed, crossed>>

\* The plan route: what stands in the way, of a source that is there.
PlanAnswered(k) ==
    LET t == Target(k)
    IN  /\ dlg[k].up /\ Planned(k) = {} /\ t.names \subseteq tree[t.from]
        /\ plans' = plans \cup {[key |-> t, clash |-> IF k = "delete" THEN {} ELSE t.names \cap tree[t.to]]}
        /\ UNCHANGED <<tree, listed, side, lead, clip, lookups, dlg, posts, sent, toRun, acts, posted, strays,
                       strayed, crossed, hasty>>

\* The answer for all replaces those of the rows; and one row's.
Blanket(k) ==
    /\ k # "delete" /\ \E p \in Planned(k) : p.clash # {}
    /\ Panel(k, [dlg[k] EXCEPT !.blanket = "overwrite", !.rows = {}, !.given = Target(k)])
    /\ Spends /\ UNCHANGED <<posts, hasty, posted>>
RowAnswer(k, n) ==
    /\ k # "delete" /\ \E p \in Planned(k) : n \in p.clash
    /\ Panel(k, [dlg[k] EXCEPT !.rows = @ \cup {n}, !.given = Target(k)])
    /\ Spends /\ UNCHANGED <<posts, hasty, posted>>
TypeToken ==
    /\ Planned("delete") # {}
    /\ Panel("delete", [dlg["delete"] EXCEPT !.typed = Token(Target("delete").names), !.given = Target("delete")])
    /\ Spends /\ UNCHANGED <<posts, hasty, posted>>

\* mutate(): armed, and nothing pending; while the panel leaves the button is live.
Submit(k) ==
    /\ Armed(k) /\ ~dlg[k].busy /\ posted < MaxPosts /\ posted' = posted + 1
    /\ Panel(k, [dlg[k] EXCEPT !.busy = TRUE])
    /\ posts' = posts \cup {[k |-> k, of |-> Target(k), form |-> dlg[k], no |-> posted', pane |-> lead, live |-> TRUE,
                             lead |-> lead, at |-> <<side[1].at, side[2].at>>]}
    /\ hasty' = (hasty \/ dlg[k].leaving) /\ acts' = acts

\* close(), and the end of the animation.
Dismiss(k) ==
    /\ dlg[k].up /\ ~dlg[k].leaving
    /\ Panel(k, [dlg[k] EXCEPT !.leaving = TRUE]) /\ Spends /\ UNCHANGED <<posts, hasty, posted>>

\* Mutation: what was answered stays for the next opening.
PutAwayKept(k) == [dlg[k] EXCEPT !.up = FALSE, !.op = "none", !.leaving = FALSE, !.busy = FALSE]
PutAway(k) == Shut
Unmount(k) ==
    /\ dlg[k].leaving
    /\ dlg' = [dlg EXCEPT ![k] = PutAway(k)]
    /\ posts' = Frozen(posts, {k})
    /\ UNCHANGED <<tree, listed, side, lead, clip, lookups, plans, sent, toRun, acts, posted, strays,
                   strayed, crossed, hasty>>
-----------------------------------------------------------------------------
(* The answers.                                                            *)

\* Mutations: a cut is kept as a copy is, or a copy let go as a cut.
SpentNever(r)  == FALSE
SpentAlways(r) == r.k = "paste"

\* onStarted, onApplied: the active pane drops its selection; a cut is let go,
\* and the panes that stand where it was drop theirs.
Spent(r) == r.k = "paste" /\ r.of.op = "move"

\* Mutation: the pane across drops its own.
DroppedAcross(r) == [side EXCEPT ![Other(lead)].sel = {}]
Dropped(r) ==
    LET i  == IF r.live THEN lead ELSE r.lead
        at == IF r.live THEN <<side[1].at, side[2].at>> ELSE r.at
    IN  [j \in 1 .. 2 |-> IF IF r.k = "paste" THEN Spent(r) /\ at[j] = r.of.from ELSE j = i
                          THEN [side[j] EXCEPT !.sel = {}, !.cur = NoName] ELSE side[j]]

\* create() walks again: every source is there and every conflict is answered;
\* remove() derives the words again.
Accepted(r) ==
    LET t == r.of
    IN  /\ r \in posts /\ t.names \subseteq tree[t.from]
        /\ IF r.k = "delete"
           THEN /\ r.form.typed = Token(t.names)
                /\ tree' = [tree EXCEPT ![t.from] = @ \ t.names]
           ELSE (\A n \in t.names \cap tree[t.to] : Answered(r.form, n)) /\ tree' = tree
        /\ sent' = sent \cup {r} /\ toRun' = IF r.k = "delete" THEN toRun ELSE toRun \cup {r}
        /\ clip' = IF Spent(r) THEN NoClip ELSE clip
        /\ Render(IF r.live THEN [dlg EXCEPT ![r.k].busy = FALSE, ![r.k].leaving = TRUE] ELSE dlg,
                  Dropped(r), listed, lead, posts \ {r}, FALSE)
        /\ UNCHANGED <<lookups, plans, acts, posted, strays, crossed, hasty>>
Denied(r) ==
    /\ r \in posts
    /\ posts' = posts \ {r}
    /\ dlg' = IF r.live THEN [dlg EXCEPT ![r.k].busy = FALSE] ELSE dlg
    /\ UNCHANGED <<tree, listed, side, lead, clip, lookups, plans, sent, toRun, acts, posted, strays,
                   strayed, crossed, hasty>>

\* The job runs; a listing is read again; somebody else removes or adds a name.
JobRuns(r) ==
    LET t == r.of
    IN  /\ r \in toRun /\ toRun' = toRun \ {r}
        /\ LET moved == t.names \cap tree[t.from]
           IN  tree' = [e \in DlgDirs |-> IF e = t.to THEN tree[e] \cup moved
                                          ELSE IF e = t.from /\ t.op = "move" THEN tree[e] \ moved ELSE tree[e]]
        /\ UNCHANGED <<listed, side, lead, clip, lookups, dlg, plans, posts, sent, acts, posted, strays,
                       strayed, crossed, hasty>>
Relisted(d) ==
    /\ listed[d] # tree[d]
    /\ Render(dlg, side, [listed EXCEPT ![d] = tree[d]], lead, posts, FALSE)
    /\ UNCHANGED <<tree, clip, lookups, plans, sent, toRun, acts, posted, strays, crossed, hasty>>
Elsewhere(d, n) ==
    /\ <<d, n>> \in Touched /\ acts < MaxActs /\ acts' = acts + 1
    /\ tree' = [tree EXCEPT ![d] = (@ \cup {n}) \ (@ \cap {n})]
    /\ UNCHANGED <<listed, side, lead, clip, lookups, dlg, plans, posts, sent, toRun, posted, strays,
                   strayed, crossed, hasty>>
-----------------------------------------------------------------------------
DlgInit ==
    /\ tree = Held0 /\ listed = Held0
    /\ side = [i \in 1 .. 2 |-> [at |-> Start[i], sel |-> {},
                                 cur |-> IF Held0[Start[i]] = {} THEN NoName ELSE FirstOf[Held0[Start[i]]]]]
    /\ lead = 1 /\ clip = NoClip /\ lookups = {}
    /\ dlg = [k \in Kinds3 |-> Shut] /\ plans = {} /\ posts = {} /\ sent = {} /\ toRun = {}
    /\ acts = 0 /\ posted = 0 /\ strays = 0
    /\ strayed = FALSE /\ crossed = FALSE /\ hasty = FALSE

DlgNext ==
    \/ \E d \in DlgDirs : GoTo(d) \/ Relisted(d) \/ \E n \in DlgNames : Elsewhere(d, n)
    \/ \E n \in DlgNames : Pick(n) \/ Mark(n)
    \/ TabKey \/ LetGo \/ PutDown \/ TypeToken
    \/ \E op \in {"copy", "move"} : Take(op)
    \/ \E k \in Live, op \in {"copy", "move", "delete"} : Open(k, op)
    \/ \E look \in lookups : PutListed(look) \/ PutFails(look)
    \/ \E k \in Kinds3 : PlanAnswered(k) \/ Blanket(k) \/ Submit(k) \/ Dismiss(k) \/ Unmount(k)
    \/ \E k \in Kinds3, n \in DlgNames : RowAnswer(k, n)
    \/ \E r \in posts : Accepted(r) \/ Denied(r)
    \/ \E r \in toRun : JobRuns(r)

DlgSpec == DlgInit /\ [][DlgNext]_dlgVars
-----------------------------------------------------------------------------
DlgTypeOK ==
    /\ tree \in [DlgDirs -> SUBSET DlgNames] /\ listed \in [DlgDirs -> SUBSET DlgNames]
    /\ \A i \in 1 .. 2 : /\ side[i].at \in DlgDirs /\ side[i].sel \subseteq DlgNames
                         /\ side[i].cur \in DlgNames \cup {NoName}
    /\ lead \in 1 .. 2 /\ clip.names \subseteq DlgNames
    /\ \A k \in Kinds3 : dlg[k].blanket \in {"ask", "overwrite"} /\ dlg[k].rows \subseteq DlgNames
    /\ acts \in 0 .. MaxActs /\ posted \in 0 .. MaxPosts /\ strays \in 0 .. MaxStrays

\* A paste goes where its key was pressed, however long the listing of its
\* source took and wherever the pane has gone since, with names that were held
\* (putDown).
PasteGoesWhereItWasPressed ==
    \A r \in posts : r.k = "paste" => r.of.to = r.form.stood /\ r.of.names \subseteq r.form.cut.names

\* What a request was armed by, an answer or the words of a removal, was given
\* for what it names: a dialog keeps nothing from one opening to the next, and
\* what it is aimed at can only have lost names since.  A key of the panes
\* under the dialog changes its aim (strayed), and so does a second paste
\* that is listed when the dialog of the first is up (hasty).
AnsweredForThis ==
    \A r \in posts :
        LET g == r.form.given
        IN  \/ g = NoAim \/ strayed \/ hasty
            \/ /\ <<g.op, g.from, g.to>> = <<r.of.op, r.of.from, r.of.to>>
               /\ r.of.names \subseteq g.names

\* What was cut is put in one place: one accepted job moves it, unless two
\* pastes were under way at once or a dialog was answered while it left.
CutMovesOnce ==
    \A d, e \in sent :
        d.k = "paste" /\ e.k = "paste" /\ d.of.op = "move" /\ d.form.cut = e.form.cut => d = e \/ hasty

\* What is held is held until it is let go, moved, or nothing of it is left
\* where it was; something taken while a paste is under way may go with that
\* one (crossed).
HeldIsKept ==
    [][clip # NoClip /\ clip' = NoClip =>
          \/ acts' # acts \/ crossed
          \/ clip.names \cap tree[clip.from] = {}
          \/ \E d \in sent' \ sent : d.of.op = "move" /\ d.form.cut = clip]_dlgVars

\* Once a removal or a move is accepted, the pane it was started from names
\* nothing that it took, unless a key of the panes went under its dialog.
NoGhosts ==
    [][\A d \in sent' \ sent :
          d.k \in Live => strayed' \/ side'[d.pane].sel = {}]_dlgVars
=============================================================================
