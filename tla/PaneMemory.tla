----------------------------- MODULE PaneMemory -----------------------------
(***************************************************************************)
(* One pane: the reducer's memory of where it was, and the URL's record of *)
(* where it is.  A dispatch is in force at once and a write of the URL in a *)
(* transition, so the two disagree for a while; writes from outside the    *)
(* explorer reach the memory by the effect that watches the URL.  A row is *)
(* recorded with the place it was picked in.                               *)
(***************************************************************************)
EXTENDS Naturals, Sequences, SequencesExt, FiniteSets

CONSTANTS
    Hosts,
    Places,    \* the paths, a home of each host among them
    HomeOf,    \* homePath
    Listing,   \* the names of every directory, in order
    MaxTabs, MaxHist, MaxSteps

ASSUME PaneAssumption ==
    /\ HomeOf \in [Hosts -> Places] /\ MaxTabs \in Nat \ {0} /\ {MaxHist, MaxSteps} \subseteq Nat
    /\ ".." \notin ToSet(Listing)

VARIABLES
    url,    \* panes[index]: host and path
    writes, \* patches of the URL that are not in force yet
    mem,    \* PaneMemory
    seen,   \* seenUrlPath
    steps,
    astray  \* history: whether rows were kept, or a move missed, by UrlLands

paneVars == <<url, writes, mem, seen, steps, astray>>

Here     == [h |-> url.h, p |-> url.p]
Row(n)   == [name |-> n, of |-> Here]
NoRow    == [name |-> "", of |-> [h |-> "", p |-> ""]]
OnScreen    == <<"..">> \o Listing
Current  == mem.tabs[mem.tab]
Patch(h, p) == writes' = Append(writes, [h |-> h, p |-> p])
Keep     == ""
\* A gesture; as a bound, while no more than one write is on its way.
Gesture  == steps < MaxSteps /\ steps' = steps + 1 /\ Len(writes) <= 1
Moved(m) == [m EXCEPT !.sel = {}, !.cur = NoRow]

\* Mutation: the selection is kept while the pane moves.
NavigatedKept(path, push) ==
    IF path = Current THEN mem
    ELSE [mem EXCEPT !.tabs[mem.tab] = path,
                     !.hist = IF push THEN Append(@, Current) ELSE @, !.fwd = IF push THEN <<>> ELSE @]

\* navigate.
Navigated(path, push) ==
    IF path = Current THEN mem
    ELSE Moved([mem EXCEPT !.tabs[mem.tab] = path,
                           !.hist = IF push THEN Append(@, Current) ELSE @,
                           !.fwd  = IF push THEN <<>> ELSE @])
-----------------------------------------------------------------------------
(* Moving.                                                                 *)

\* go.
PaneGo(path) ==
    /\ Gesture /\ path # url.p /\ Len(mem.hist) < MaxHist
    /\ mem' = Navigated(path, TRUE) /\ Patch(Keep, path)
    /\ UNCHANGED <<url, seen, astray>>

\* openOther, bind and the rest that take a pane to another host.
PaneBind(h) ==
    /\ Gesture /\ Len(mem.hist) < MaxHist
    /\ mem' = Navigated(HomeOf[h], TRUE) /\ Patch(h, HomeOf[h])
    /\ UNCHANGED <<url, seen, astray>>

\* Mutation: the entries that are where the pane stands are spent too.
BackTargetPlain ==
    IF mem.hist = <<>> THEN <<>>
    ELSE <<[path |-> Last(mem.hist), hist |-> Front(mem.hist), fwd |-> <<url.p>> \o mem.fwd]>>

\* backTarget, as a sequence of at most one: what tops the stack and is where
\* the pane stands already is skipped.
BackTarget ==
    LET keep == {i \in DOMAIN mem.hist : mem.hist[i] # url.p}
    IN  IF keep = {} THEN <<>>
        ELSE LET i == CHOOSE i \in keep : \A j \in keep : j <= i
             IN  <<[path |-> mem.hist[i], hist |-> SubSeq(mem.hist, 1, i - 1), fwd |-> <<url.p>> \o mem.fwd]>>

\* forwardTarget.
ForwardTarget ==
    LET keep == {i \in DOMAIN mem.fwd : mem.fwd[i] # url.p}
    IN  IF keep = {} THEN <<>>
        ELSE LET i == CHOOSE i \in keep : \A j \in keep : i <= j
             IN  <<[path |-> mem.fwd[i], hist |-> Append(mem.hist, url.p),
                    fwd |-> SubSeq(mem.fwd, i + 1, Len(mem.fwd))]>>

PaneReplay(target) ==
    /\ Gesture /\ target # <<>>
    /\ Len(target[1].hist) <= MaxHist /\ Len(target[1].fwd) <= MaxHist
    /\ mem' = Moved([mem EXCEPT !.tabs[mem.tab] = target[1].path, !.hist = target[1].hist, !.fwd = target[1].fwd])
    /\ Patch(Keep, target[1].path)
    /\ UNCHANGED <<url, seen, astray>>

PaneBack    == PaneReplay(BackTarget)
PaneForward == PaneReplay(ForwardTarget)
-----------------------------------------------------------------------------
(* Tabs.                                                                   *)

PaneNewTab ==
    /\ Gesture /\ Len(mem.tabs) < MaxTabs
    /\ mem' = Moved([mem EXCEPT !.tabs = Append(@, url.p), !.tab = Len(mem.tabs) + 1])
    /\ UNCHANGED <<url, writes, seen, astray>>

PaneSelectTab(i) ==
    /\ Gesture /\ i \in DOMAIN mem.tabs
    /\ mem' = IF i = mem.tab THEN mem ELSE Moved([mem EXCEPT !.tab = i])
    /\ Patch(Keep, mem.tabs[i])
    /\ UNCHANGED <<url, seen, astray>>

\* The tab that is open once i has closed.
TabAfterClose(i) == IF i < mem.tab THEN mem.tab - 1
                    ELSE IF mem.tab <= Len(mem.tabs) - 1 THEN mem.tab ELSE Len(mem.tabs) - 1

\* closeTab: the neighbour is where the pane goes, and a background tab takes
\* nothing with it.
PaneCloseTab(i) ==
    /\ Gesture /\ i \in DOMAIN mem.tabs /\ Len(mem.tabs) > 1
    /\ LET closed == [mem EXCEPT !.tabs = RemoveAt(@, i), !.tab = TabAfterClose(i)]
       IN  IF i = mem.tab THEN mem' = Moved(closed) /\ Patch(Keep, closed.tabs[closed.tab])
           ELSE mem' = closed /\ UNCHANGED writes
    /\ UNCHANGED <<url, seen, astray>>

PaneCloseOthers(i) ==
    /\ Gesture /\ i \in DOMAIN mem.tabs /\ Len(mem.tabs) > 1
    /\ LET left == [mem EXCEPT !.tabs = <<mem.tabs[i]>>, !.tab = 1]
       IN  IF i = mem.tab THEN mem' = left /\ UNCHANGED writes
           ELSE mem' = Moved(left) /\ Patch(Keep, mem.tabs[i])
    /\ UNCHANGED <<url, seen, astray>>
-----------------------------------------------------------------------------
(* The URL.                                                                *)

\* The sidebar, a view, session restore and the browser's Back write the URL
\* and nothing else.
UrlWritten ==
    /\ Gesture
    /\ \E h \in Hosts \cup {Keep}, p \in Places : Patch(h, p)
    /\ UNCHANGED <<url, mem, seen, astray>>

\* Mutation: the effect asks whether the two disagree.
SyncedBlindly(p) == seen' = p /\ UNCHANGED mem

\* The effect: a URL that moved since it was last seen moves the memory.
Synced(p) ==
    IF p = seen THEN UNCHANGED <<seen, mem>>
    ELSE seen' = p /\ mem' = Navigated(p, FALSE)

\* The first patch is in force, or all of them in one render.  A host that
\* changes under one path, or a row picked before the path it was on is gone,
\* keeps its selection; a URL that is back where it was last seen is not seen
\* to have moved.
UrlLands ==
    /\ writes # <<>>
    /\ \E k \in {1, Len(writes)} :
        LET bound == {i \in 1 .. k : writes[i].h # Keep}
            p     == writes[k].p
        IN  /\ writes' = SubSeq(writes, k + 1, Len(writes))
            /\ url' = [h |-> IF bound = {} THEN url.h ELSE writes[CHOOSE i \in bound : \A j \in bound : j <= i].h,
                       p |-> p]
            /\ Synced(p)
            /\ astray' = [rows |-> astray.rows \/ (mem'.sel = mem.sel /\ mem.sel # {}
                                                     /\ (p = url.p \/ Current = p)),
                          tab  |-> (p = seen /\ (k > 1 \/ astray.tab))]
    /\ UNCHANGED steps
-----------------------------------------------------------------------------
(* Picking rows.                                                           *)

\* Mutation: the range is all that is on screen between the two.
RangedWhole(s) == ToSet(s)

\* `..` is a place to stand and never selected.
Ranged(s) == ToSet(s) \ {".."}

RowsNamed(names) == {Row(n) : n \in names}
At(n)   == CHOOSE i \in DOMAIN OnScreen : OnScreen[i] = n

PaneClick(n) ==
    /\ Gesture
    /\ \/ n = ".." /\ mem' = [mem EXCEPT !.cur = Row("..")]
       \/ n # ".." /\ mem' = [mem EXCEPT !.sel = {Row(n)}, !.cur = Row(n)]
       \/ /\ n # ".."
          /\ mem' = [mem EXCEPT !.sel = IF Row(n) \in @ THEN @ \ {Row(n)} ELSE @ \cup {Row(n)}, !.cur = Row(n)]
       \/ /\ n # ".." /\ mem.cur # NoRow /\ mem.cur.name \in ToSet(OnScreen)
          /\ LET a == At(mem.cur.name)
                 b == At(n)
             IN  mem' = [mem EXCEPT !.sel = RowsNamed(Ranged(SubSeq(OnScreen, IF a < b THEN a ELSE b, IF a < b THEN b ELSE a))),
                                    !.cur = Row(n)]
    /\ UNCHANGED <<url, writes, seen, astray>>

PaneMove(d) ==
    /\ Gesture
    /\ LET from == IF mem.cur = NoRow THEN 1 ELSE At(mem.cur.name) + d
           to   == IF from < 1 THEN 1 ELSE IF from > Len(OnScreen) THEN Len(OnScreen) ELSE from
           n    == OnScreen[to]
       IN  mem' = IF n = ".." THEN [mem EXCEPT !.cur = Row(n)] ELSE [mem EXCEPT !.cur = Row(n), !.sel = {Row(n)}]
    /\ UNCHANGED <<url, writes, seen, astray>>

PaneSelectAll ==
    /\ Gesture /\ mem' = [mem EXCEPT !.sel = RowsNamed(ToSet(Listing)), !.cur = IF @ = NoRow THEN Row(Listing[1]) ELSE @]
    /\ UNCHANGED <<url, writes, seen, astray>>

PaneSelectNone ==
    /\ Gesture /\ mem' = Moved(mem)
    /\ UNCHANGED <<url, writes, seen, astray>>
-----------------------------------------------------------------------------
PaneInit ==
    /\ url \in [h : Hosts, p : Places] /\ writes = <<>> /\ seen = url.p
    /\ mem = [tabs |-> <<url.p>>, tab |-> 1, hist |-> <<>>, fwd |-> <<>>, sel |-> {}, cur |-> NoRow]
    /\ steps = 0 /\ astray = [rows |-> FALSE, tab |-> FALSE]

PaneNext ==
    \/ \E p \in Places : PaneGo(p)
    \/ \E h \in Hosts : PaneBind(h)
    \/ PaneBack \/ PaneForward \/ PaneNewTab \/ UrlWritten \/ UrlLands
    \/ \E i \in 1 .. MaxTabs : PaneSelectTab(i) \/ PaneCloseTab(i) \/ PaneCloseOthers(i)
    \/ \E n \in ToSet(OnScreen) : PaneClick(n)
    \/ \E d \in {0, 1} : PaneMove(2 * d - 1)
    \/ PaneSelectAll \/ PaneSelectNone

PaneSpec == PaneInit /\ [][PaneNext]_paneVars
-----------------------------------------------------------------------------
(* Properties.                                                             *)

PaneTypeOK ==
    /\ url \in [h : Hosts, p : Places] /\ mem.tab \in DOMAIN mem.tabs /\ Len(mem.tabs) <= MaxTabs
    /\ Len(mem.hist) <= MaxHist + 1 /\ Len(mem.fwd) <= MaxHist + 1

\* "They cannot disagree": with no write on its way the open tab is where the
\* URL is, whoever wrote it and in whatever order the writes took force, unless
\* two of them in one render left the URL where it was.
TabIsWhereUrlIs == writes = <<>> /\ ~astray.tab => Current = url.p

\* `..` is never among what an operation is aimed at.
ParentIsNotSelected == \A r \in mem.sel : r.name # ".."

\* "They named rows in a directory nobody is looking at any more": what is
\* selected was picked where the pane is, with no write on its way.
SelectionIsOfHere == writes = <<>> /\ ~astray.rows => \A r \in mem.sel : r.of = Here

\* "What stops Back from spending one and going nowhere".
BackGoesSomewhere ==
    [][Len(mem'.hist) < Len(mem.hist) => mem'.tabs[mem'.tab] # url.p]_paneVars
=============================================================================
