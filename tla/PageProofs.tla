----------------------------- MODULE PageProofs -----------------------------
(* Theorems about what stands on a page: PaneMemory, for any hosts and     *)
(* places; Terminal, for any hosts, trees and lines; and PageDialogs, for  *)
(* any directories, keys and requests.                                     *)
EXTENDS PaneMemory, Terminal, PageDialogs, FiniteSetTheorems, SequenceTheorems, TLAPS

-----------------------------------------------------------------------------
(* A pane's memory.                                                        *)

\* A pane's memory by its fields, and the stacks of places in it.
MemFields == {"tabs", "tab", "hist", "fwd", "sel", "cur"}
PatchesOf == [h : Hosts \cup {Keep}, p : Places]

PaneInv ==
    /\ url.p \in Places /\ writes \in Seq(PatchesOf)
    /\ mem = [x \in MemFields |-> mem[x]]
    /\ mem.tabs \in Seq(Places) /\ mem.tab \in 1 .. Len(mem.tabs)
    /\ mem.hist \in Seq(Places) /\ mem.fwd \in Seq(Places)

LEMMA Lowest == ASSUME NEW S \in SUBSET Nat, S # {} PROVE \E n \in S : \A m \in S : n <= m
<1>1. PICK n \in S : \A m \in S : ~(<<m, n>> \in OpToRel(<, Nat))
    BY NatLessThanWellFounded, WFMin
<1>2. \A m \in S : ~(m < n)
    BY <1>1 DEF OpToRel
<1>3. QED
    BY <1>2

\* A set of positions has a last one and a first one.
LEMMA Farthest ==
    ASSUME NEW n \in Nat, NEW S \in SUBSET (1 .. n), S # {}
    PROVE  /\ \E i \in S : \A j \in S : j <= i
           /\ \E i \in S : \A j \in S : i <= j
<1> DEFINE T == {n - i : i \in S}
<1>1. S \subseteq Nat /\ \A i \in S : n - i \in Nat
    OBVIOUS
<1>2. T \in SUBSET Nat /\ T # {} /\ \A u \in T : \E i \in S : u = n - i
    BY <1>1
<1>3. \A i \in S : n - i \in T
    OBVIOUS
<1> HIDE DEF T
<1>4. PICK t \in T : \A u \in T : t <= u
    BY <1>2, Lowest
<1>5. PICK i \in S : t = n - i
    BY <1>2
<1>6. \A j \in S : j <= i
    BY <1>3, <1>4, <1>5
<1>7. \E k \in S : \A j \in S : k <= j
    BY <1>1, Lowest
<1>8. QED
    BY <1>6, <1>7

\* Where Back and Forward lead is not where the pane stands.
LEMMA TargetsAre ==
    ASSUME PaneInv, NEW t \in {BackTarget, ForwardTarget}, t # <<>>
    PROVE  /\ t[1].path \in Places /\ t[1].hist \in Seq(Places) /\ t[1].fwd \in Seq(Places)
           /\ t[1].path # url.p
<1>1. CASE t = BackTarget
    <2> DEFINE keep == {i \in DOMAIN mem.hist : mem.hist[i] # url.p}
               i == CHOOSE i \in keep : \A j \in keep : j <= i
    <2>1. keep # {} /\ t = <<[path |-> mem.hist[i], hist |-> SubSeq(mem.hist, 1, i - 1), fwd |-> <<url.p>> \o mem.fwd]>>
        BY <1>1 DEF BackTarget
    <2>2. keep \in SUBSET (1 .. Len(mem.hist)) /\ Len(mem.hist) \in Nat
        BY DEF PaneInv
    <2>3. \E k \in keep : \A j \in keep : j <= k
        BY <2>1, <2>2, Farthest
    <2>4. i \in keep
        BY <2>3
    <2> HIDE DEF i
    <2>5. i \in 1 .. Len(mem.hist) /\ mem.hist[i] \in Places /\ mem.hist[i] # url.p
        BY <2>4 DEF PaneInv
    <2>6. SubSeq(mem.hist, 1, i - 1) \in Seq(Places)
        BY <2>5, SubSeqProperties DEF PaneInv
    <2>7. <<url.p>> \o mem.fwd \in Seq(Places)
        BY DEF PaneInv
    <2>8. QED
        BY <2>1, <2>5, <2>6, <2>7
<1>2. CASE t = ForwardTarget
    <2> DEFINE keep == {i \in DOMAIN mem.fwd : mem.fwd[i] # url.p}
               i == CHOOSE i \in keep : \A j \in keep : i <= j
    <2>1. keep # {} /\ t = <<[path |-> mem.fwd[i], hist |-> Append(mem.hist, url.p),
                              fwd |-> SubSeq(mem.fwd, i + 1, Len(mem.fwd))]>>
        BY <1>2 DEF ForwardTarget
    <2>2. keep \in SUBSET (1 .. Len(mem.fwd)) /\ Len(mem.fwd) \in Nat
        BY DEF PaneInv
    <2>3. \E k \in keep : \A j \in keep : k <= j
        BY <2>1, <2>2, Farthest
    <2>4. i \in keep
        BY <2>3
    <2> HIDE DEF i
    <2>5. i \in 1 .. Len(mem.fwd) /\ mem.fwd[i] \in Places /\ mem.fwd[i] # url.p
        BY <2>4 DEF PaneInv
    <2>6. SubSeq(mem.fwd, i + 1, Len(mem.fwd)) \in Seq(Places)
        BY <2>5, SubSeqProperties DEF PaneInv
    <2>7. Append(mem.hist, url.p) \in Seq(Places)
        BY DEF PaneInv
    <2>8. QED
        BY <2>1, <2>5, <2>6, <2>7
<1>3. QED
    BY <1>1, <1>2

\* What a gesture makes of the memory, by its fields.
PaneTurn(ts, t, hs, fs) ==
    /\ ts \in Seq(Places) /\ t \in 1 .. Len(ts) /\ hs \in Seq(Places) /\ fs \in Seq(Places)
    /\ mem' = [x \in MemFields |-> mem'[x]]
    /\ mem'.tabs = ts /\ mem'.tab = t /\ mem'.hist = hs /\ mem'.fwd = fs

LEMMA PaneTurns ==
    ASSUME PaneInv, NEW ts, NEW t, NEW hs, NEW fs, PaneTurn(ts, t, hs, fs),
           url'.p \in Places, writes' \in Seq(PatchesOf)
    PROVE  PaneInv'
BY DEF PaneInv, PaneTurn

LEMMA PanePatches ==
    ASSUME PaneInv, NEW h \in Hosts \cup {Keep}, NEW p \in Places, Patch(h, p)
    PROVE  writes' \in Seq(PatchesOf)
<1>1. [h |-> h, p |-> p] \in PatchesOf
    BY DEF PatchesOf
<1>2. QED
    BY <1>1 DEF PaneInv, Patch

\* navigate: the open tab is there, and the stacks grow or stay.
LEMMA NavigatedTurn ==
    ASSUME PaneInv, NEW p \in Places, NEW b \in BOOLEAN, mem' = Navigated(p, b)
    PROVE  \E ts, hs, fs : PaneTurn(ts, mem.tab, hs, fs) /\ Len(hs) >= Len(mem.hist)
<1>1. Current \in Places
    BY DEF PaneInv, Current
<1>2. CASE p = Current
    <2>1. PaneTurn(mem.tabs, mem.tab, mem.hist, mem.fwd)
        BY <1>2 DEF PaneInv, PaneTurn, Navigated
    <2>2. Len(mem.hist) >= Len(mem.hist)
        BY DEF PaneInv
    <2>3. QED
        BY <2>1, <2>2
<1>3. CASE p # Current
    <2> DEFINE ts == [mem.tabs EXCEPT ![mem.tab] = p]
               hs == IF b THEN Append(mem.hist, Current) ELSE mem.hist
               fs == IF b THEN <<>> ELSE mem.fwd
    <2>1. mem' = [x \in MemFields |-> IF x = "tabs" THEN ts ELSE IF x = "hist" THEN hs ELSE IF x = "fwd" THEN fs
                                       ELSE IF x = "sel" THEN {} ELSE IF x = "cur" THEN NoRow ELSE mem[x]]
        BY <1>3 DEF PaneInv, Navigated, Moved, MemFields
    <2>2. ts \in Seq(Places) /\ Len(ts) = Len(mem.tabs)
        BY DEF PaneInv
    <2>3. hs \in Seq(Places) /\ fs \in Seq(Places) /\ Len(hs) >= Len(mem.hist)
        BY <1>1 DEF PaneInv
    <2> HIDE DEF ts, hs, fs
    <2>4. PaneTurn(ts, mem.tab, hs, fs)
        BY <2>1, <2>2, <2>3 DEF PaneInv, PaneTurn, MemFields
    <2>5. QED
        BY <2>3, <2>4
<1>4. QED
    BY <1>2, <1>3

\* Closing a tab leaves the others.
LEMMA TabsLeft ==
    ASSUME PaneInv, NEW i \in DOMAIN mem.tabs, Len(mem.tabs) > 1
    PROVE  /\ RemoveAt(mem.tabs, i) \in Seq(Places) /\ Len(RemoveAt(mem.tabs, i)) = Len(mem.tabs) - 1
           /\ TabAfterClose(i) \in 1 .. Len(mem.tabs) - 1
<1> DEFINE a == SubSeq(mem.tabs, 1, i - 1)
           b == SubSeq(mem.tabs, i + 1, Len(mem.tabs))
<1>1. mem.tabs \in Seq(Places) /\ Len(mem.tabs) \in Nat /\ i \in 1 .. Len(mem.tabs) /\ mem.tab \in 1 .. Len(mem.tabs)
    BY DEF PaneInv
<1>2. a \in Seq(Places) /\ Len(a) = i - 1
    BY <1>1, SubSeqProperties
<1>3. b \in Seq(Places) /\ Len(b) = Len(mem.tabs) - i
    BY <1>1, SubSeqProperties
<1>4. RemoveAt(mem.tabs, i) = a \o b
    BY DEF RemoveAt
<1> HIDE DEF a, b
<1>5. a \o b \in Seq(Places) /\ Len(a \o b) = Len(mem.tabs) - 1
    BY <1>1, <1>2, <1>3, ConcatProperties
<1>6. TabAfterClose(i) \in 1 .. Len(mem.tabs) - 1
    BY <1>1 DEF TabAfterClose
<1>7. QED
    BY <1>4, <1>5, <1>6

\* A replay goes where the target is: elsewhere than the pane stands.
LEMMA ReplayKeeps ==
    ASSUME PaneInv, NEW t \in {BackTarget, ForwardTarget}, PaneReplay(t)
    PROVE  PaneInv' /\ mem'.tabs[mem'.tab] # url.p
<1> DEFINE p == t[1].path
           ts == [mem.tabs EXCEPT ![mem.tab] = p]
<1>1. p \in Places /\ t[1].hist \in Seq(Places) /\ t[1].fwd \in Seq(Places) /\ p # url.p
    BY TargetsAre DEF PaneReplay
<1>2. mem' = [x \in MemFields |-> IF x = "tabs" THEN ts ELSE IF x = "hist" THEN t[1].hist
                                   ELSE IF x = "fwd" THEN t[1].fwd
                                   ELSE IF x = "sel" THEN {} ELSE IF x = "cur" THEN NoRow ELSE mem[x]]
    BY DEF PaneInv, PaneReplay, Moved, MemFields
<1>3. ts \in Seq(Places) /\ Len(ts) = Len(mem.tabs) /\ ts[mem.tab] = p /\ mem.tab \in 1 .. Len(mem.tabs)
    BY <1>1 DEF PaneInv
<1>4. Keep \in Hosts \cup {Keep} /\ Patch(Keep, p) /\ url' = url
    BY DEF PaneReplay
<1>5. writes' \in Seq(PatchesOf)
    BY <1>1, <1>4, PanePatches
<1> HIDE DEF p, ts
<1>6. PaneTurn(ts, mem.tab, t[1].hist, t[1].fwd)
    BY <1>1, <1>2, <1>3 DEF PaneTurn, MemFields
<1>7. url'.p \in Places
    BY <1>4 DEF PaneInv
<1>8. PaneInv'
    BY <1>5, <1>6, <1>7, PaneTurns
<1>9. QED
    BY <1>1, <1>3, <1>6, <1>8 DEF PaneTurn

\* A key or a click that leaves the stacks of Back and Forward as they are.
PaneStays == Len(mem'.hist) >= Len(mem.hist)

LEMMA GoKeeps ==
    ASSUME PaneInv, \/ \E p \in Places : PaneGo(p)
                    \/ \E h \in Hosts : PaneBind(h)
    PROVE  PaneInv' /\ PaneStays
<1>1. PICK p \in Places, h \in Hosts \cup {Keep} : mem' = Navigated(p, TRUE) /\ Patch(h, p) /\ url' = url
    <2>1. CASE \E p \in Places : PaneGo(p)
        BY <2>1 DEF PaneGo
    <2>2. CASE \E h \in Hosts : PaneBind(h)
        BY <2>2, PaneAssumption DEF PaneBind
    <2>3. QED
        BY <2>1, <2>2
<1>2. PICK ts, hs, fs : PaneTurn(ts, mem.tab, hs, fs) /\ Len(hs) >= Len(mem.hist)
    BY <1>1, NavigatedTurn
<1>3. writes' \in Seq(PatchesOf)
    BY <1>1, PanePatches
<1>4. url'.p \in Places
    BY <1>1 DEF PaneInv
<1>5. PaneInv'
    BY <1>2, <1>3, <1>4, PaneTurns
<1>6. QED
    BY <1>2, <1>5 DEF PaneTurn, PaneStays

\* What the tabs and the rows picked are leaves the stacks.
LEMMA TabTurn ==
    ASSUME PaneInv, NEW ts \in Seq(Places), NEW t \in 1 .. Len(ts),
           mem' = [x \in MemFields |-> IF x = "tabs" THEN ts ELSE IF x = "tab" THEN t
                                       ELSE IF x = "sel" THEN mem'.sel ELSE IF x = "cur" THEN mem'.cur ELSE mem[x]],
           url'.p \in Places, writes' \in Seq(PatchesOf)
    PROVE  PaneInv' /\ PaneStays
<1>1. PaneTurn(ts, t, mem.hist, mem.fwd)
    BY DEF PaneTurn, PaneInv, MemFields
<1>2. PaneInv'
    BY <1>1, PaneTurns
<1>3. QED
    BY <1>1, <1>2 DEF PaneTurn, PaneStays, PaneInv

\* The tabs: the stacks stay.
LEMMA TabsKeep ==
    ASSUME PaneInv, \/ PaneNewTab
                    \/ \E i \in 1 .. MaxTabs : PaneSelectTab(i) \/ PaneCloseTab(i) \/ PaneCloseOthers(i)
    PROVE  PaneInv' /\ PaneStays
<1>1. url'.p \in Places
    BY DEF PaneInv, PaneNewTab, PaneSelectTab, PaneCloseTab, PaneCloseOthers
<1>4. CASE PaneNewTab
    <2>1. Append(mem.tabs, url.p) \in Seq(Places) /\ Len(mem.tabs) + 1 \in 1 .. Len(Append(mem.tabs, url.p))
        BY DEF PaneInv
    <2>2. mem' = [x \in MemFields |-> IF x = "tabs" THEN Append(mem.tabs, url.p) ELSE IF x = "tab" THEN Len(mem.tabs) + 1
                                       ELSE IF x = "sel" THEN mem'.sel ELSE IF x = "cur" THEN mem'.cur ELSE mem[x]]
        BY <1>4 DEF PaneNewTab, Moved, PaneInv, MemFields
    <2>3. writes' \in Seq(PatchesOf)
        BY <1>4 DEF PaneNewTab, PaneInv
    <2>4. QED
        BY <2>1, <2>2, <2>3, <1>1, TabTurn
<1>5. ASSUME NEW i \in 1 .. MaxTabs, PaneSelectTab(i) PROVE PaneInv' /\ PaneStays
    <2>1. i \in 1 .. Len(mem.tabs) /\ mem.tabs[i] \in Places /\ Patch(Keep, mem.tabs[i])
        BY <1>5 DEF PaneSelectTab, PaneInv
    <2>2. writes' \in Seq(PatchesOf)
        BY <2>1, PanePatches
    <2>3. mem' = [x \in MemFields |-> IF x = "tab" THEN i ELSE IF x = "sel" THEN mem'.sel
                                       ELSE IF x = "cur" THEN mem'.cur ELSE mem[x]]
        BY <1>5 DEF PaneSelectTab, Moved, PaneInv, MemFields
    <2>4. mem' = [x \in MemFields |-> IF x = "tabs" THEN mem.tabs ELSE IF x = "tab" THEN i
                                       ELSE IF x = "sel" THEN mem'.sel ELSE IF x = "cur" THEN mem'.cur ELSE mem[x]]
        BY <2>3 DEF PaneInv, MemFields
    <2>5. mem.tabs \in Seq(Places)
        BY DEF PaneInv
    <2>6. QED
        BY <2>1, <2>2, <2>4, <2>5, <1>1, TabTurn
<1>6. ASSUME NEW i \in 1 .. MaxTabs, PaneCloseTab(i) PROVE PaneInv' /\ PaneStays
    <2> DEFINE ts == RemoveAt(mem.tabs, i)
               t  == TabAfterClose(i)
    <2>1. ts \in Seq(Places) /\ t \in 1 .. Len(ts)
        BY <1>6, TabsLeft DEF PaneCloseTab
    <2> HIDE DEF ts, t
    <2> DEFINE closed == [mem EXCEPT !.tabs = ts, !.tab = t]
    <2>2. closed = [x \in MemFields |-> IF x = "tabs" THEN ts ELSE IF x = "tab" THEN t ELSE mem[x]]
        BY DEF PaneInv, MemFields
    <2>3. closed.tabs = ts /\ closed.tab = t
        BY <2>2 DEF MemFields
    <2>4. \/ mem' = Moved(closed) /\ Patch(Keep, closed.tabs[closed.tab])
          \/ mem' = closed /\ UNCHANGED writes
        BY <1>6 DEF PaneCloseTab, ts, t
    <2> HIDE DEF closed
    <2>5. writes' \in Seq(PatchesOf)
        <3>1. CASE Patch(Keep, closed.tabs[closed.tab])
            <4>1. ts[t] \in Places
                BY <2>1
            <4>2. Patch(Keep, ts[t])
                BY <3>1, <2>3
            <4>3. QED
                BY <4>1, <4>2, PanePatches
        <3>2. CASE UNCHANGED writes
            BY <3>2 DEF PaneInv
        <3>3. QED
            BY <2>4, <3>1, <3>2
    <2>6. mem' = [x \in MemFields |-> IF x = "tabs" THEN ts ELSE IF x = "tab" THEN t
                                       ELSE IF x = "sel" THEN mem'.sel ELSE IF x = "cur" THEN mem'.cur ELSE mem[x]]
        BY <2>2, <2>4 DEF Moved, MemFields
    <2>7. QED
        BY <2>1, <2>5, <2>6, <1>1, TabTurn
<1>7. ASSUME NEW i \in 1 .. MaxTabs, PaneCloseOthers(i) PROVE PaneInv' /\ PaneStays
    <2> DEFINE ts == <<mem.tabs[i]>>
    <2>0. i \in DOMAIN mem.tabs /\ mem.tabs \in Seq(Places)
        BY <1>7 DEF PaneCloseOthers, PaneInv
    <2>1. mem.tabs[i] \in Places /\ ts \in Seq(Places) /\ 1 \in 1 .. Len(ts)
        BY <2>0
    <2>2. \/ UNCHANGED writes
          \/ Patch(Keep, mem.tabs[i])
        BY <1>7 DEF PaneCloseOthers
    <2>3. writes' \in Seq(PatchesOf)
        BY <2>1, <2>2, PanePatches DEF PaneInv
    <2>4. mem' = [x \in MemFields |-> IF x = "tabs" THEN ts ELSE IF x = "tab" THEN 1
                                       ELSE IF x = "sel" THEN mem'.sel ELSE IF x = "cur" THEN mem'.cur ELSE mem[x]]
        BY <1>7 DEF PaneCloseOthers, Moved, PaneInv, MemFields
    <2> HIDE DEF ts
    <2>5. QED
        BY <2>1, <2>3, <2>4, <1>1, TabTurn
<1>8. QED
    BY <1>4, <1>5, <1>6, <1>7

\* The URL: a write that lands moves the open tab.
LEMMA UrlKeeps ==
    ASSUME PaneInv, UrlWritten \/ UrlLands
    PROVE  PaneInv' /\ PaneStays
<1>1. CASE UrlWritten
    <2>1. writes' \in Seq(PatchesOf)
        BY <1>1, PanePatches DEF UrlWritten
    <2>2. QED
        BY <1>1, <2>1 DEF UrlWritten, PaneInv, PaneStays
<1>2. CASE UrlLands
    <2>1. PICK k \in {1, Len(writes)} :
            /\ writes' = SubSeq(writes, k + 1, Len(writes))
            /\ url'.p = writes[k].p /\ Synced(writes[k].p)
        BY <1>2 DEF UrlLands
    <2>2. k \in 1 .. Len(writes) /\ writes[k] \in PatchesOf
        <3>1. Len(writes) \in 1 .. Len(writes)
            BY <1>2 DEF UrlLands, PaneInv
        <3>2. k \in 1 .. Len(writes)
            BY <3>1, <2>1 DEF PaneInv
        <3>3. QED
            BY <3>2 DEF PaneInv
    <2>3. writes' \in Seq(PatchesOf)
        BY <2>1, <2>2, SubSeqProperties DEF PaneInv
    <2>4. writes[k].p \in Places
        BY <2>2 DEF PatchesOf
    <2>5. CASE UNCHANGED mem
        BY <2>1, <2>3, <2>4, <2>5 DEF PaneInv, PaneStays
    <2>6. CASE mem' = Navigated(writes[k].p, FALSE)
        <3>1. PICK ts, hs, fs : PaneTurn(ts, mem.tab, hs, fs) /\ Len(hs) >= Len(mem.hist)
            BY <2>4, <2>6, NavigatedTurn
        <3>2. PaneInv'
            BY <3>1, <2>1, <2>3, <2>4, PaneTurns
        <3>3. QED
            BY <3>1, <3>2 DEF PaneTurn, PaneStays
    <2>7. QED
        BY <2>1, <2>5, <2>6 DEF Synced
<1>3. QED
    BY <1>1, <1>2

\* Picking rows.
LEMMA PicksKeep ==
    ASSUME PaneInv,
           \/ \E n \in ToSet(OnScreen) : PaneClick(n)
           \/ \E d \in {0, 1} : PaneMove(2 * d - 1)
           \/ PaneSelectAll \/ PaneSelectNone
    PROVE  PaneInv' /\ PaneStays
<1>1. UNCHANGED <<url, writes>>
    BY DEF PaneClick, PaneMove, PaneSelectAll, PaneSelectNone
<1>2. \E s, c : mem' = [mem EXCEPT !.sel = s, !.cur = c]
    <2>1. \A s : [mem EXCEPT !.sel = s] = [mem EXCEPT !.sel = s, !.cur = mem.cur]
        BY DEF PaneInv, MemFields
    <2>2. \A c : [mem EXCEPT !.cur = c] = [mem EXCEPT !.sel = mem.sel, !.cur = c]
        BY DEF PaneInv, MemFields
    <2>3. CASE \E n \in ToSet(OnScreen) : PaneClick(n)
        BY <2>2, <2>3 DEF PaneClick
    <2>4. CASE \E d \in {0, 1} : PaneMove(2 * d - 1)
        <3>1. PICK d : PaneMove(d)
            BY <2>4
        <3>2. \E n : mem' = IF n = ".." THEN [mem EXCEPT !.cur = Row(n)] ELSE [mem EXCEPT !.cur = Row(n), !.sel = {Row(n)}]
            BY <3>1 DEF PaneMove
        <3>3. \A s, c : [mem EXCEPT !.cur = c, !.sel = s] = [mem EXCEPT !.sel = s, !.cur = c]
            BY DEF PaneInv, MemFields
        <3>4. PICK n : mem' = IF n = ".." THEN [mem EXCEPT !.cur = Row(n)] ELSE [mem EXCEPT !.cur = Row(n), !.sel = {Row(n)}]
            BY <3>2
        <3>5. CASE n = ".."
            BY <3>4, <3>5, <2>2
        <3>6. CASE n # ".."
            BY <3>4, <3>6, <3>3
        <3>7. QED
            BY <3>5, <3>6
    <2>5. CASE PaneSelectAll \/ PaneSelectNone
        BY <2>5 DEF PaneSelectAll, PaneSelectNone, Moved
    <2>6. QED
        BY <2>3, <2>4, <2>5
<1>3. mem' = [x \in MemFields |-> IF x = "sel" THEN mem'.sel ELSE IF x = "cur" THEN mem'.cur ELSE mem[x]]
    BY <1>2 DEF PaneInv, MemFields
<1>4. PaneTurn(mem.tabs, mem.tab, mem.hist, mem.fwd)
    BY <1>3 DEF PaneTurn, PaneInv, MemFields
<1>5. url'.p \in Places /\ writes' \in Seq(PatchesOf)
    BY <1>1 DEF PaneInv
<1>6. PaneInv'
    BY <1>4, <1>5, PaneTurns
<1>7. QED
    BY <1>4, <1>6 DEF PaneTurn, PaneStays, PaneInv

LEMMA PaneStart == PaneInit => PaneInv
<1> SUFFICES ASSUME PaneInit PROVE PaneInv
    OBVIOUS
<1> DEFINE m == [tabs |-> <<url.p>>, tab |-> 1, hist |-> <<>>, fwd |-> <<>>, sel |-> {}, cur |-> NoRow]
<1>1. url.p \in Places /\ mem = m /\ writes = <<>>
    BY DEF PaneInit
<1>2. m = [x \in MemFields |-> m[x]]
    BY DEF MemFields
<1>3. <<url.p>> \in Seq(Places) /\ 1 \in 1 .. Len(<<url.p>>)
    BY <1>1
<1>4. \A S : <<>> \in Seq(S)
    OBVIOUS
<1>5. m.tabs = <<url.p>> /\ m.tab = 1 /\ m.hist = <<>> /\ m.fwd = <<>>
    OBVIOUS
<1> HIDE DEF m
<1>6. QED
    BY <1>1, <1>2, <1>3, <1>4, <1>5 DEF PaneInv

LEMMA PaneKeeps ==
    PaneInv /\ [PaneNext]_paneVars => PaneInv' /\ (Len(mem'.hist) < Len(mem.hist) => mem'.tabs[mem'.tab] # url.p)
<1> SUFFICES ASSUME PaneInv, [PaneNext]_paneVars
             PROVE  PaneInv' /\ (PaneStays \/ mem'.tabs[mem'.tab] # url.p)
    BY DEF PaneStays, PaneInv
<1>1. CASE UNCHANGED paneVars
    BY <1>1 DEF PaneInv, PaneStays, paneVars
<1>2. CASE PaneBack \/ PaneForward
    BY <1>2, ReplayKeeps DEF PaneBack, PaneForward
<1>3. CASE PaneNext /\ ~(PaneBack \/ PaneForward)
    BY <1>3, GoKeeps, TabsKeep, UrlKeeps, PicksKeep DEF PaneNext
<1>4. QED
    BY <1>1, <1>2, <1>3
-----------------------------------------------------------------------------
(* Where a pane is.                                                        *)

\* With every write on its way to where the URL is, or none, the open tab is
\* there.
TabAgrees == ~astray.tab /\ (\A i \in DOMAIN writes : writes[i].p = url.p) => Current = url.p

\* What is selected was picked here, and is no parent.
RowsAgree == (~astray.rows => \A r \in mem.sel : r.of = Here) /\ ParentIsNotSelected

\* The stacks and the tabs within their bounds.
PaneRoom == Len(mem.tabs) <= MaxTabs /\ Len(mem.hist) <= MaxHist + 1 /\ Len(mem.fwd) <= MaxHist + 1

HereInv ==
    /\ PaneInv /\ url \in [h : Hosts, p : Places] /\ seen = url.p
    /\ TabAgrees /\ RowsAgree /\ PaneRoom

LEMMA HereStart == PaneInit => HereInv
<1> SUFFICES ASSUME PaneInit PROVE HereInv
    OBVIOUS
<1>1. PaneInv
    BY PaneStart
<1>2. mem.tabs = <<url.p>> /\ mem.tab = 1 /\ mem.hist = <<>> /\ mem.fwd = <<>> /\ mem.sel = {} /\ writes = <<>>
    BY DEF PaneInit
<1>3. TabAgrees /\ RowsAgree
    BY <1>2 DEF TabAgrees, RowsAgree, Current, ParentIsNotSelected
<1>4. PaneRoom
    BY <1>2, PaneAssumption DEF PaneRoom
<1>5. QED
    BY <1>1, <1>3, <1>4 DEF HereInv, PaneInit

\* What a patch on its way adds to the writes: where they all agree, it does.
LEMMA PatchedLast ==
    ASSUME PaneInv, NEW h, NEW p, Patch(h, p)
    PROVE  /\ (\A i \in DOMAIN writes' : writes'[i].p = url.p) => p = url.p
           /\ (\A i \in DOMAIN writes' : writes'[i].p = url.p) => \A i \in DOMAIN writes : writes[i].p = url.p
<1> DEFINE w == [h |-> h, p |-> p]
<1>1. writes' = Append(writes, w) /\ writes \in Seq(PatchesOf)
    BY DEF Patch, PaneInv
<1>2. w.p = p
    OBVIOUS
<1> HIDE DEF w
<1>3. /\ DOMAIN writes' = 1 .. Len(writes) + 1 /\ DOMAIN writes = 1 .. Len(writes) /\ Len(writes) \in Nat
      /\ writes'[Len(writes) + 1] = w
      /\ \A i \in DOMAIN writes : writes'[i] = writes[i]
    BY <1>1
<1>4. QED
    BY <1>2, <1>3

\* A gesture that moves the pane with a patch, or moves it nowhere, and picks
\* no row.
LEMMA HereMoves ==
    ASSUME HereInv, PaneInv', UNCHANGED <<url, seen, astray>>, PaneRoom', mem'.sel \subseteq mem.sel,
           \/ \E h, p : Patch(h, p) /\ Current' = p
           \/ Current' \in {Current, url.p} /\ UNCHANGED writes
    PROVE  HereInv'
<1>1. RowsAgree'
    BY DEF HereInv, RowsAgree, Here, ParentIsNotSelected
<1>2. TabAgrees'
    <2>1. CASE \E h, p : Patch(h, p) /\ Current' = p
        <3>1. PICK h, p : Patch(h, p) /\ Current' = p
            BY <2>1
        <3>2. (\A i \in DOMAIN writes' : writes'[i].p = url.p) => p = url.p
            BY <3>1, PatchedLast DEF HereInv
        <3>3. QED
            BY <3>1, <3>2 DEF TabAgrees
    <2>2. CASE Current' \in {Current, url.p} /\ UNCHANGED writes
        BY <2>2 DEF HereInv, TabAgrees
    <2>3. QED
        BY <2>1, <2>2
<1>3. QED
    BY <1>1, <1>2 DEF HereInv

\* navigate: the open tab is at the path.
LEMMA NavigatedHere ==
    ASSUME PaneInv, NEW p \in Places, NEW b \in BOOLEAN, mem' = Navigated(p, b)
    PROVE  /\ Current' = p /\ (p = Current \/ mem'.sel = {}) /\ mem'.sel \subseteq mem.sel
           /\ Len(mem'.tabs) = Len(mem.tabs) /\ Len(mem'.fwd) <= Len(mem.fwd)
           /\ Len(mem'.hist) <= (IF b THEN Len(mem.hist) + 1 ELSE Len(mem.hist))
<1>1. Current \in Places
    BY DEF PaneInv, Current
<1>2. CASE p = Current
    <2>1. mem' = mem
        BY <1>2 DEF Navigated
    <2>2. QED
        BY <1>2, <2>1 DEF PaneInv, Current
<1>3. CASE p # Current
    <2> DEFINE ts == [mem.tabs EXCEPT ![mem.tab] = p]
               hs == IF b THEN Append(mem.hist, Current) ELSE mem.hist
               fs == IF b THEN <<>> ELSE mem.fwd
    <2>1. mem' = [x \in MemFields |-> IF x = "tabs" THEN ts ELSE IF x = "hist" THEN hs ELSE IF x = "fwd" THEN fs
                                       ELSE IF x = "sel" THEN {} ELSE IF x = "cur" THEN NoRow ELSE mem[x]]
        BY <1>3 DEF PaneInv, Navigated, Moved, MemFields
    <2>2. ts[mem.tab] = p /\ Len(ts) = Len(mem.tabs)
        BY DEF PaneInv
    <2>3. Len(fs) <= Len(mem.fwd) /\ Len(hs) <= (IF b THEN Len(mem.hist) + 1 ELSE Len(mem.hist))
        BY <1>1 DEF PaneInv
    <2> HIDE DEF ts, hs, fs
    <2>4. mem'.tabs = ts /\ mem'.tab = mem.tab /\ mem'.hist = hs /\ mem'.fwd = fs /\ mem'.sel = {}
        BY <2>1 DEF MemFields
    <2>5. QED
        BY <2>2, <2>3, <2>4 DEF Current
<1>4. QED
    BY <1>2, <1>3

LEMMA HereGoes ==
    ASSUME HereInv, PaneInv', \/ \E p \in Places : PaneGo(p)
                              \/ \E h \in Hosts : PaneBind(h)
    PROVE  HereInv'
<1>1. PICK p \in Places, h \in Hosts \cup {Keep} : mem' = Navigated(p, TRUE) /\ Patch(h, p)
    <2>1. CASE \E p \in Places : PaneGo(p)
        BY <2>1 DEF PaneGo
    <2>2. CASE \E h \in Hosts : PaneBind(h)
        BY <2>2, PaneAssumption DEF PaneBind
    <2>3. QED
        BY <2>1, <2>2
<1>2. UNCHANGED <<url, seen, astray>> /\ Len(mem.hist) < MaxHist
    BY DEF PaneGo, PaneBind
<1>3. /\ Current' = p /\ mem'.sel \subseteq mem.sel /\ Len(mem'.tabs) = Len(mem.tabs)
      /\ Len(mem'.fwd) <= Len(mem.fwd) /\ Len(mem'.hist) <= Len(mem.hist) + 1
    BY <1>1, NavigatedHere DEF HereInv
<1>4. PaneRoom'
    BY <1>2, <1>3, PaneAssumption DEF HereInv, PaneRoom, PaneInv
<1>5. QED
    BY <1>1, <1>2, <1>3, <1>4, HereMoves

LEMMA HereReplays ==
    ASSUME HereInv, PaneInv', NEW t \in {BackTarget, ForwardTarget}, PaneReplay(t) PROVE HereInv'
<1> DEFINE p == t[1].path
           ts == [mem.tabs EXCEPT ![mem.tab] = p]
<1>1. UNCHANGED <<url, seen, astray>> /\ Patch(Keep, p) /\ Len(t[1].hist) <= MaxHist /\ Len(t[1].fwd) <= MaxHist
    BY DEF PaneReplay
<1>2. mem' = [x \in MemFields |-> IF x = "tabs" THEN ts ELSE IF x = "hist" THEN t[1].hist
                                   ELSE IF x = "fwd" THEN t[1].fwd
                                   ELSE IF x = "sel" THEN {} ELSE IF x = "cur" THEN NoRow ELSE mem[x]]
    BY DEF HereInv, PaneInv, PaneReplay, Moved, MemFields
<1>3. ts[mem.tab] = p /\ Len(ts) = Len(mem.tabs)
    BY DEF HereInv, PaneInv
<1> HIDE DEF p, ts
<1>4. /\ mem'.tabs = ts /\ mem'.tab = mem.tab /\ mem'.hist = t[1].hist /\ mem'.fwd = t[1].fwd /\ mem'.sel = {}
    BY <1>2 DEF MemFields
<1>5. Current' = p
    BY <1>3, <1>4 DEF Current
<1>6. PaneRoom'
    BY <1>1, <1>3, <1>4, PaneAssumption DEF HereInv, PaneRoom, PaneInv
<1>7. QED
    BY <1>1, <1>4, <1>5, <1>6, HereMoves

\* Closing a tab in the background leaves the open one.
LEMMA OpenTabStays ==
    ASSUME PaneInv, NEW i \in DOMAIN mem.tabs, Len(mem.tabs) > 1, i # mem.tab
    PROVE  RemoveAt(mem.tabs, i)[TabAfterClose(i)] = Current
<1> DEFINE a == SubSeq(mem.tabs, 1, i - 1)
           b == SubSeq(mem.tabs, i + 1, Len(mem.tabs))
<1>1. mem.tabs \in Seq(Places) /\ Len(mem.tabs) \in Nat /\ i \in 1 .. Len(mem.tabs) /\ mem.tab \in 1 .. Len(mem.tabs)
    BY DEF PaneInv
<1>2. a \in Seq(Places) /\ Len(a) = i - 1 /\ \A j \in 1 .. i - 1 : a[j] = mem.tabs[j]
    BY <1>1, SubSeqProperties
<1>3. /\ b \in Seq(Places) /\ Len(b) = Len(mem.tabs) - i
      /\ \A j \in 1 .. Len(mem.tabs) - i : b[j] = mem.tabs[i + j]
    BY <1>1, SubSeqProperties
<1>4. RemoveAt(mem.tabs, i) = a \o b
    BY DEF RemoveAt
<1> HIDE DEF a, b
<1>5. CASE i < mem.tab
    <2>1. TabAfterClose(i) = mem.tab - 1 /\ mem.tab - i \in 1 .. Len(b)
        BY <1>1, <1>3, <1>5 DEF TabAfterClose
    <2> DEFINE j == mem.tab - 1
    <2>6. j \in 1 .. Len(a) + Len(b) /\ j > Len(a)
        <3> DEFINE t == mem.tab
                   m == Len(mem.tabs)
                   la == Len(a)
                   lb == Len(b)
        <3>1. la = i - 1 /\ lb = m - i
            BY <1>2, <1>3
        <3>2. m \in Nat /\ i \in 1 .. m /\ t \in 1 .. m /\ i < t /\ j = t - 1
            BY <1>1, <1>5
        <3> HIDE DEF t, m, la, lb, j
        <3>3. j \in 1 .. la + lb /\ j > la
            BY <3>1, <3>2
        <3>4. QED
            BY <3>3 DEF la, lb
    <2>2. (a \o b)[mem.tab - 1] = b[(mem.tab - 1) - Len(a)]
        <3> HIDE DEF j
        <3>3. \A k \in 1 .. Len(a) + Len(b) : (a \o b)[k] = IF k <= Len(a) THEN a[k] ELSE b[k - Len(a)]
            BY <1>2, <1>3, ConcatProperties
        <3>4. ~(j <= Len(a))
            BY <1>1, <1>2, <1>3, <2>6
        <3>1. (a \o b)[j] = b[j - Len(a)]
            BY <2>6, <3>3, <3>4
        <3>2. QED
            BY <3>1 DEF j
    <2>3. (mem.tab - 1) - Len(a) = mem.tab - i /\ i + (mem.tab - i) = mem.tab
        BY <1>1, <1>2, <1>5
    <2>4. b[mem.tab - i] = mem.tabs[mem.tab]
        <3>1. b[mem.tab - i] = mem.tabs[i + (mem.tab - i)]
            BY <1>3, <2>1
        <3>2. QED
            BY <2>3, <3>1
    <2>5. QED
        BY <1>4, <2>1, <2>2, <2>3, <2>4 DEF Current
<1>6. CASE mem.tab < i
    <2>1. TabAfterClose(i) = mem.tab /\ mem.tab \in 1 .. Len(a)
        BY <1>1, <1>2, <1>6 DEF TabAfterClose
    <2>2. (a \o b)[mem.tab] = a[mem.tab]
        BY <1>1, <1>2, <1>3, <2>1
    <2>3. QED
        BY <1>1, <1>2, <1>4, <2>1, <2>2 DEF Current
<1>7. QED
    BY <1>1, <1>5, <1>6

LEMMA HereTabs ==
    ASSUME HereInv, PaneInv', \/ PaneNewTab
                    \/ \E i \in 1 .. MaxTabs : PaneSelectTab(i) \/ PaneCloseTab(i) \/ PaneCloseOthers(i)
    PROVE  HereInv'
<1>1. UNCHANGED <<url, seen, astray>>
    BY DEF PaneNewTab, PaneSelectTab, PaneCloseTab, PaneCloseOthers
<1>2. /\ mem = [x \in MemFields |-> mem[x]] /\ mem.tabs \in Seq(Places) /\ mem.tab \in 1 .. Len(mem.tabs)
      /\ MaxTabs \in Nat \ {0} /\ Len(mem.tabs) <= MaxTabs
    BY PaneAssumption DEF HereInv, PaneInv, PaneRoom
<1>3. ASSUME NEW ts \in Seq(Places), NEW t, Len(ts) <= MaxTabs, ts[t] = Current',
             mem' = [x \in MemFields |-> IF x = "tabs" THEN ts ELSE IF x = "tab" THEN t
                                         ELSE IF x = "sel" THEN mem'.sel ELSE IF x = "cur" THEN mem'.cur ELSE mem[x]],
             mem'.sel \subseteq mem.sel,
             \/ Patch(Keep, ts[t])
             \/ ts[t] \in {Current, url.p} /\ UNCHANGED writes
      PROVE  HereInv'
    <2>1. PaneRoom'
        BY <1>3 DEF HereInv, PaneRoom, MemFields
    <2>2. QED
        BY <1>1, <1>3, <2>1, HereMoves
<1>4. CASE PaneNewTab
    <2> DEFINE ts == Append(mem.tabs, url.p)
               t == Len(mem.tabs) + 1
    <2>1. mem' = [x \in MemFields |-> IF x = "tabs" THEN ts ELSE IF x = "tab" THEN t
                                       ELSE IF x = "sel" THEN {} ELSE IF x = "cur" THEN NoRow ELSE mem[x]]
        BY <1>2, <1>4 DEF PaneNewTab, Moved, MemFields
    <2>6. url.p \in Places /\ Len(mem.tabs) < MaxTabs
        BY <1>4 DEF PaneNewTab, HereInv, PaneInv
    <2>2. ts \in Seq(Places) /\ Len(ts) <= MaxTabs /\ ts[t] = url.p
        BY <1>2, <2>6
    <2> HIDE DEF ts, t
    <2>3. mem'.sel = {} /\ mem'.cur = NoRow /\ Current' = ts[t]
        BY <2>1 DEF MemFields, Current
    <2>4. UNCHANGED writes
        BY <1>4 DEF PaneNewTab
    <2>5. QED
        BY <1>3, <2>1, <2>2, <2>3, <2>4
<1>5. ASSUME NEW i \in 1 .. MaxTabs, PaneSelectTab(i) PROVE HereInv'
    <2>1. i \in DOMAIN mem.tabs /\ Patch(Keep, mem.tabs[i]) /\ (mem' = IF i = mem.tab THEN mem ELSE Moved([mem EXCEPT !.tab = i]))
        BY <1>5 DEF PaneSelectTab
    <2>2. /\ mem' = [x \in MemFields |-> IF x = "tabs" THEN mem.tabs ELSE IF x = "tab" THEN i
                                         ELSE IF x = "sel" THEN mem'.sel ELSE IF x = "cur" THEN mem'.cur ELSE mem[x]]
          /\ mem'.sel \subseteq mem.sel
        <3>1. CASE i = mem.tab
            BY <1>2, <2>1, <3>1 DEF MemFields
        <3>2. CASE i # mem.tab
            BY <1>2, <2>1, <3>2 DEF Moved, MemFields
        <3>3. QED
            BY <3>1, <3>2
    <2>3. Current' = mem.tabs[i]
        BY <2>2 DEF MemFields, Current
    <2>4. QED
        BY <1>2, <1>3, <2>1, <2>2, <2>3
<1>6. ASSUME NEW i \in 1 .. MaxTabs, PaneCloseTab(i) PROVE HereInv'
    <2> DEFINE ts == RemoveAt(mem.tabs, i)
               t  == TabAfterClose(i)
    <2>1. ts \in Seq(Places) /\ Len(ts) = Len(mem.tabs) - 1 /\ (i # mem.tab => ts[t] = Current)
        BY <1>6, TabsLeft, OpenTabStays DEF PaneCloseTab, HereInv
    <2> DEFINE closed == [mem EXCEPT !.tabs = ts, !.tab = t]
    <2>2. \/ mem' = Moved(closed) /\ Patch(Keep, closed.tabs[closed.tab])
          \/ i # mem.tab /\ mem' = closed /\ UNCHANGED writes
        BY <1>6 DEF PaneCloseTab
    <2> HIDE DEF ts, t
    <2>3. closed = [x \in MemFields |-> IF x = "tabs" THEN ts ELSE IF x = "tab" THEN t ELSE mem[x]]
        BY <1>2 DEF MemFields
    <2>4. closed.tabs = ts /\ closed.tab = t
        BY <2>3 DEF MemFields
    <2> HIDE DEF closed
    <2>5. /\ mem' = [x \in MemFields |-> IF x = "tabs" THEN ts ELSE IF x = "tab" THEN t
                                         ELSE IF x = "sel" THEN mem'.sel ELSE IF x = "cur" THEN mem'.cur ELSE mem[x]]
          /\ mem'.sel \subseteq mem.sel
        BY <2>2, <2>3 DEF Moved, MemFields
    <2>6. Current' = ts[t] /\ Len(ts) <= MaxTabs
        BY <1>2, <2>1, <2>5 DEF MemFields, Current
    <2>7. Patch(Keep, ts[t]) \/ (ts[t] \in {Current, url.p} /\ UNCHANGED writes)
        BY <2>1, <2>2, <2>4
    <2>8. QED
        BY <1>3, <2>1, <2>5, <2>6, <2>7
<1>7. ASSUME NEW i \in 1 .. MaxTabs, PaneCloseOthers(i) PROVE HereInv'
    <2> DEFINE ts == <<mem.tabs[i]>>
               left == [mem EXCEPT !.tabs = ts, !.tab = 1]
    <2>9. i \in DOMAIN mem.tabs
        BY <1>7 DEF PaneCloseOthers
    <2>1. mem.tabs[i] \in Places
        BY <1>2, <2>9
    <2>2. ts \in Seq(Places) /\ Len(ts) <= MaxTabs /\ ts[1] = mem.tabs[i]
        BY <1>2, <2>1
    <2>3. \/ i = mem.tab /\ mem' = left /\ UNCHANGED writes
          \/ mem' = Moved(left) /\ Patch(Keep, ts[1])
        BY <1>7 DEF PaneCloseOthers
    <2> HIDE DEF ts
    <2>4. left = [x \in MemFields |-> IF x = "tabs" THEN ts ELSE IF x = "tab" THEN 1 ELSE mem[x]]
        BY <1>2 DEF MemFields
    <2> HIDE DEF left
    <2>5. /\ mem' = [x \in MemFields |-> IF x = "tabs" THEN ts ELSE IF x = "tab" THEN 1
                                         ELSE IF x = "sel" THEN mem'.sel ELSE IF x = "cur" THEN mem'.cur ELSE mem[x]]
          /\ mem'.sel \subseteq mem.sel
        BY <2>3, <2>4 DEF Moved, MemFields
    <2>6. Current' = ts[1]
        BY <2>5 DEF MemFields, Current
    <2>7. i = mem.tab => ts[1] = Current
        BY <2>2 DEF Current
    <2>8. QED
        BY <1>3, <2>2, <2>3, <2>5, <2>6, <2>7
<1>8. QED
    BY <1>4, <1>5, <1>6, <1>7

\* A write that takes force: the tab goes along, and what was picked before is
\* dropped, or counted astray.
LEMMA HereLands ==
    ASSUME HereInv, PaneInv', UrlLands PROVE HereInv'
<1>1. PICK k \in {1, Len(writes)} :
        LET bound == {i \in 1 .. k : writes[i].h # Keep}
            p     == writes[k].p
        IN  /\ writes' = SubSeq(writes, k + 1, Len(writes))
            /\ url' = [h |-> IF bound = {} THEN url.h ELSE writes[CHOOSE i \in bound : \A j \in bound : j <= i].h,
                       p |-> p]
            /\ Synced(p)
            /\ astray' = [rows |-> astray.rows \/ (mem'.sel = mem.sel /\ mem.sel # {}
                                                     /\ (p = url.p \/ Current = p)),
                          tab  |-> (p = seen /\ (k > 1 \/ astray.tab))]
    BY DEF UrlLands
<1> DEFINE p == writes[k].p
           bound == {i \in 1 .. k : writes[i].h # Keep}
<1>2. writes \in Seq(PatchesOf) /\ Len(writes) \in Nat /\ writes # <<>>
    BY DEF UrlLands, HereInv, PaneInv
<1>3. k \in 1 .. Len(writes)
    BY <1>2
<1>4. \A i \in 1 .. Len(writes) : writes[i].h \in Hosts \cup {Keep} /\ writes[i].p \in Places
    <2>1. \A i \in 1 .. Len(writes) : writes[i] \in PatchesOf
        BY <1>2
    <2>2. QED
        BY <2>1 DEF PatchesOf
<1>5. url' \in [h : Hosts, p : Places]
    <2>1. bound # {} => writes[CHOOSE i \in bound : \A j \in bound : j <= i].h \in Hosts
        <3> SUFFICES ASSUME bound # {} PROVE writes[CHOOSE i \in bound : \A j \in bound : j <= i].h \in Hosts
            OBVIOUS
        <3>1. bound \in SUBSET (1 .. k)
            OBVIOUS
        <3>2. \E i \in bound : \A j \in bound : j <= i
            BY <1>2, <1>3, <3>1, Farthest
        <3> DEFINE i == CHOOSE i \in bound : \A j \in bound : j <= i
        <3>3. i \in bound
            BY <3>2
        <3> HIDE DEF i
        <3>4. i \in 1 .. Len(writes) /\ writes[i].h # Keep
            BY <1>2, <1>3, <3>3
        <3>5. writes[i].h \in Hosts
            BY <1>4, <3>4
        <3>6. QED
            BY <3>5 DEF i
    <2>2. url' = [h |-> IF bound = {} THEN url.h ELSE writes[CHOOSE i \in bound : \A j \in bound : j <= i].h, p |-> p]
        BY <1>1
    <2>3. p \in Places /\ url.h \in Hosts
        BY <1>3, <1>4 DEF HereInv
    <2> HIDE DEF p, bound
    <2>4. QED
        BY <2>1, <2>2, <2>3
<1>6. url'.p = p /\ Synced(p) /\ p \in Places
    BY <1>1, <1>3, <1>4
<1>7. seen = url.p /\ PaneInv
    BY DEF HereInv
<1>8. seen' = url'.p
    BY <1>6, <1>7 DEF Synced
<1>9. /\ astray'.tab = (p = seen /\ (k > 1 \/ astray.tab))
      /\ astray'.rows = (astray.rows \/ (mem'.sel = mem.sel /\ mem.sel # {} /\ (p = url.p \/ Current = p)))
    BY <1>1
<1>10. writes' = SubSeq(writes, k + 1, Len(writes))
    BY <1>1
<1> HIDE DEF p, bound
<1>11. \/ p = seen /\ mem' = mem
       \/ p # seen /\ mem' = Navigated(p, FALSE)
    BY <1>6 DEF Synced
<1>12. p # seen => /\ Current' = p /\ (p = Current \/ mem'.sel = {}) /\ mem'.sel \subseteq mem.sel
                   /\ Len(mem'.tabs) = Len(mem.tabs) /\ Len(mem'.fwd) <= Len(mem.fwd) /\ Len(mem'.hist) <= Len(mem.hist)
    BY <1>6, <1>7, <1>11, NavigatedHere
<1>13. RowsAgree'
    <2>1. mem'.sel \subseteq mem.sel
        BY <1>11, <1>12
    <2>2. ~astray'.rows => mem'.sel = {}
        <3>1. CASE p = seen
            BY <1>7, <1>9, <1>11, <3>1
        <3>2. CASE p # seen /\ p = Current
            <4>1. mem' = mem
                BY <1>11, <3>2 DEF Navigated
            <4>2. QED
                BY <1>9, <3>2, <4>1
        <3>3. CASE p # seen /\ p # Current
            BY <1>12, <3>3
        <3>4. QED
            BY <3>1, <3>2, <3>3
    <2>3. QED
        BY <2>1, <2>2 DEF HereInv, RowsAgree, ParentIsNotSelected
<1>14. PaneRoom'
    <2>1. CASE mem' = mem
        BY <2>1 DEF HereInv, PaneRoom
    <2>2. CASE p # seen
        <3>1. /\ Len(mem.tabs) \in Nat /\ Len(mem.hist) \in Nat /\ Len(mem.fwd) \in Nat
              /\ MaxTabs \in Nat /\ MaxHist \in Nat
            BY <1>7, PaneAssumption DEF PaneInv
        <3>2. Len(mem.tabs) <= MaxTabs /\ Len(mem.hist) <= MaxHist + 1 /\ Len(mem.fwd) <= MaxHist + 1
            BY DEF HereInv, PaneRoom
        <3>3. Len(mem'.tabs) \in Nat /\ Len(mem'.hist) \in Nat /\ Len(mem'.fwd) \in Nat
            <4>1. mem'.tabs \in Seq(Places) /\ mem'.hist \in Seq(Places) /\ mem'.fwd \in Seq(Places)
                BY DEF PaneInv
            <4>2. QED
                BY ONLY <4>1
        <3>4. /\ Len(mem'.tabs) = Len(mem.tabs) /\ Len(mem'.fwd) <= Len(mem.fwd)
              /\ Len(mem'.hist) <= Len(mem.hist)
            BY ONLY <1>12, <2>2
        <3>5. /\ Len(mem'.tabs) <= MaxTabs /\ Len(mem'.hist) <= MaxHist + 1
              /\ Len(mem'.fwd) <= MaxHist + 1
            BY ONLY <3>1, <3>2, <3>3, <3>4
        <3>6. QED
            BY ONLY <3>5 DEF PaneRoom
    <2>3. QED
        BY <1>11, <2>1, <2>2
<1>15. TabAgrees'
    <2> SUFFICES ASSUME ~astray'.tab, \A i \in DOMAIN writes' : writes'[i].p = url'.p PROVE Current' = url'.p
        BY DEF TabAgrees
    <2>1. CASE p # seen
        BY <1>6, <1>12, <2>1
    <2>2. CASE p = seen
        <3>6. ~(k > 1 \/ astray.tab)
            BY <1>9, <2>2
        <3>1. k = 1 /\ ~astray.tab /\ mem' = mem /\ url'.p = url.p
            BY <1>2, <1>3, <1>6, <1>7, <1>11, <2>2, <3>6
        <3>2. writes' = Tail(writes)
            BY <1>2, <1>10, <3>1
        <3>3. ASSUME NEW i \in DOMAIN writes PROVE writes[i].p = url.p
            <4>1. CASE i = 1
                BY <1>7, <2>2, <3>1, <4>1 DEF p
            <4>2. CASE i # 1
                <5>1. i - 1 \in DOMAIN writes' /\ writes'[i - 1] = writes[i]
                    BY <1>2, <3>2, <4>2
                <5>2. QED
                    BY <3>1, <5>1
            <4>3. QED
                BY <4>1, <4>2
        <3>4. Current = url.p
            BY <3>1, <3>3 DEF HereInv, TabAgrees
        <3>5. QED
            BY <3>1, <3>4 DEF Current
    <2>3. QED
        BY <2>1, <2>2
<1>16. QED
    BY <1>5, <1>8, <1>13, <1>14, <1>15 DEF HereInv

\* Rows that are picked are of here, and `..` is not one of them.
LEMMA HerePicks ==
    ASSUME HereInv, PaneInv',
           \/ \E n \in ToSet(OnScreen) : PaneClick(n)
           \/ \E d \in {0, 1} : PaneMove(2 * d - 1)
           \/ PaneSelectAll \/ PaneSelectNone
    PROVE  HereInv'
<1>1. UNCHANGED <<url, writes, seen, astray>>
    BY DEF PaneClick, PaneMove, PaneSelectAll, PaneSelectNone
<1>2. mem = [x \in MemFields |-> mem[x]]
    BY DEF HereInv, PaneInv
<1>3. ASSUME NEW s, NEW c, mem' = [mem EXCEPT !.sel = s, !.cur = c],
             \A r \in s : r \in mem.sel \/ (r.of = Here /\ r.name # "..")
      PROVE  HereInv'
    <2>1. mem' = [x \in MemFields |-> IF x = "sel" THEN s ELSE IF x = "cur" THEN c ELSE mem[x]]
        BY <1>2, <1>3 DEF MemFields
    <2>2. UNCHANGED <<mem.tabs, mem.tab, mem.hist, mem.fwd>> /\ mem'.sel = s
        BY <2>1 DEF MemFields
    <2>3. RowsAgree'
        BY <1>1, <1>3, <2>2 DEF HereInv, RowsAgree, ParentIsNotSelected, Here
    <2>4. TabAgrees' /\ PaneRoom'
        BY <1>1, <2>2 DEF HereInv, TabAgrees, PaneRoom, Current
    <2>5. QED
        BY <1>1, <2>3, <2>4 DEF HereInv
<1>4. /\ \A s : [mem EXCEPT !.sel = s] = [mem EXCEPT !.sel = s, !.cur = mem.cur]
      /\ \A c : [mem EXCEPT !.cur = c] = [mem EXCEPT !.sel = mem.sel, !.cur = c]
      /\ \A s, c : [mem EXCEPT !.cur = c, !.sel = s] = [mem EXCEPT !.sel = s, !.cur = c]
    BY <1>2 DEF MemFields
<1>5. \A n : n # ".." => Row(n).of = Here /\ Row(n).name # ".."
    BY DEF Row
<1>6. ASSUME NEW n, PaneClick(n) PROVE HereInv'
    <2>1. CASE mem' = [mem EXCEPT !.cur = Row("..")]
        BY <1>3, <1>4, <2>1
    <2>2. CASE n # ".." /\ mem' = [mem EXCEPT !.sel = {Row(n)}, !.cur = Row(n)]
        <3>1. PICK s : s = {Row(n)}
            OBVIOUS
        <3>2. mem' = [mem EXCEPT !.sel = s, !.cur = Row(n)]
            BY <2>2, <3>1
        <3>3. \A r \in s : r.of = Here /\ r.name # ".."
            BY <1>5, <2>2, <3>1
        <3>4. QED
            BY <1>3, <3>2, <3>3
    <2>3. CASE /\ n # ".."
               /\ mem' = [mem EXCEPT !.sel = IF Row(n) \in @ THEN @ \ {Row(n)} ELSE @ \cup {Row(n)}, !.cur = Row(n)]
        <3> DEFINE s == IF Row(n) \in mem.sel THEN mem.sel \ {Row(n)} ELSE mem.sel \cup {Row(n)}
        <3>1. mem' = [mem EXCEPT !.sel = s, !.cur = Row(n)]
            BY <2>3
        <3>2. \A r \in s : r \in mem.sel \/ r = Row(n)
            OBVIOUS
        <3> HIDE DEF s
        <3>3. \A r \in s : r \in mem.sel \/ (r.of = Here /\ r.name # "..")
            BY <1>5, <2>3, <3>2
        <3>4. QED
            BY <1>3, <3>1, <3>3
    <2>4. CASE n # ".." /\ \E q : mem' = [mem EXCEPT !.sel = RowsNamed(Ranged(q)), !.cur = Row(n)]
        <3>1. PICK q : mem' = [mem EXCEPT !.sel = RowsNamed(Ranged(q)), !.cur = Row(n)]
            BY <2>4
        <3>2. \A r \in RowsNamed(Ranged(q)) : r.of = Here /\ r.name # ".."
            BY <1>5 DEF RowsNamed, Ranged
        <3>3. QED
            BY <1>3, <3>1, <3>2
    <2>5. QED
        BY <1>6, <2>1, <2>2, <2>3, <2>4 DEF PaneClick
<1>7. ASSUME NEW d, PaneMove(d) PROVE HereInv'
    <2>1. \E n : mem' = IF n = ".." THEN [mem EXCEPT !.cur = Row(n)] ELSE [mem EXCEPT !.cur = Row(n), !.sel = {Row(n)}]
        BY <1>7 DEF PaneMove
    <2>2. PICK n : mem' = IF n = ".." THEN [mem EXCEPT !.cur = Row(n)] ELSE [mem EXCEPT !.cur = Row(n), !.sel = {Row(n)}]
        BY <2>1
    <2>3. CASE n = ".."
        BY <1>3, <1>4, <2>2, <2>3
    <2>4. CASE n # ".."
        <3>1. PICK s : s = {Row(n)}
            OBVIOUS
        <3>2. mem' = [mem EXCEPT !.sel = s, !.cur = Row(n)]
            BY <1>4, <2>2, <2>4, <3>1
        <3>3. \A r \in s : r.of = Here /\ r.name # ".."
            BY <1>5, <2>4, <3>1
        <3>4. QED
            BY <1>3, <3>2, <3>3
    <2>5. QED
        BY <2>3, <2>4
<1>8. CASE PaneSelectAll
    <2>1. \E c : mem' = [mem EXCEPT !.sel = RowsNamed(ToSet(Listing)), !.cur = c]
        BY <1>8 DEF PaneSelectAll
    <2>2. \A r \in RowsNamed(ToSet(Listing)) : r.of = Here /\ r.name # ".."
        BY <1>5, PaneAssumption DEF RowsNamed
    <2>3. QED
        BY <1>3, <2>1, <2>2
<1>9. CASE PaneSelectNone
    <2>1. PICK s : s = {}
        OBVIOUS
    <2>2. mem' = [mem EXCEPT !.sel = s, !.cur = NoRow]
        BY <1>9, <2>1 DEF PaneSelectNone, Moved
    <2>3. \A r \in s : r \in mem.sel
        BY <2>1
    <2>4. QED
        BY <1>3, <2>2, <2>3
<1>10. QED
    BY <1>6, <1>7, <1>8, <1>9

LEMMA HereKeeps == HereInv /\ [PaneNext]_paneVars => HereInv'
<1> SUFFICES ASSUME HereInv, [PaneNext]_paneVars PROVE HereInv'
    OBVIOUS
<1>1. PaneInv'
    BY PaneKeeps DEF HereInv
<1>2. CASE UNCHANGED paneVars
    BY <1>2 DEF paneVars, HereInv, PaneInv, TabAgrees, RowsAgree, PaneRoom, ParentIsNotSelected, Here, Current
<1>3. CASE UrlWritten
    <2>1. PICK h \in Hosts \cup {Keep}, p \in Places : Patch(h, p) /\ UNCHANGED <<url, mem, seen, astray>>
        BY <1>3 DEF UrlWritten
    <2>2. TabAgrees'
        <3>1. (\A i \in DOMAIN writes' : writes'[i].p = url.p) => \A i \in DOMAIN writes : writes[i].p = url.p
            BY <2>1, PatchedLast DEF HereInv
        <3>2. QED
            BY <2>1, <3>1 DEF HereInv, TabAgrees, Current
    <2>3. QED
        BY <1>1, <2>1, <2>2 DEF HereInv, RowsAgree, PaneRoom, ParentIsNotSelected, Here
<1>4. CASE PaneBack \/ PaneForward
    BY <1>1, <1>4, HereReplays DEF PaneBack, PaneForward
<1>5. CASE PaneNext /\ ~(PaneBack \/ PaneForward) /\ ~UrlWritten
    BY <1>1, <1>5, HereGoes, HereTabs, HereLands, HerePicks DEF PaneNext
<1>6. QED
    BY <1>2, <1>3, <1>4, <1>5

LEMMA HereHolds ==
    HereInv => PaneTypeOK /\ TabIsWhereUrlIs /\ SelectionIsOfHere /\ ParentIsNotSelected
<1> SUFFICES ASSUME HereInv PROVE PaneTypeOK /\ TabIsWhereUrlIs /\ SelectionIsOfHere /\ ParentIsNotSelected
    OBVIOUS
<1>1. PaneTypeOK
    BY DEF HereInv, PaneInv, PaneRoom, PaneTypeOK
<1>2. TabIsWhereUrlIs
    <2> SUFFICES ASSUME writes = <<>>, ~astray.tab PROVE Current = url.p
        BY DEF TabIsWhereUrlIs
    <2>1. DOMAIN writes = {}
        OBVIOUS
    <2>2. QED
        BY <2>1 DEF HereInv, TabAgrees
<1>3. SelectionIsOfHere /\ ParentIsNotSelected
    BY DEF HereInv, RowsAgree, SelectionIsOfHere
<1>4. QED
    BY <1>1, <1>2, <1>3

\* The open tab and the selection are where the URL is, and `..` is never
\* selected (TabIsWhereUrlIs, SelectionIsOfHere, ParentIsNotSelected).
THEOREM PaneAgrees == PaneSpec => [](TabIsWhereUrlIs /\ SelectionIsOfHere /\ ParentIsNotSelected)
BY HereStart, HereKeeps, HereHolds, PTL DEF PaneSpec
-----------------------------------------------------------------------------
(* The terminal.                                                           *)

Said == [of : Nat, kind : {"echo", "answer", "error"}]
Removes == {"chmod", "rm"}
LineHas == {"want", "at", "pane", "m", "cwd", "found", "to"}
IsRecord(r) ==
    /\ r = [x \in LineHas |-> r[x]]
    /\ r.at \in {"ask", "start", "over"} /\ r.pane \in {1, 2} /\ r.found \in Nat
IsSpot(s) == s = [x \in {"m", "path", "back"} |-> s[x]] /\ s.m \in Machines \cup {Nowhere}

TermData ==
    /\ Len(line) \in Nat /\ Len(line) <= MaxLines /\ line = [n \in 1 .. Len(line) |-> line[n]]
    /\ \A n \in DOMAIN line : IsRecord(line[n])
    /\ spot = [i \in {1, 2} |-> spot[i]] /\ \A i \in {1, 2} : IsSpot(spot[i])
    /\ active \in {1, 2} /\ busy \in BOOLEAN
    /\ scroll \in Seq(Said) /\ Len(scroll) <= OutputLimit

\* What a line of chmod or rm names is of one directory, and what was asked about
\* was there.
TermAsks ==
    \A n \in Under : line[n].want.kind \in Removes =>
        LET ps == line[n].want.targets
        IN  /\ Len(ps) \in Nat \ {0} /\ ps = [i \in 1 .. Len(ps) |-> ps[i]] /\ Grouped(ps)
            /\ line[n].found < Len(ps)
            /\ \A i \in 1 .. line[n].found : Finds(n, ps[i])

\* A line that no other runs beside keeps the prompt, and its pane is on its host.
TermAlone ==
    \A n \in Under \ rival : Under = {n} /\ busy /\ spot[line[n].pane].m = line[n].m

\* What was said last is of the line that is under way.
TermSaid == rival = {} => \A n \in Under : scroll # << >> => scroll[Len(scroll)].of = n

TermDialogs == \A d \in modals : d.kind # "toolbar" => d.of \in DOMAIN line

TermInv ==
    /\ TermData /\ TermAsks /\ TermAlone /\ TermSaid /\ TermDialogs
    /\ CdLandsSomewhere /\ DialogIsOfOnePlace /\ AnswerUnderItsEcho

\* In s, what answers a line stands under its echo.
UnderEcho(s) == \A i \in DOMAIN s \ {1} : s[i].kind # "echo" => s[i - 1].of = s[i].of

\* The scrollback is cut at its front.
LEMMA ScrollCut ==
    ASSUME NEW s \in Seq(Said), s # << >>
    PROVE  /\ Last500(s) \in Seq(Said) /\ Len(Last500(s)) <= OutputLimit /\ Last500(s) # << >>
           /\ Last500(s)[Len(Last500(s))] = s[Len(s)]
           /\ UnderEcho(s) => UnderEcho(Last500(s))
<1>1. OutputLimit \in Nat /\ OutputLimit > 0 /\ Len(s) \in Nat /\ Len(s) > 0 /\ DOMAIN s = 1 .. Len(s)
    BY TerminalAssumption
<1>2. CASE Len(s) > OutputLimit
    <2> DEFINE t == SubSeq(s, Len(s) - OutputLimit + 1, Len(s))
               d == Len(s) - OutputLimit
    <2>1. Last500(s) = t
        BY <1>2 DEF Last500
    <2>2. t \in Seq(Said) /\ Len(t) = OutputLimit
        BY <1>1, <1>2, SubSeqProperties
    <2>3. \A i \in 1 .. Len(t) : t[i] = s[i + (Len(s) - OutputLimit)]
        BY <1>1, <1>2, <2>2, SubSeqProperties
    <2>4. d \in Nat /\ d > 0 /\ Len(s) = OutputLimit + d
        BY <1>1, <1>2
    <2> HIDE DEF t
    <2>5. \A i \in 1 .. OutputLimit : t[i] = s[i + d]
        BY <2>2, <2>3
    <2> HIDE DEF d
    <2>6. DOMAIN t = 1 .. OutputLimit /\ t # << >> /\ t[Len(t)] = s[Len(s)]
        BY <2>2, <2>4, <2>5, <1>1
    <2>7. ASSUME UnderEcho(s) PROVE UnderEcho(t)
        <3> SUFFICES ASSUME NEW i \in DOMAIN t \ {1}, t[i].kind # "echo" PROVE t[i - 1].of = t[i].of
            BY DEF UnderEcho
        <3>1. i \in 1 .. OutputLimit /\ i - 1 \in 1 .. OutputLimit /\ (i - 1) + d = (i + d) - 1
            BY <2>4, <2>6, <1>1
        <3>2. i + d \in DOMAIN s \ {1}
            BY <3>1, <2>4, <1>1
        <3>3. t[i] = s[i + d] /\ t[i - 1] = s[(i + d) - 1]
            BY <3>1, <2>5
        <3>4. QED
            BY <3>2, <3>3, <2>7 DEF UnderEcho
    <2>8. Len(t) <= OutputLimit
        BY <2>2, <1>1
    <2>9. QED
        BY <2>1, <2>2, <2>6, <2>7, <2>8
<1>3. CASE ~(Len(s) > OutputLimit)
    <2>1. Last500(s) = s /\ Len(s) <= OutputLimit
        BY <1>1, <1>3 DEF Last500
    <2>2. QED
        BY <2>1
<1>4. QED
    BY <1>2, <1>3

\* What is written is of its line, last, and under its echo if the first of it
\* is one or what was said last is of the line.
LEMMA Written ==
    ASSUME scroll \in Seq(Said), NEW n \in Nat, NEW kinds \in Seq({"echo", "answer", "error"}), kinds # << >>,
           Writes(n, kinds),
           \A i \in DOMAIN kinds : kinds[i] = "echo" => i = 1
    PROVE  /\ scroll' \in Seq(Said) /\ Len(scroll') <= OutputLimit /\ scroll' # << >>
           /\ scroll'[Len(scroll')].of = n
           /\ UnderEcho(scroll) /\ (kinds[1] = "echo" \/ scroll = << >> \/ scroll[Len(scroll)].of = n) => UnderEcho(scroll')
<1> DEFINE K == Len(kinds)
           L == Len(scroll)
           u == [i \in DOMAIN kinds |-> [of |-> n, kind |-> kinds[i]]]
           s == scroll \o u
<1>1. K \in Nat /\ K > 0 /\ L \in Nat /\ DOMAIN kinds = 1 .. K /\ DOMAIN scroll = 1 .. L
    OBVIOUS
<1>2. u \in Seq(Said) /\ Len(u) = K /\ \A i \in 1 .. K : u[i].of = n /\ u[i].kind = kinds[i]
    <2>1. \A i \in 1 .. K : kinds[i] \in {"echo", "answer", "error"}
        BY <1>1
    <2>2. u = [i \in 1 .. K |-> [of |-> n, kind |-> kinds[i]]]
        BY <1>1
    <2>3. \A i \in 1 .. K : [of |-> n, kind |-> kinds[i]] \in Said
        BY <2>1 DEF Said
    <2> HIDE DEF K
    <2>4. u \in [1 .. K -> Said]
        BY <2>2, <2>3
    <2>5. \A i \in 1 .. K : u[i].of = n /\ u[i].kind = kinds[i]
        BY <2>2
    <2> HIDE DEF u
    <2>6. QED
        BY <2>4, <2>5, <1>1
<1> HIDE DEF u
<1>3. s \in Seq(Said) /\ Len(s) = L + K /\ DOMAIN s = 1 .. L + K
    <2>1. s \in Seq(Said) /\ Len(s) = L + Len(u)
        BY <1>1, <1>2, ConcatProperties
    <2>2. QED
        BY <2>1, <1>1, <1>2
<1>4. \A i \in 1 .. L : s[i] = scroll[i]
    <2>1. \A i \in 1 .. L + Len(u) : s[i] = IF i <= L THEN scroll[i] ELSE u[i - L]
        BY <1>1, <1>2, ConcatProperties
    <2>2. \A i \in 1 .. L : i \in 1 .. L + Len(u) /\ i <= L
        BY <1>1, <1>2
    <2>3. QED
        BY <2>1, <2>2
<1>5. \A i \in L + 1 .. L + K : i - L \in 1 .. K /\ s[i] = u[i - L]
    <2>1. \A i \in 1 .. L + Len(u) : s[i] = IF i <= L THEN scroll[i] ELSE u[i - L]
        BY <1>1, <1>2, ConcatProperties
    <2> SUFFICES ASSUME NEW i \in L + 1 .. L + K PROVE i - L \in 1 .. K /\ s[i] = u[i - L]
        OBVIOUS
    <2>2. i \in 1 .. L + Len(u) /\ ~(i <= L) /\ i - L \in 1 .. K
        BY <1>1, <1>2
    <2>3. QED
        BY <2>1, <2>2
<1>6. scroll' = Last500(s)
    BY DEF Writes, u
<1> HIDE DEF s
<1>7. s # << >> /\ s[Len(s)].of = n
    <2>1. L + K \in L + 1 .. L + K /\ L + K > 0
        BY <1>1
    <2>2. QED
        BY <2>1, <1>2, <1>3, <1>5
<1>8. ASSUME UnderEcho(scroll), kinds[1] = "echo" \/ scroll = << >> \/ scroll[Len(scroll)].of = n PROVE UnderEcho(s)
    <2> SUFFICES ASSUME NEW i \in DOMAIN s \ {1}, s[i].kind # "echo" PROVE s[i - 1].of = s[i].of
        BY DEF UnderEcho
    <2>1. CASE i <= L
        <3>1. i \in DOMAIN scroll \ {1} /\ i - 1 \in 1 .. L /\ i \in 1 .. L
            BY <2>1, <1>1, <1>3
        <3>2. s[i] = scroll[i] /\ s[i - 1] = scroll[i - 1]
            BY <3>1, <1>4
        <3>3. QED
            BY <3>1, <3>2, <1>8 DEF UnderEcho
    <2>2. CASE i > L
        <3>1. i \in L + 1 .. L + K
            BY <2>2, <1>1, <1>3
        <3>2. i - L \in 1 .. K /\ s[i].of = n /\ s[i].kind = kinds[i - L]
            BY <3>1, <1>2, <1>5
        <3>3. CASE i > L + 1
            <4>1. i - 1 \in L + 1 .. L + K
                BY <3>1, <3>3, <1>1
            <4>2. s[i - 1].of = n
                BY <4>1, <1>2, <1>5
            <4>3. QED
                BY <3>2, <4>2
        <3>4. CASE i = L + 1
            <4>1. i - L = 1 /\ kinds[1] # "echo" /\ L > 0
                BY <3>2, <3>4, <1>1
            <4>2. L \in 1 .. L /\ scroll # << >> /\ i - 1 = L
                BY <4>1, <1>1, <3>4
            <4>3. s[i - 1].of = n
                BY <4>1, <4>2, <1>4, <1>8
            <4>4. QED
                BY <3>2, <4>3
        <3>5. QED
            BY <3>1, <3>3, <3>4, <1>1
    <2>3. QED
        BY <2>1, <2>2, <1>1, <1>3
<1>9. QED
    BY <1>3, <1>6, <1>7, <1>8, ScrollCut

\* Words in a line that are no flags.
LEMMA WordsAre ==
    ASSUME NEW a \in Seq(STRING)
    PROVE  Len(Words(a)) \in Nat /\ Words(a) = [k \in 1 .. Len(Words(a)) |-> Words(a)[k]]
<1> DEFINE keep == {i \in DOMAIN a : a[i] \notin Flags}
           c == Cardinality(keep)
<1>1. IsFiniteSet(keep)
    <2>1. keep \subseteq 1 .. Len(a) /\ IsFiniteSet(1 .. Len(a))
        BY FS_Interval
    <2>2. QED
        BY <2>1, FS_Subset
<1>2. c \in Nat
    BY <1>1, FS_CardinalityType
<1>3. Words(a) = [k \in 1 .. c |-> a[CHOOSE i \in keep : Cardinality({j \in keep : j <= i}) = k]]
    BY DEF Words
<1>4. DOMAIN Words(a) = 1 .. c
    BY <1>3
<1>5. Len(Words(a)) = c
    BY <1>2, <1>4
<1>6. QED
    BY <1>2, <1>3, <1>5

\* What a chmod, an rm or an ssh is of.
LEMMA ParsedFrom ==
    ASSUME NEW l, NEW cwd, NEW home
    PROVE  LET a == Tail(l)
               ws == Words(a)
               p == Parsed(l, cwd, home)
           IN  \/ p.kind \notin Removes \cup {"ssh"}
               \/ p = Want("chmod", [i \in 1 .. Len(a) - 1 |-> Resolve(a[i + 1], cwd)]) /\ Len(a) >= 2
               \/ p = [Want("rm", [i \in DOMAIN ws |-> Resolve(ws[i], cwd)]) EXCEPT !.deep = "-r" \in Given(a)] /\ ws # << >>
               \/ p = [Want("ssh", << >>) EXCEPT !.name = a[1]] /\ l[1] = "ssh" /\ Len(a) = 1
<1> DEFINE a == Tail(l)
           ws == Words(a)
           p == Parsed(l, cwd, home)
           chmod == Want("chmod", [i \in 1 .. Len(a) - 1 |-> Resolve(a[i + 1], cwd)])
           rm == [Want("rm", [i \in DOMAIN ws |-> Resolve(ws[i], cwd)]) EXCEPT !.deep = "-r" \in Given(a)]
<1> DEFINE isLs == l[1] = "ls" /\ Given(a) \subseteq {"-l"} /\ Len(ws) <= 1
           isDu == l[1] = "du" /\ Given(a) \subseteq {"-h"} /\ Len(ws) <= 1
           isHome == l[1] = "cd" /\ a = << >>
           isBack == l[1] = "cd" /\ a = <<"-">>
           isCd == l[1] = "cd" /\ Len(a) = 1
           isChmod == l[1] = "chmod" /\ Len(a) >= 2 /\ a[1] = "644"
           isRm == l[1] = "rm" /\ Given(a) \subseteq {"-r", "-f"} /\ ws # << >>
           isSsh == l[1] = "ssh" /\ Len(a) = 1
           isDf == l = <<"df">>
           isPwd == l = <<"pwd">>
           isHelp == l = <<"help">>
           isClear == l = <<"clear">>
           ls == OneOf("print", ws, cwd)
           du == OneOf("scan", ws, cwd)
           homes == Want("cd", <<home>>)
           back == Want("back", << >>)
           cd == Want("cd", <<Resolve(a[1], cwd)>>)
           ssh == [Want("ssh", << >>) EXCEPT !.name = a[1]]
           df == Want("print", << >>)
           pwd == Want("say", << >>)
           help == Want("help", << >>)
           clear == Want("clear", << >>)
<1>1. p = CASE isLs -> ls [] isDu -> du [] isHome -> homes [] isBack -> back [] isCd -> cd
            [] isChmod -> chmod [] isRm -> rm [] isSsh -> ssh [] isDf -> df [] isPwd -> pwd
            [] isHelp -> help [] isClear -> clear [] OTHER -> Refused
    BY ONLY DEF Parsed
<1>2. \A k, t : Want(k, t).kind = k
    BY DEF Want
<1>3. /\ ls.kind = "print" /\ du.kind = "scan" /\ homes.kind = "cd" /\ back.kind = "back" /\ cd.kind = "cd"
      /\ df.kind = "print" /\ pwd.kind = "say" /\ help.kind = "help" /\ clear.kind = "clear"
    BY <1>2 DEF OneOf
<1>4. Refused.kind = "refused" /\ Removes = {"chmod", "rm"}
    BY DEF Refused, Want, Removes
<1>5. (isChmod => Len(a) >= 2) /\ (isRm => ws # << >>) /\ (isSsh => l[1] = "ssh" /\ Len(a) = 1)
    OBVIOUS
<1> HIDE DEF p, ws, a, isLs, isDu, isHome, isBack, isCd, isChmod, isRm, isSsh, isDf, isPwd, isHelp, isClear,
             chmod, rm, ls, du, homes, back, cd, ssh, df, pwd, help, clear
<1>6. \/ p \in {ls, du, homes, back, cd, df, pwd, help, clear, Refused}
      \/ p = chmod /\ isChmod
      \/ p = rm /\ isRm
      \/ p = ssh /\ isSsh
    BY <1>1
<1>7. \/ p.kind \notin Removes \cup {"ssh"}
      \/ p = chmod /\ Len(a) >= 2
      \/ p = rm /\ ws # << >>
      \/ p = ssh /\ l[1] = "ssh" /\ Len(a) = 1
    BY <1>3, <1>4, <1>5, <1>6
<1>8. QED
    BY <1>7 DEF p, a, ws, chmod, rm, ssh

\* A chmod or an rm has something to remove.
LEMMA ParsedTargets ==
    ASSUME NEW l \in Lines, NEW cwd, NEW home, Parsed(l, cwd, home).kind \in Removes
    PROVE  LET ps == Parsed(l, cwd, home).targets IN Len(ps) \in Nat \ {0} /\ ps = [i \in 1 .. Len(ps) |-> ps[i]]
<1> DEFINE a == Tail(l)
           ws == Words(a)
           p == Parsed(l, cwd, home)
           chmod == Want("chmod", [i \in 1 .. Len(a) - 1 |-> Resolve(a[i + 1], cwd)])
           rm == [Want("rm", [i \in DOMAIN ws |-> Resolve(ws[i], cwd)]) EXCEPT !.deep = "-r" \in Given(a)]
<1>1. l \in Seq(STRING) /\ l # << >>
    BY TerminalAssumption
<1>2. a \in Seq(STRING) /\ Len(a) \in Nat
    BY <1>1
<1>3. Len(ws) \in Nat /\ ws = [k \in 1 .. Len(ws) |-> ws[k]]
    BY <1>2, WordsAre
<1>4. \/ p = chmod /\ Len(a) >= 2
      \/ p = rm /\ ws # << >>
    <2> DEFINE ssh == [Want("ssh", << >>) EXCEPT !.name = a[1]]
    <2>1. p.kind \in Removes /\ ssh.kind = "ssh" /\ "ssh" \notin Removes
        BY DEF Removes, Want
    <2>2. \/ p.kind \notin Removes \cup {"ssh"}
          \/ p = chmod /\ Len(a) >= 2
          \/ p = rm /\ ws # << >>
          \/ p = ssh /\ l[1] = "ssh" /\ Len(a) = 1
        BY ParsedFrom
    <2> HIDE DEF p, a, ws, chmod, rm, ssh
    <2>3. QED
        BY <2>1, <2>2
<1> HIDE DEF a, ws, p
<1>5. CASE p = chmod /\ Len(a) >= 2
    <2>1. p.targets = [i \in 1 .. Len(a) - 1 |-> Resolve(a[i + 1], cwd)] 
        BY <1>5 DEF Want
    <2>2. Len(a) - 1 \in Nat /\ Len(a) - 1 # 0
        BY <1>2, <1>5
    <2>3. Len(p.targets) = Len(a) - 1
        BY <2>1, <2>2
    <2>4. p.targets = [i \in 1 .. Len(a) - 1 |-> p.targets[i]]
        BY <2>1
    <2>5. QED
        BY <2>2, <2>3, <2>4 DEF p
<1>6. CASE p = rm /\ ws # << >>
    <2>1. p.targets = [i \in 1 .. Len(ws) |-> Resolve(ws[i], cwd)]
        BY <1>3, <1>6 DEF Want
    <2>2. Len(ws) # 0
        BY <1>3, <1>6
    <2>3. Len(p.targets) = Len(ws) /\ DOMAIN p.targets = 1 .. Len(ws)
        BY <2>1, <1>3
    <2>4. p.targets = [i \in 1 .. Len(ws) |-> p.targets[i]]
        BY <2>1
    <2>5. QED
        BY <2>2, <2>3, <2>4, <1>3 DEF p
<1>7. QED
    BY <1>4, <1>5, <1>6

\* What an ssh names is a host's.
LEMMA ParsedHosts ==
    ASSUME NEW l \in Lines, NEW cwd, NEW home, Parsed(l, cwd, home).kind = "ssh"
    PROVE  Called[Parsed(l, cwd, home).name] \subseteq Machines
<1> DEFINE a == Tail(l)
           p == Parsed(l, cwd, home)
<1>1. /\ l \in Seq(STRING) /\ l # << >>
      /\ l[1] = "ssh" /\ Len(l) = 2 => Called[l[2]] \subseteq Machines
    BY TerminalAssumption
<1>2. p = [Want("ssh", << >>) EXCEPT !.name = a[1]] /\ l[1] = "ssh" /\ Len(a) = 1
    <2> DEFINE ws == Words(a)
               chmod == Want("chmod", [i \in 1 .. Len(a) - 1 |-> Resolve(a[i + 1], cwd)])
               rm == [Want("rm", [i \in DOMAIN ws |-> Resolve(ws[i], cwd)]) EXCEPT !.deep = "-r" \in Given(a)]
    <2> DEFINE ssh == [Want("ssh", << >>) EXCEPT !.name = a[1]]
    <2>1. p.kind = "ssh" /\ chmod.kind = "chmod" /\ rm.kind = "rm" /\ "ssh" \in Removes \cup {"ssh"}
        BY DEF Want
    <2>2. \/ p.kind \notin Removes \cup {"ssh"}
          \/ p = chmod /\ Len(a) >= 2
          \/ p = rm /\ ws # << >>
          \/ p = ssh /\ l[1] = "ssh" /\ Len(a) = 1
        BY ParsedFrom
    <2>3. p = ssh /\ l[1] = "ssh" /\ Len(a) = 1
        <3> HIDE DEF p, a, ws, chmod, rm, ssh
        <3>1. QED
            BY <2>1, <2>2
    <2>4. QED
        BY <2>3
<1>3. Len(l) = 2 /\ a[1] = l[2]
    <2>1. Len(a) = 1 /\ a = Tail(l)
        BY <1>2
    <2>2. l \in Seq(STRING) /\ l # << >>
        BY <1>1
    <2> HIDE DEF a, p
    <2>3. Len(a) = Len(l) - 1 /\ \A i \in 1 .. Len(a) : a[i] = l[i + 1]
        BY <2>1, <2>2, HeadTailProperties
    <2>4. Len(l) \in Nat
        BY <2>2
    <2>5. QED
        BY <2>1, <2>3, <2>4
<1>4. p.name = a[1]
    BY <1>2 DEF Want
<1>5. QED
    BY <1>1, <1>2, <1>3, <1>4

\* The dialog d is about things of one directory of line k's host.
OfOnePlace(d, k) ==
    /\ d.m = line[k].m
    /\ \A p \in d.rows : p \in DOMAIN Trees[d.m] /\ Front(p) = d.dir
    /\ d.kind = "rm" /\ ~line[k].want.deep => \A p \in d.rows : Trees[d.m][p] # "dir"

\* What r says a cd came to is a directory.
ComesToDir(r) == LET t == Trees[r.to[1]] IN r.to[2] \in DOMAIN t /\ t[r.to[2]] = "dir"

LEMMA TermFacts ==
    ASSUME TermInv
    PROVE  /\ Len(line) \in Nat /\ Len(line) <= MaxLines /\ DOMAIN line = 1 .. Len(line)
           /\ line = [n \in 1 .. Len(line) |-> line[n]]
           /\ \A n \in DOMAIN line : IsRecord(line[n])
           /\ spot = [i \in {1, 2} |-> spot[i]] /\ \A i \in {1, 2} : IsSpot(spot[i])
           /\ active \in {1, 2} /\ scroll \in Seq(Said) /\ Len(scroll) <= OutputLimit
           /\ \A d \in modals : d.kind # "toolbar" => d.of \in DOMAIN line /\ OfOnePlace(d, d.of)
           /\ \A n \in DOMAIN line : line[n].to # << >> /\ n \notin rival => ComesToDir(line[n])
           /\ rival = {} => UnderEcho(scroll)
<1>1. TermData /\ TermDialogs /\ DialogIsOfOnePlace /\ CdLandsSomewhere /\ AnswerUnderItsEcho
    BY DEF TermInv
<1>2. /\ Len(line) \in Nat /\ Len(line) <= MaxLines /\ DOMAIN line = 1 .. Len(line)
      /\ line = [n \in 1 .. Len(line) |-> line[n]]
      /\ \A n \in DOMAIN line : IsRecord(line[n])
      /\ spot = [i \in {1, 2} |-> spot[i]] /\ \A i \in {1, 2} : IsSpot(spot[i])
      /\ active \in {1, 2} /\ scroll \in Seq(Said) /\ Len(scroll) <= OutputLimit
    BY <1>1 DEF TermData
<1>3. \A d \in modals : d.kind # "toolbar" => d.of \in DOMAIN line /\ OfOnePlace(d, d.of)
    BY <1>1 DEF TermDialogs, DialogIsOfOnePlace, OfOnePlace
<1>4. \A n \in DOMAIN line : line[n].to # << >> /\ n \notin rival => ComesToDir(line[n])
    BY <1>1 DEF CdLandsSomewhere, ComesToDir
<1>5. rival = {} => UnderEcho(scroll)
    BY <1>1 DEF AnswerUnderItsEcho, UnderEcho
<1>6. QED
    BY <1>2, <1>3, <1>4, <1>5

\* The parts of the invariant, in the words of TermFacts.
LEMMA TermFits ==
    ASSUME TermData', TermAsks', TermAlone', TermSaid',
           \A d \in modals' : d.kind # "toolbar" => d.of \in DOMAIN line' /\ OfOnePlace(d, d.of)',
           \A n \in DOMAIN line' : line'[n].to # << >> /\ n \notin rival' => ComesToDir(line'[n]),
           rival' = {} => UnderEcho(scroll')
    PROVE  TermInv'
<1>1. TermDialogs' /\ DialogIsOfOnePlace'
    BY DEF TermDialogs, DialogIsOfOnePlace, OfOnePlace
<1>2. CdLandsSomewhere'
    BY DEF CdLandsSomewhere, ComesToDir
<1>3. AnswerUnderItsEcho'
    BY DEF AnswerUnderItsEcho, UnderEcho
<1>4. QED
    BY <1>1, <1>2, <1>3 DEF TermInv

LEMMA LineAdded ==
    ASSUME TermInv, NEW w, NEW st \in {"ask", "over"}, Len(line) < MaxLines,
           line' = Append(line, Record(w, st)),
           rival \subseteq rival', Under \subseteq rival', Under # {} => Len(line) + 1 \in rival',
           spot' = [i \in {1, 2} |-> spot'[i]], \A i \in {1, 2} : IsSpot(spot'[i]),
           UNCHANGED <<active, modals>>, busy' \in BOOLEAN,
           scroll' \in Seq(Said), Len(scroll') <= OutputLimit, UnderEcho(scroll) => UnderEcho(scroll'),
           st = "ask" => /\ spot' = spot /\ busy' /\ (scroll' # << >> => scroll'[Len(scroll')].of = Len(line) + 1)
                         /\ w.kind \in Removes => /\ Len(w.targets) \in Nat \ {0} /\ Grouped(w.targets)
                                                  /\ w.targets = [i \in 1 .. Len(w.targets) |-> w.targets[i]]
    PROVE  TermInv'
<1> DEFINE n == Len(line) + 1
           r == Record(w, st)
<1>1. /\ r.want = w /\ r.at = st /\ r.pane = active /\ r.m = spot[active].m /\ r.found = 0 /\ r.to = << >>
      /\ r = [x \in LineHas |-> r[x]]
    BY DEF Record, LineHas
<1>2. IsRecord(r)
    BY <1>1, TermFacts DEF IsRecord
<1> HIDE DEF r
<1>3. Len(line) \in Nat /\ DOMAIN line = 1 .. Len(line) /\ n \in Nat /\ n > 0 /\ n \notin DOMAIN line
    BY TermFacts
<1>4. /\ Len(line') = n /\ DOMAIN line' = 1 .. n /\ line' = [k \in 1 .. n |-> line'[k]] /\ line'[n] = r
      /\ \A k \in DOMAIN line : line'[k] = line[k]
    <2> DEFINE S == {line[k] : k \in 1 .. Len(line)} \cup {r}
    <2>1. line \in Seq(S) /\ r \in S
        <3>1. line \in [1 .. Len(line) -> S] /\ r \in S
            BY TermFacts
        <3> DEFINE m == Len(line)
        <3>2. m \in Nat
            BY <1>3
        <3> HIDE DEF S, m
        <3>3. line \in [1 .. m -> S]
            BY <3>1 DEF m
        <3>4. line \in Seq(S)
            <4> DEFINE Q == UNION {[1 .. k -> S] : k \in Nat}
            <4>1. [1 .. m -> S] \in {[1 .. k -> S] : k \in Nat}
                BY <3>2
            <4>2. line \in Q
                BY <3>3, <4>1
            <4> HIDE DEF Q
            <4>3. Seq(S) = Q
                BY SeqDef DEF Q
            <4>4. QED
                BY <4>2, <4>3
        <3>5. QED
            BY <3>1, <3>4
    <2> HIDE DEF S
    <2>2. /\ Append(line, r) \in Seq(S) /\ Len(Append(line, r)) = Len(line) + 1 /\ Append(line, r)[Len(line) + 1] = r
          /\ \A k \in 1 .. Len(line) : Append(line, r)[k] = line[k]
        BY <2>1, AppendProperties
    <2>3. line' = Append(line, r)
        BY DEF r
    <2>4. line' \in Seq(S)
        BY <2>2, <2>3
    <2>5. Len(line') = n
        BY <2>2, <2>3
    <2> DEFINE f == line'
    <2>6. f = [k \in 1 .. Len(f) |-> f[k]]
        <3> HIDE DEF f
        <3>1. f \in Seq(S)
            BY <2>4 DEF f
        <3>2. QED
            BY <3>1
    <2>7. DOMAIN line' = 1 .. n /\ line' = [k \in 1 .. n |-> line'[k]]
        BY <2>5, <2>6
    <2>8. QED
        BY <2>2, <2>3, <2>5, <2>7, <1>3
<1>5. \A k \in DOMAIN line' : k \in DOMAIN line \/ k = n
    BY <1>3, <1>4
<1>6. DOMAIN line \subseteq DOMAIN line'
    BY <1>3, <1>4
<1> HIDE DEF n
<1>7. TermData'
    <2>1. \A k \in DOMAIN line' : IsRecord(line'[k])
        BY <1>2, <1>4, <1>5, TermFacts
    <2>2. Len(line') <= MaxLines
        BY <1>3, <1>4, TerminalAssumption DEF n
    <2>3. QED
        BY <2>1, <2>2, <1>3, <1>4, TermFacts DEF TermData
<1>8. Under' = IF st = "ask" THEN Under \cup {n} ELSE Under
    <2>1. \A k \in DOMAIN line : Going(k)' <=> Going(k)
        BY <1>4 DEF Going
    <2>2. line'[n].at = st /\ (st = "ask" \/ st = "over")
        BY <1>1, <1>4
    <2>3. n \in DOMAIN line' /\ n \notin DOMAIN line
        BY <1>3, <1>4
    <2>4. Under' = {k \in DOMAIN line' : line'[k].at # "over"} /\ Under = {k \in DOMAIN line : line[k].at # "over"}
        BY DEF Under, Going
    <2>5. \A k \in DOMAIN line : line'[k].at = line[k].at
        BY <1>4
    <2>6. CASE st = "ask"
        BY <2>2, <2>3, <2>4, <2>5, <2>6, <1>5, <1>6
    <2>7. CASE st = "over"
        BY <2>2, <2>3, <2>4, <2>5, <2>7, <1>5, <1>6
    <2>8. QED
        BY <2>2, <2>6, <2>7
<1>9. TermAsks'
    <2> SUFFICES ASSUME NEW k \in Under', line'[k].want.kind \in Removes
                 PROVE  LET ps == line'[k].want.targets
                        IN  /\ Len(ps) \in Nat \ {0} /\ ps = [i \in 1 .. Len(ps) |-> ps[i]] /\ Grouped(ps)
                            /\ line'[k].found < Len(ps)
                            /\ \A i \in 1 .. line'[k].found : ps[i] \in DOMAIN Trees[line'[k].m]
        BY DEF TermAsks, Finds
    <2>1. CASE k \in Under
        <3>1. line'[k] = line[k]
            BY <2>1, <1>4 DEF Under
        <3>2. QED
            BY <2>1, <3>1 DEF TermInv, TermAsks, Finds
    <2>2. CASE k = n /\ st = "ask"
        <3>1. line'[k] = r /\ w.kind \in Removes
            BY <2>2, <1>1, <1>4
        <3>2. \A i \in 1 .. 0 : FALSE
            OBVIOUS
        <3>3. Len(w.targets) \in Nat \ {0} => 0 < Len(w.targets)
            OBVIOUS
        <3>4. QED
            BY <2>2, <3>1, <3>2, <3>3, <1>1
    <2>3. QED
        BY <2>1, <2>2, <1>8
<1>10. TermAlone'
    <2> SUFFICES ASSUME NEW k \in Under' \ rival'
                 PROVE  Under' = {k} /\ busy' /\ spot'[line'[k].pane].m = line'[k].m
        BY DEF TermAlone
    <2>1. k = n /\ st = "ask" /\ Under = {}
        BY <1>8 DEF n
    <2>2. QED
        BY <2>1, <1>1, <1>4, <1>8
<1>11. TermSaid'
    <2> SUFFICES ASSUME rival' = {}, NEW k \in Under', scroll' # << >> PROVE scroll'[Len(scroll')].of = k
        BY DEF TermSaid
    <2>1. k = n /\ st = "ask"
        BY <1>8
    <2>2. QED
        BY <2>1 DEF n
<1>12. \A d \in modals' : d.kind # "toolbar" => d.of \in DOMAIN line' /\ OfOnePlace(d, d.of)'
    <2> SUFFICES ASSUME NEW d \in modals', d.kind # "toolbar" PROVE d.of \in DOMAIN line' /\ OfOnePlace(d, d.of)'
        OBVIOUS
    <2>1. d.of \in DOMAIN line /\ OfOnePlace(d, d.of)
        BY TermFacts
    <2>2. line'[d.of] = line[d.of]
        BY <2>1, <1>4
    <2>3. QED
        BY <2>1, <2>2, <1>6 DEF OfOnePlace
<1>13. \A k \in DOMAIN line' : line'[k].to # << >> /\ k \notin rival' => ComesToDir(line'[k])
    BY <1>1, <1>4, <1>5, TermFacts
<1>14. rival' = {} => UnderEcho(scroll')
    BY TermFacts
<1>15. QED
    BY <1>7, <1>9, <1>10, <1>11, <1>12, <1>13, <1>14, TermFits

\* One record is another.
LEMMA LineSet ==
    ASSUME TermInv, NEW n \in DOMAIN line, NEW r, IsRecord(r), line' = [line EXCEPT ![n] = r]
    PROVE  /\ Len(line') = Len(line) /\ DOMAIN line' = DOMAIN line /\ line' = [k \in 1 .. Len(line') |-> line'[k]]
           /\ line'[n] = r /\ \A k \in DOMAIN line : k # n => line'[k] = line[k]
           /\ \A k \in DOMAIN line' : IsRecord(line'[k])
<1>1. line = [k \in 1 .. Len(line) |-> line[k]] /\ Len(line) \in Nat /\ DOMAIN line = 1 .. Len(line) /\ \A k \in DOMAIN line : IsRecord(line[k])
    BY TermFacts
<1>2. line' = [k \in 1 .. Len(line) |-> IF k = n THEN r ELSE line[k]]
    BY <1>1
<1>3. DOMAIN line' = 1 .. Len(line)
    BY <1>2
<1>4. Len(line') = Len(line)
    BY <1>1, <1>3
<1>5. line'[n] = r /\ \A k \in DOMAIN line : k # n => line'[k] = line[k]
    BY <1>1, <1>2
<1>6. \A k \in DOMAIN line' : IsRecord(line'[k])
    BY <1>1, <1>3, <1>5
<1>7. line' = [k \in 1 .. Len(line') |-> line'[k]]
    BY <1>2, <1>3, <1>4
<1>8. QED
    BY <1>1, <1>3, <1>4, <1>5, <1>6, <1>7

\* A line is over.
LEMMA LineEnds ==
    ASSUME TermInv, NEW n \in Under, NEW r, IsRecord(r), r.at = "over", r.want = line[n].want, r.m = line[n].m,
           line' = [line EXCEPT ![n] = r], busy' = FALSE,
           scroll' \in Seq(Said), Len(scroll') <= OutputLimit, rival = {} => UnderEcho(scroll'),
           spot' = [i \in {1, 2} |-> spot'[i]], \A i \in {1, 2} : IsSpot(spot'[i]),
           UNCHANGED <<active, rival>>,
           r.to # << >> /\ n \notin rival => ComesToDir(r),
           \A d \in modals' : d \in modals \/ d.kind = "toolbar" \/ (d.of = n /\ OfOnePlace(d, n))
    PROVE  TermInv'
<1>1. n \in DOMAIN line /\ Going(n)
    BY DEF Under
<1>2. /\ Len(line') = Len(line) /\ DOMAIN line' = DOMAIN line /\ line' = [k \in 1 .. Len(line') |-> line'[k]]
      /\ line'[n] = r /\ \A k \in DOMAIN line : k # n => line'[k] = line[k]
      /\ \A k \in DOMAIN line' : IsRecord(line'[k])
    BY <1>1, LineSet
<1>3. TermData'
    BY <1>2, TermFacts DEF TermData
<1>4. Under' = Under \ {n}
    <2>1. \A k \in DOMAIN line : k # n => (Going(k)' <=> Going(k))
        BY <1>2 DEF Going
    <2>2. ~Going(n)'
        BY <1>2 DEF Going
    <2>3. QED
        BY <2>1, <2>2, <1>1, <1>2 DEF Under
<1>5. TermAsks'
    <2> SUFFICES ASSUME NEW k \in Under', line'[k].want.kind \in Removes
                 PROVE  LET ps == line'[k].want.targets
                        IN  /\ Len(ps) \in Nat \ {0} /\ ps = [i \in 1 .. Len(ps) |-> ps[i]] /\ Grouped(ps)
                            /\ line'[k].found < Len(ps)
                            /\ \A i \in 1 .. line'[k].found : ps[i] \in DOMAIN Trees[line'[k].m]
        BY DEF TermAsks, Finds
    <2>1. k \in Under /\ line'[k] = line[k]
        BY <1>2, <1>4 DEF Under
    <2>2. QED
        BY <2>1 DEF TermInv, TermAsks, Finds
<1>6. Under' \ rival' = {}
    <2> SUFFICES ASSUME NEW k \in Under' \ rival' PROVE FALSE
        OBVIOUS
    <2>1. Under = {k} /\ k # n
        BY <1>4 DEF TermInv, TermAlone
    <2>2. QED
        BY <2>1
<1>7. TermAlone' /\ TermSaid'
    BY <1>6 DEF TermAlone, TermSaid
<1>8. \A d \in modals' : d.kind # "toolbar" => d.of \in DOMAIN line' /\ OfOnePlace(d, d.of)'
    <2> SUFFICES ASSUME NEW d \in modals', d.kind # "toolbar" PROVE d.of \in DOMAIN line' /\ OfOnePlace(d, d.of)'
        OBVIOUS
    <2>1. d.of \in DOMAIN line /\ OfOnePlace(d, d.of)
        BY <1>1, TermFacts
    <2>2. line'[d.of].m = line[d.of].m /\ line'[d.of].want = line[d.of].want
        BY <2>1, <1>2
    <2>3. QED
        BY <2>1, <2>2, <1>2 DEF OfOnePlace
<1>9. \A k \in DOMAIN line' : line'[k].to # << >> /\ k \notin rival' => ComesToDir(line'[k])
    <2> SUFFICES ASSUME NEW k \in DOMAIN line', line'[k].to # << >>, k \notin rival' PROVE ComesToDir(line'[k])
        OBVIOUS
    <2>1. CASE k = n
        BY <2>1, <1>2
    <2>2. CASE k # n
        BY <2>2, <1>2, TermFacts
    <2>3. QED
        BY <2>1, <2>2
<1>10. rival' = {} => UnderEcho(scroll')
    OBVIOUS
<1>11. QED
    BY <1>3, <1>5, <1>7, <1>8, <1>9, <1>10, TermFits

\* A line goes on.
LEMMA LineGoesOn ==
    ASSUME TermInv, NEW n \in Under, NEW r, IsRecord(r), r.at # "over", r.want = line[n].want, r.m = line[n].m,
           r.pane = line[n].pane, r.to = line[n].to, line' = [line EXCEPT ![n] = r],
           UNCHANGED <<spot, active, scroll, busy, modals, rival>>,
           r.want.kind \in Removes => /\ r.found < Len(r.want.targets)
                                      /\ \A i \in 1 .. r.found : r.want.targets[i] \in DOMAIN Trees[r.m]
    PROVE  TermInv'
<1>1. n \in DOMAIN line /\ Going(n)
    BY DEF Under
<1>2. /\ Len(line') = Len(line) /\ DOMAIN line' = DOMAIN line /\ line' = [k \in 1 .. Len(line') |-> line'[k]]
      /\ line'[n] = r /\ \A k \in DOMAIN line : k # n => line'[k] = line[k]
      /\ \A k \in DOMAIN line' : IsRecord(line'[k])
    BY <1>1, LineSet
<1>3. TermData'
    BY <1>2 DEF TermInv, TermData
<1>4. Under' = Under
    <2>1. \A k \in DOMAIN line : k # n => (Going(k)' <=> Going(k))
        BY <1>2 DEF Going
    <2>2. Going(n)'
        BY <1>2 DEF Going
    <2>3. QED
        BY <2>1, <2>2, <1>1, <1>2 DEF Under
<1>5. TermAsks'
    <2> SUFFICES ASSUME NEW k \in Under, line'[k].want.kind \in Removes
                 PROVE  LET ps == line'[k].want.targets
                        IN  /\ Len(ps) \in Nat \ {0} /\ ps = [i \in 1 .. Len(ps) |-> ps[i]] /\ Grouped(ps)
                            /\ line'[k].found < Len(ps)
                            /\ \A i \in 1 .. line'[k].found : ps[i] \in DOMAIN Trees[line'[k].m]
        BY <1>4 DEF TermAsks, Finds
    <2>1. k \in DOMAIN line
        BY DEF Under
    <2>2. CASE k # n
        BY <2>1, <2>2, <1>2 DEF TermInv, TermAsks, Finds
    <2>3. CASE k = n
        BY <2>1, <2>3, <1>2 DEF TermInv, TermAsks, Finds
    <2>4. QED
        BY <2>2, <2>3
<1>6. \A k \in DOMAIN line : line'[k].pane = line[k].pane /\ line'[k].m = line[k].m /\ line'[k].want = line[k].want /\ line'[k].to = line[k].to
    BY <1>2
<1>7. TermAlone' /\ TermSaid'
    BY <1>4, <1>6 DEF TermInv, TermAlone, TermSaid, Under
<1>8. \A d \in modals' : d.kind # "toolbar" => d.of \in DOMAIN line' /\ OfOnePlace(d, d.of)'
    BY <1>2, <1>6, TermFacts DEF OfOnePlace
<1>9. \A k \in DOMAIN line' : line'[k].to # << >> /\ k \notin rival' => ComesToDir(line'[k])
    BY <1>2, <1>6, TermFacts DEF ComesToDir
<1>10. rival' = {} => UnderEcho(scroll')
    BY TermFacts
<1>11. QED
    BY <1>3, <1>5, <1>7, <1>8, <1>9, <1>10, TermFits

\* Something else on the page.
LEMMA LineStays ==
    ASSUME TermInv, UNCHANGED <<line, busy>>, rival \subseteq rival',
           spot' = [i \in {1, 2} |-> spot'[i]], \A i \in {1, 2} : IsSpot(spot'[i]),
           \A n \in Under \ rival' : spot'[line[n].pane].m = spot[line[n].pane].m,
           active' \in {1, 2}, scroll' = scroll \/ scroll' = << >>,
           \A d \in modals' : d \in modals \/ d.kind = "toolbar"
    PROVE  TermInv'
<1>1. << >> \in Seq(Said) /\ Len(<< >>) = 0 /\ UnderEcho(<< >>) /\ 0 <= OutputLimit
    BY TerminalAssumption DEF UnderEcho
<1>2. scroll' \in Seq(Said) /\ Len(scroll') <= OutputLimit
    BY <1>1, TermFacts
<1>3. TermData'
    BY <1>2 DEF TermInv, TermData
<1>4. Under' = Under
    BY DEF Under, Going
<1>5. TermAsks'
    BY <1>4 DEF TermInv, TermAsks, Finds
<1>6. TermAlone' /\ TermSaid'
    BY <1>4 DEF TermInv, TermAlone, TermSaid
<1>7. \A d \in modals' : d.kind # "toolbar" => d.of \in DOMAIN line' /\ OfOnePlace(d, d.of)'
    BY TermFacts DEF OfOnePlace
<1>8. \A k \in DOMAIN line' : line'[k].to # << >> /\ k \notin rival' => ComesToDir(line'[k])
    BY TermFacts
<1>9. rival' = {} => UnderEcho(scroll')
    BY <1>1, TermFacts
<1>10. QED
    BY <1>3, <1>5, <1>6, <1>7, <1>8, <1>9, TermFits

\* One pane is elsewhere.
LEMMA SpotSet ==
    ASSUME TermInv, NEW i \in {1, 2}, NEW s, IsSpot(s), spot' = [spot EXCEPT ![i] = s]
    PROVE  /\ spot' = [k \in {1, 2} |-> spot'[k]] /\ \A k \in {1, 2} : IsSpot(spot'[k])
           /\ spot'[i] = s /\ \A k \in {1, 2} : k # i => spot'[k] = spot[k]
<1>1. spot = [k \in {1, 2} |-> spot[k]] /\ \A k \in {1, 2} : IsSpot(spot[k])
    BY TermFacts
<1>2. spot' = [k \in {1, 2} |-> IF k = i THEN s ELSE spot[k]]
    BY <1>1
<1>3. spot'[i] = s /\ \A k \in {1, 2} : k # i => spot'[k] = spot[k]
    BY <1>2
<1>4. spot' = [k \in {1, 2} |-> spot'[k]]
    BY <1>2
<1>5. QED
    BY <1>1, <1>3, <1>4

LEMMA BoundFits ==
    ASSUME TermInv, NEW i \in {1, 2}, NEW m \in Machines, spot' = Bound(i, m)
    PROVE  /\ spot' = [k \in {1, 2} |-> spot'[k]] /\ \A k \in {1, 2} : IsSpot(spot'[k])
           /\ \A k \in {1, 2} : k # i => spot'[k] = spot[k]
<1> DEFINE s == [m |-> m, path |-> HomeOn[m], back |-> Append(spot[i].back, spot[i].path)]
<1>1. IsSpot(s)
    BY DEF IsSpot
<1>2. spot = [k \in {1, 2} |-> spot[k]]
    BY TermFacts
<1>3. spot' = [spot EXCEPT ![i] = s]
    BY <1>2 DEF Bound
<1> HIDE DEF s
<1>4. QED
    BY <1>1, <1>3, SpotSet

LEMMA GoesFits ==
    ASSUME TermInv, NEW i \in {1, 2}, NEW path, NEW stood, Goes(i, path, stood)
    PROVE  /\ spot' = [k \in {1, 2} |-> spot'[k]] /\ \A k \in {1, 2} : IsSpot(spot'[k])
           /\ \A k \in {1, 2} : spot'[k].m = spot[k].m
<1>1. spot = [k \in {1, 2} |-> spot[k]] /\ \A k \in {1, 2} : IsSpot(spot[k])
    BY TermFacts
<1>2. CASE path = stood
    <2>1. spot' = spot
        BY <1>2 DEF Goes
    <2>2. QED
        BY <1>1, <2>1
<1>3. CASE path # stood
    <2> DEFINE o == spot[i]
               s == [o EXCEPT !.path = path, !.back = Append(@, o.path)]
    <2>1. o = [x \in {"m", "path", "back"} |-> o[x]] /\ o.m \in Machines \cup {Nowhere}
        BY <1>1 DEF IsSpot
    <2>2. spot' = [spot EXCEPT ![i] = s]
        BY <1>1, <1>3, <2>1 DEF Goes
    <2> HIDE DEF o
    <2>3. s.m = o.m /\ s = [x \in {"m", "path", "back"} |-> s[x]]
        BY <2>1
    <2> HIDE DEF s
    <2>4. IsSpot(s)
        BY <2>1, <2>3 DEF IsSpot
    <2>5. QED
        BY <2>2, <2>3, <2>4, SpotSet DEF o
<1>4. QED
    BY <1>2, <1>3

\* A line is entered, or handed over.
LEMMA Submits ==
    ASSUME TermInv, NEW l \in Lines, Len(line) < MaxLines, Submitted(l), UNCHANGED <<active, modals>>,
           rival \subseteq rival', Under \subseteq rival', Under # {} => Len(line) + 1 \in rival'
    PROVE  TermInv'
<1> DEFINE m == spot[active].m
           cwd == spot[active].path
           home == IF m = Nowhere THEN << >> ELSE HomeOn[m]
           w == Parsed(l, cwd, home)
           n == Len(line) + 1
<1>1. /\ spot = [k \in {1, 2} |-> spot[k]] /\ \A k \in {1, 2} : IsSpot(spot[k])
      /\ active \in {1, 2} /\ scroll \in Seq(Said) /\ Len(scroll) <= OutputLimit /\ Len(line) \in Nat
      /\ busy \in BOOLEAN
    BY TermFacts DEF TermInv, TermData
<1>2. n \in Nat
    BY <1>1
<1>3. ASSUME NEW kinds \in {<<"echo", "answer">>, <<"echo", "error">>, <<"echo">>}, Writes(n, kinds)
      PROVE  /\ scroll' \in Seq(Said) /\ Len(scroll') <= OutputLimit /\ (UnderEcho(scroll) => UnderEcho(scroll'))
             /\ scroll'[Len(scroll')].of = n
    <2>1. kinds \in Seq({"echo", "answer", "error"}) /\ kinds # << >> /\ kinds[1] = "echo"
        <3>1. CASE kinds = <<"echo", "answer">>
            BY <3>1
        <3>2. CASE kinds = <<"echo", "error">>
            BY <3>2
        <3>3. CASE kinds = <<"echo">>
            BY <3>3
        <3>4. QED
            BY <3>1, <3>2, <3>3
    <2>2. \A i \in DOMAIN kinds : kinds[i] = "echo" => i = 1
        <3>1. DOMAIN kinds \subseteq {1, 2} /\ (2 \in DOMAIN kinds => kinds[2] # "echo")
            OBVIOUS
        <3>2. QED
            BY <3>1
    <2> HIDE DEF n
    <2>3. QED
        BY <1>1, <1>2, <1>3, <2>1, <2>2, Written
<1> HIDE DEF n
<1>4. ASSUME NEW kinds \in {<<"echo", "answer">>, <<"echo", "error">>}, Says(w, kinds), busy' \in BOOLEAN,
             spot' = [k \in {1, 2} |-> spot'[k]], \A k \in {1, 2} : IsSpot(spot'[k])
      PROVE  TermInv'
    <2>1. line' = Append(line, Record(w, "over")) /\ Writes(n, kinds)
        BY <1>4 DEF Says, n
    <2>2. scroll' \in Seq(Said) /\ Len(scroll') <= OutputLimit /\ (UnderEcho(scroll) => UnderEcho(scroll'))
        BY <1>3, <2>1
    <2> HIDE DEF w
    <2>3. QED
        BY <1>1, <1>4, <2>1, <2>2, LineAdded
<1>5. \/ w.kind = "clear" /\ scroll' = << >> /\ line' = Append(line, Record(w, "over")) /\ UNCHANGED <<spot, busy>>
      \/ (\E kinds \in {<<"echo", "answer">>, <<"echo", "error">>} : Says(w, kinds)) /\ UNCHANGED <<spot, busy>>
      \/ /\ w.kind \in Removes => Grouped(w.targets)
         /\ line' = Append(line, Record(w, "ask")) /\ busy' = TRUE /\ Writes(n, <<"echo">>) /\ UNCHANGED spot
      \/ AtOnce(w) /\ busy' = FALSE
    BY DEF Submitted, Removes, n
<1>6. w.kind \in Removes => Len(w.targets) \in Nat \ {0} /\ w.targets = [i \in 1 .. Len(w.targets) |-> w.targets[i]]
    BY ParsedTargets
<1>7. w.kind = "ssh" => Called[w.name] \subseteq Machines
    BY ParsedHosts
<1> HIDE DEF w
<1>8. CASE w.kind = "clear" /\ scroll' = << >> /\ line' = Append(line, Record(w, "over")) /\ UNCHANGED <<spot, busy>>
    <2>1. << >> \in Seq(Said) /\ Len(<< >>) = 0 /\ UnderEcho(<< >>) /\ 0 <= OutputLimit
        BY TerminalAssumption DEF UnderEcho
    <2>2. scroll' \in Seq(Said) /\ Len(scroll') <= OutputLimit /\ UnderEcho(scroll')
        BY <1>8, <2>1
    <2>3. QED
        BY <1>1, <1>8, <2>2, LineAdded
<1>9. CASE (\E kinds \in {<<"echo", "answer">>, <<"echo", "error">>} : Says(w, kinds)) /\ UNCHANGED <<spot, busy>>
    BY <1>1, <1>4, <1>9
<1>10. CASE /\ w.kind \in Removes => Grouped(w.targets)
            /\ line' = Append(line, Record(w, "ask")) /\ busy' = TRUE /\ Writes(n, <<"echo">>) /\ UNCHANGED spot
    <2>1. /\ scroll' \in Seq(Said) /\ Len(scroll') <= OutputLimit /\ (UnderEcho(scroll) => UnderEcho(scroll'))
          /\ scroll'[Len(scroll')].of = Len(line) + 1
        BY <1>3, <1>10 DEF n
    <2>2. QED
        BY <1>1, <1>6, <1>10, <2>1, LineAdded
<1>11. CASE AtOnce(w) /\ busy' = FALSE
    <2>1. ASSUME w.kind = "ssh" PROVE TermInv'
        <3> DEFINE fits == Called[w.name]
                   into == IF Cardinality(fits) = 1 THEN fits \ ({m} \cup Bare) ELSE {}
        <3>1. Says(w, <<"echo", "answer">>) /\ spot' = IF into = {} THEN spot ELSE Bound(active, CHOOSE x \in into : TRUE)
            BY <1>11, <2>1 DEF AtOnce
        <3>2. into \subseteq Machines
            BY <1>7, <2>1
        <3> HIDE DEF into
        <3>3. spot' = [k \in {1, 2} |-> spot'[k]] /\ \A k \in {1, 2} : IsSpot(spot'[k])
            <4>1. CASE into = {}
                BY <3>1, <4>1, <1>1
            <4>2. CASE into # {}
                <5> DEFINE x == CHOOSE x \in into : TRUE
                <5>1. x \in Machines /\ spot' = Bound(active, x)
                    BY <3>1, <3>2, <4>2
                <5> HIDE DEF x
                <5>2. QED
                    BY <5>1, <1>1, BoundFits
            <4>3. QED
                BY <4>1, <4>2
        <3>4. QED
            BY <1>4, <1>11, <3>1, <3>3
    <2>2. ASSUME w.kind = "back" PROVE TermInv'
        <3> DEFINE o == spot[active]
                   keep == {i \in DOMAIN o.back : o.back[i] # o.path}
                   i == CHOOSE i \in keep : \A j \in keep : j <= i
                   s == [o EXCEPT !.path = o.back[i], !.back = SubSeq(@, 1, i - 1)]
        <3>1. Says(w, <<"echo", "answer">>)
            BY <1>11, <2>2 DEF AtOnce
        <3>2. spot' = IF keep = {} THEN spot ELSE [spot EXCEPT ![active].path = o.back[i], ![active].back = SubSeq(@, 1, i - 1)]
            BY <1>11, <2>2 DEF AtOnce
        <3>3. o = [x \in {"m", "path", "back"} |-> o[x]] /\ o.m \in Machines \cup {Nowhere}
            BY <1>1 DEF IsSpot
        <3> HIDE DEF i, keep
        <3>4. [spot EXCEPT ![active].path = o.back[i], ![active].back = SubSeq(@, 1, i - 1)] = [spot EXCEPT ![active] = s]
            BY <1>1, <3>3
        <3> HIDE DEF o
        <3>5. s.m = o.m /\ s = [x \in {"m", "path", "back"} |-> s[x]]
            BY <3>3
        <3> HIDE DEF s
        <3>6. IsSpot(s)
            BY <3>3, <3>5 DEF IsSpot
        <3>7. spot' = [k \in {1, 2} |-> spot'[k]] /\ \A k \in {1, 2} : IsSpot(spot'[k])
            <4>1. CASE keep = {}
                BY <3>2, <4>1, <1>1
            <4>2. CASE keep # {}
                BY <3>2, <3>4, <3>6, <4>2, <1>1, SpotSet
            <4>3. QED
                BY <4>1, <4>2
        <3>8. QED
            BY <1>4, <1>11, <3>1, <3>7
    <2>3. ASSUME w.kind # "ssh", w.kind # "back" PROVE TermInv'
        <3>1. (\E kinds \in {<<"echo", "answer">>, <<"echo", "error">>} : Says(w, kinds)) /\ spot' = spot
            BY <1>11, <2>3 DEF AtOnce
        <3>2. QED
            BY <1>1, <1>4, <1>11, <3>1
    <2>4. QED
        BY <2>1, <2>2, <2>3
<1>12. QED
    BY <1>5, <1>8, <1>9, <1>10, <1>11

LEMMA TermStart == TermInit => TermInv
<1> SUFFICES ASSUME TermInit PROVE TermInv
    OBVIOUS
<1>1. PICK m \in Machines : spot = <<[m |-> m, path |-> HomeOn[m], back |-> << >>], [m |-> Nowhere, path |-> << >>, back |-> << >>]>>
    BY DEF TermInit
<1>2. active = 1 /\ scroll = << >> /\ line = << >> /\ busy = FALSE /\ modals = {} /\ rival = {}
    BY DEF TermInit
<1>3. spot = [i \in {1, 2} |-> spot[i]] /\ \A i \in {1, 2} : IsSpot(spot[i])
    <2>1. IsSpot(spot[1]) /\ IsSpot(spot[2])
        BY <1>1 DEF IsSpot
    <2>2. DOMAIN spot = {1, 2}
        BY <1>1
    <2>3. spot = [i \in DOMAIN spot |-> spot[i]]
        BY <1>1
    <2>4. QED
        BY <2>1, <2>2, <2>3
<1>4. Len(line) = 0 /\ DOMAIN line = {} /\ line = [n \in 1 .. 0 |-> line[n]] /\ 0 <= MaxLines /\ 0 <= OutputLimit /\ scroll \in Seq(Said) /\ Len(scroll) = 0
    BY <1>2, TerminalAssumption
<1>5. TermData
    BY <1>2, <1>3, <1>4 DEF TermData
<1>6. Under = {} /\ DOMAIN scroll = {}
    BY <1>2, <1>4 DEF Under
<1>7. QED
    BY <1>2, <1>4, <1>5, <1>6 DEF TermInv, TermAsks, TermAlone, TermSaid, TermDialogs, CdLandsSomewhere,
                                  DialogIsOfOnePlace, AnswerUnderItsEcho

\* What answers a line that is under way is said under its echo.
LEMMA SaidUnder ==
    ASSUME TermInv, NEW n \in Under, NEW k \in {"answer", "error"}, Writes(n, <<k>>)
    PROVE  scroll' \in Seq(Said) /\ Len(scroll') <= OutputLimit /\ (rival = {} => UnderEcho(scroll'))
<1> DEFINE kinds == <<k>>
<1>1. kinds \in Seq({"echo", "answer", "error"}) /\ kinds # << >> /\ \A i \in DOMAIN kinds : kinds[i] = "echo" => i = 1
    OBVIOUS
<1>2. n \in Nat /\ scroll \in Seq(Said) /\ (rival = {} => UnderEcho(scroll))
    BY TermFacts DEF Under
<1>3. rival = {} => scroll = << >> \/ scroll[Len(scroll)].of = n
    BY DEF TermInv, TermSaid
<1>4. Writes(n, kinds)
    OBVIOUS
<1> HIDE DEF kinds
<1>5. QED
    BY <1>1, <1>2, <1>3, <1>4, Written

\* A line that is over is as it was.
LEMMA OverIs ==
    ASSUME TermInv, NEW n \in Under, Over(n)
    PROVE  LET r == [line[n] EXCEPT !.at = "over"]
           IN  /\ IsRecord(r) /\ r.at = "over" /\ r.want = line[n].want /\ r.m = line[n].m
               /\ line' = [line EXCEPT ![n] = r] /\ busy' = FALSE
               /\ r.to # << >> /\ n \notin rival => ComesToDir(r)
<1> DEFINE o == line[n]
           r == [o EXCEPT !.at = "over"]
<1>1. n \in DOMAIN line /\ IsRecord(o) /\ (o.to # << >> /\ n \notin rival => ComesToDir(o))
    BY TermFacts DEF Under
<1>2. line' = [line EXCEPT ![n] = r] /\ busy' = FALSE
    BY DEF Over
<1>3. o = [x \in LineHas |-> o[x]] /\ o.pane \in {1, 2} /\ o.found \in Nat
    BY <1>1 DEF IsRecord
<1> HIDE DEF o
<1>4. /\ r.at = "over" /\ r.want = o.want /\ r.m = o.m /\ r.to = o.to /\ r.pane = o.pane /\ r.found = o.found
      /\ r = [x \in LineHas |-> r[x]]
    BY <1>3 DEF LineHas
<1> HIDE DEF r
<1>5. IsRecord(r)
    BY <1>3, <1>4 DEF IsRecord
<1>6. r.to # << >> /\ n \notin rival => ComesToDir(r)
    BY <1>1, <1>4 DEF ComesToDir
<1>7. QED
    BY <1>2, <1>4, <1>5, <1>6 DEF r, o

\* A line is over and says so.
LEMMA LineSays ==
    ASSUME TermInv, NEW n \in Under, NEW k \in {"answer", "error"}, Over(n), Writes(n, <<k>>),
           UNCHANGED <<spot, active, modals, rival>>
    PROVE  TermInv'
<1> DEFINE r == [line[n] EXCEPT !.at = "over"]
<1>1. /\ IsRecord(r) /\ r.at = "over" /\ r.want = line[n].want /\ r.m = line[n].m
      /\ line' = [line EXCEPT ![n] = r] /\ busy' = FALSE
      /\ r.to # << >> /\ n \notin rival => ComesToDir(r)
    BY OverIs
<1>2. scroll' \in Seq(Said) /\ Len(scroll') <= OutputLimit /\ (rival = {} => UnderEcho(scroll'))
    BY SaidUnder
<1>3. spot' = [i \in {1, 2} |-> spot'[i]] /\ \A i \in {1, 2} : IsSpot(spot'[i])
    BY TermFacts
<1>4. \A d \in modals' : d \in modals \/ d.kind = "toolbar" \/ (d.of = n /\ OfOnePlace(d, n))
    OBVIOUS
<1> HIDE DEF r
<1>5. QED
    BY <1>1, <1>2, <1>3, <1>4, LineEnds

LEMMA MovesKeeps ==
    ASSUME TermInv, NEW n \in Under, TermMoves(n) PROVE TermInv'
<1> DEFINE o == line[n]
           to == o.want.targets[1]
           r == [o EXCEPT !.at = "over", !.to = <<spot[o.pane].m, to>>]
<1>1. n \in DOMAIN line /\ IsRecord(o)
    BY TermFacts DEF Under
<1>2. /\ to \in DOMAIN Trees[o.m] /\ Trees[o.m][to] = "dir"
      /\ line' = [line EXCEPT ![n].at = "over", ![n].to = <<spot[o.pane].m, to>>] /\ busy' = FALSE
      /\ Writes(n, <<"answer">>) /\ Goes(o.pane, to, o.cwd)
      /\ UNCHANGED <<active, modals, rival>>
    BY DEF TermMoves, Landed, Finds
<1>3. line = [k \in 1 .. Len(line) |-> line[k]] /\ DOMAIN line = 1 .. Len(line)
    BY TermFacts
<1>4. o = [x \in LineHas |-> o[x]] /\ o.pane \in {1, 2} /\ o.found \in Nat
    BY <1>1 DEF IsRecord
<1> HIDE DEF to
<1>5. line' = [line EXCEPT ![n] = r]
    BY <1>1, <1>2, <1>3, <1>4
<1>6. n \notin rival => spot[o.pane].m = o.m
    BY DEF TermInv, TermAlone
<1>7. /\ spot' = [k \in {1, 2} |-> spot'[k]] /\ \A k \in {1, 2} : IsSpot(spot'[k])
    BY <1>2, <1>4, GoesFits
<1>8. scroll' \in Seq(Said) /\ Len(scroll') <= OutputLimit /\ (rival = {} => UnderEcho(scroll'))
    BY <1>2, SaidUnder
<1> HIDE DEF o
<1>9. /\ r.at = "over" /\ r.want = o.want /\ r.m = o.m /\ r.to = <<spot[o.pane].m, to>> /\ r.pane = o.pane /\ r.found = o.found
      /\ r = [x \in LineHas |-> r[x]]
    BY <1>4 DEF LineHas
<1> HIDE DEF r
<1>10. IsRecord(r)
    BY <1>4, <1>9 DEF IsRecord
<1>11. n \notin rival => ComesToDir(r)
    BY <1>2, <1>6, <1>9 DEF ComesToDir
<1>12. \A d \in modals' : d \in modals \/ d.kind = "toolbar" \/ (d.of = n /\ OfOnePlace(d, n))
    BY <1>2
<1>13. r.want = line[n].want /\ r.m = line[n].m
    BY <1>9 DEF o
<1>14. QED
    BY <1>2, <1>5, <1>7, <1>8, <1>9, <1>10, <1>11, <1>12, <1>13, LineEnds

LEMMA ScansKeeps ==
    ASSUME TermInv, NEW n \in Under, TermScans(n) PROVE TermInv'
<1>1. UNCHANGED <<spot, active, modals, rival>>
    BY DEF TermScans
<1>2. CASE Over(n) /\ Writes(n, <<"answer">>)
    BY <1>1, <1>2, LineSays
<1>3. CASE line' = [line EXCEPT ![n].at = "start"] /\ UNCHANGED <<busy, scroll>>
    <2> DEFINE o == line[n]
               r == [o EXCEPT !.at = "start"]
    <2>1. n \in DOMAIN line /\ IsRecord(o) /\ o.want.kind = "scan"
        BY TermFacts DEF Under, TermScans
    <2>2. o = [x \in LineHas |-> o[x]] /\ o.pane \in {1, 2} /\ o.found \in Nat
        BY <2>1 DEF IsRecord
    <2>3. line' = [line EXCEPT ![n] = r]
        BY <1>3
    <2> HIDE DEF o
    <2>4. /\ r.at = "start" /\ r.want = o.want /\ r.m = o.m /\ r.to = o.to /\ r.pane = o.pane /\ r.found = o.found
          /\ r = [x \in LineHas |-> r[x]]
        BY <2>2 DEF LineHas
    <2> HIDE DEF r
    <2>5. IsRecord(r)
        BY <2>2, <2>4 DEF IsRecord
    <2>6. r.want.kind \notin Removes
        BY <2>1, <2>4 DEF Removes
    <2>7. r.want = line[n].want /\ r.m = line[n].m /\ r.pane = line[n].pane /\ r.to = line[n].to /\ r.at # "over"
        BY <2>4 DEF o
    <2>8. QED
        BY <1>1, <1>3, <2>3, <2>5, <2>6, <2>7, LineGoesOn
<1>4. QED
    BY <1>2, <1>3 DEF TermScans

LEMMA StatsKeeps ==
    ASSUME TermInv, NEW n \in Under, TermStats(n) PROVE TermInv'
<1> DEFINE o == line[n]
           ps == o.want.targets
           i == o.found + 1
           d0 == [kind |-> o.want.kind, m |-> o.m, dir |-> Front(ps[1]), rows |-> ToSet(ps), of |-> n]
<1>1. n \in DOMAIN line /\ IsRecord(o) /\ o.want.kind \in Removes
    BY TermFacts DEF Under, TermStats, Removes
<1>2. UNCHANGED <<spot, active, rival>> /\ ps[i] \in DOMAIN Trees[o.m]
    BY DEF TermStats, Finds
<1>3. \/ i < Len(ps) /\ line' = [line EXCEPT ![n].found = i] /\ UNCHANGED <<busy, scroll, modals>>
      \/ Over(n) /\ Writes(n, <<"error">>) /\ UNCHANGED modals
      \/ /\ ~(i < Len(ps)) /\ (o.want.kind = "rm" => MayRemove(n, ToSet(ps)))
         /\ Over(n) /\ UNCHANGED scroll
         /\ modals' = {d \in modals : d.kind # o.want.kind} \cup {d0}
    BY DEF TermStats
<1>4. o = [x \in LineHas |-> o[x]] /\ o.pane \in {1, 2} /\ o.found \in Nat /\ o.at \in {"ask", "start", "over"} /\ o.at # "over"
    BY <1>1 DEF IsRecord, Under, Going
<1>5. /\ Len(ps) \in Nat \ {0} /\ ps = [k \in 1 .. Len(ps) |-> ps[k]] /\ Grouped(ps) /\ o.found < Len(ps)
      /\ \A k \in 1 .. o.found : ps[k] \in DOMAIN Trees[o.m]
    BY <1>1 DEF TermInv, TermAsks, Finds
<1>6. \A k \in 1 .. i : ps[k] \in DOMAIN Trees[o.m]
    <2> SUFFICES ASSUME NEW k \in 1 .. i PROVE ps[k] \in DOMAIN Trees[o.m]
        OBVIOUS
    <2>1. k \in 1 .. o.found \/ k = i
        BY <1>4
    <2>2. QED
        BY <1>2, <1>5, <2>1
<1>7. CASE i < Len(ps) /\ line' = [line EXCEPT ![n].found = i] /\ UNCHANGED <<busy, scroll, modals>>
    <2> DEFINE r == [o EXCEPT !.found = i]
    <2>1. line' = [line EXCEPT ![n] = r]
        BY <1>7
    <2> HIDE DEF o, i, ps
    <2>2. /\ r.at = o.at /\ r.want = o.want /\ r.m = o.m /\ r.to = o.to /\ r.pane = o.pane /\ r.found = i
          /\ r = [x \in LineHas |-> r[x]]
        BY <1>4 DEF LineHas
    <2> HIDE DEF r
    <2>3. i \in Nat
        BY <1>4 DEF i
    <2>4. IsRecord(r)
        BY <1>4, <2>2, <2>3 DEF IsRecord
    <2>5. r.found < Len(r.want.targets) /\ \A k \in 1 .. r.found : r.want.targets[k] \in DOMAIN Trees[r.m]
        BY <1>6, <1>7, <2>2 DEF ps
    <2>6. r.want = line[n].want /\ r.m = line[n].m /\ r.pane = line[n].pane /\ r.to = line[n].to /\ r.at # "over"
        BY <1>4, <2>2 DEF o
    <2>7. QED
        BY <1>2, <1>7, <2>1, <2>4, <2>5, <2>6, LineGoesOn
<1>8. CASE Over(n) /\ Writes(n, <<"error">>) /\ UNCHANGED modals
    BY <1>2, <1>8, LineSays
<1>9. CASE /\ ~(i < Len(ps)) /\ (o.want.kind = "rm" => MayRemove(n, ToSet(ps)))
           /\ Over(n) /\ UNCHANGED scroll
           /\ modals' = {d \in modals : d.kind # o.want.kind} \cup {d0}
    <2> DEFINE r == [line[n] EXCEPT !.at = "over"]
    <2>1. /\ IsRecord(r) /\ r.at = "over" /\ r.want = line[n].want /\ r.m = line[n].m
          /\ line' = [line EXCEPT ![n] = r] /\ busy' = FALSE
          /\ r.to # << >> /\ n \notin rival => ComesToDir(r)
        BY <1>9, OverIs
    <2>2. d0.kind = o.want.kind /\ d0.m = o.m /\ d0.dir = Front(ps[1]) /\ d0.rows = ToSet(ps) /\ d0.of = n
        OBVIOUS
    <2>3. o.want.kind = "rm" /\ ~o.want.deep => \A p \in ToSet(ps) : Trees[o.m][p] # "dir"
        BY <1>9 DEF MayRemove
    <2> HIDE DEF r, d0
    <2>4. OfOnePlace(d0, n)
        <3>1. \A p \in ToSet(ps) : \E k \in 1 .. Len(ps) : p = ps[k]
            <4>1. ToSet(ps) = {ps[k] : k \in DOMAIN ps}
                BY DEF ToSet
            <4> HIDE DEF ps
            <4>2. DOMAIN ps = 1 .. Len(ps)
                BY <1>5
            <4>3. QED
                BY <4>1, <4>2
        <3>2. \A k \in 1 .. Len(ps) : k \in 1 .. i
            BY <1>4, <1>5, <1>9
        <3>3. \A k \in 1 .. Len(ps) : Front(ps[k]) = Front(ps[1])
            <4> HIDE DEF ps
            <4>1. DOMAIN ps = 1 .. Len(ps) /\ 1 \in 1 .. Len(ps)
                BY <1>5
            <4>2. QED
                BY <1>5, <4>1 DEF Grouped
        <3> HIDE DEF ps, i
        <3>4. \A p \in d0.rows : p \in DOMAIN Trees[d0.m] /\ Front(p) = d0.dir
            BY <2>2, <3>1, <3>2, <3>3, <1>6
        <3>5. d0.kind = "rm" /\ ~line[n].want.deep => \A p \in d0.rows : Trees[d0.m][p] # "dir"
            BY <2>2, <2>3
        <3>6. QED
            BY <2>2, <3>4, <3>5 DEF OfOnePlace
    <2>5. \A d \in modals' : d \in modals \/ d.kind = "toolbar" \/ (d.of = n /\ OfOnePlace(d, n))
        BY <1>9, <2>2, <2>4
    <2>6. /\ scroll' \in Seq(Said) /\ Len(scroll') <= OutputLimit /\ (rival = {} => UnderEcho(scroll'))
          /\ spot' = [k \in {1, 2} |-> spot'[k]] /\ \A k \in {1, 2} : IsSpot(spot'[k])
        BY <1>2, <1>9, TermFacts
    <2>7. QED
        BY <1>2, <2>1, <2>5, <2>6, LineEnds
<1>10. QED
    BY <1>3, <1>7, <1>8, <1>9

LEMMA TermKeeps == TermInv /\ [TermNext]_termVars => TermInv'
<1> SUFFICES ASSUME TermInv, [TermNext]_termVars PROVE TermInv'
    OBVIOUS
<1> USE DEF Does
<1>1. ASSUME NEW l \in Lines, TermEnter(l) PROVE TermInv'
    <2>1. ~busy /\ Len(line) < MaxLines /\ Submitted(l) /\ Entered /\ UNCHANGED <<active, modals>>
        BY <1>1 DEF TermEnter
    <2>2. Under \subseteq rival
        BY <2>1 DEF TermInv, TermAlone
    <2>3. rival \subseteq rival' /\ Under \subseteq rival' /\ (Under # {} => Len(line) + 1 \in rival')
        BY <2>1, <2>2 DEF Entered
    <2>4. QED
        BY <2>1, <2>3, Submits
<1>2. ASSUME NEW l \in Lines, TermHanded(l) PROVE TermInv'
    <2>1. Len(line) < MaxLines /\ Submitted(l) /\ UNCHANGED <<active, modals>>
        BY <1>2 DEF TermHanded
    <2>2. rival \subseteq rival' /\ Under \subseteq rival' /\ (Under # {} => Len(line) + 1 \in rival')
        BY <1>2 DEF TermHanded
    <2>3. QED
        BY <2>1, <2>2, Submits
<1>3. ASSUME NEW n \in DOMAIN line, TermStep(n) PROVE TermInv'
    <2>1. n \in Under
        BY <1>3 DEF TermStep, TermPrints, TermMoves, TermScans, TermStats, TermFails, Under
    <2>2. CASE TermPrints(n)
        BY <2>1, <2>2, LineSays DEF TermPrints
    <2>3. CASE TermFails(n)
        BY <2>1, <2>3, LineSays DEF TermFails, Fails
    <2>4. QED
        BY <1>3, <2>1, <2>2, <2>3, MovesKeeps, ScansKeeps, StatsKeeps DEF TermStep
<1>4. ASSUME NEW i \in {1, 2}, PageGoes(i) PROVE TermInv'
    <2>1. \E p : Goes(i, p, spot[i].path)
        BY <1>4 DEF PageGoes
    <2>2. /\ spot' = [k \in {1, 2} |-> spot'[k]] /\ \A k \in {1, 2} : IsSpot(spot'[k])
          /\ \A k \in {1, 2} : spot'[k].m = spot[k].m
        BY <2>1, GoesFits
    <2>3. UNCHANGED <<active, scroll, line, busy, modals, rival>>
        BY <1>4 DEF PageGoes
    <2>4. \A n \in Under : line[n].pane \in {1, 2}
        BY TermFacts DEF Under, IsRecord
    <2>5. active' \in {1, 2}
        BY <2>3, TermFacts
    <2>6. QED
        BY <2>2, <2>3, <2>4, <2>5, LineStays
<1>5. ASSUME NEW i \in {1, 2}, PageBinds(i) PROVE TermInv'
    <2>1. PICK m \in Machines : spot' = Bound(i, m)
        BY <1>5 DEF PageBinds
    <2>2. /\ spot' = [k \in {1, 2} |-> spot'[k]] /\ \A k \in {1, 2} : IsSpot(spot'[k])
          /\ \A k \in {1, 2} : k # i => spot'[k] = spot[k]
        BY <2>1, BoundFits
    <2>3. UNCHANGED <<active, scroll, line, busy, modals>> /\ rival' = rival \cup {n \in Under : line[n].pane = i}
        BY <1>5 DEF PageBinds
    <2>4. \A n \in Under : line[n].pane \in {1, 2}
        BY TermFacts DEF Under, IsRecord
    <2>5. active' \in {1, 2}
        BY <2>3, TermFacts
    <2>6. \A n \in Under \ rival' : spot'[line[n].pane].m = spot[line[n].pane].m
        BY <2>2, <2>3, <2>4
    <2>7. rival \subseteq rival'
        BY <2>3
    <2>8. QED
        BY <2>2, <2>3, <2>5, <2>6, <2>7, LineStays
<1>6. ASSUME UNCHANGED <<spot, line, busy, rival>>, active' = active \/ active' = 3 - active,
             scroll' = scroll \/ scroll' = << >>, \A d \in modals' : d \in modals \/ d.kind = "toolbar"
      PROVE  TermInv'
    <2>1. active' \in {1, 2} /\ spot' = [k \in {1, 2} |-> spot'[k]] /\ \A k \in {1, 2} : IsSpot(spot'[k])
        BY <1>6, TermFacts
    <2>2. QED
        BY <1>6, <2>1, LineStays
<1>7. CASE PageActivates \/ PageOpens \/ PageCloses \/ PageClears \/ UNCHANGED termVars
    <2>1. UNCHANGED <<spot, line, busy, rival>>
        BY <1>7 DEF PageActivates, PageOpens, PageCloses, PageClears, termVars
    <2>2. active' = active \/ active' = 3 - active
        BY <1>7 DEF PageActivates, PageOpens, PageCloses, PageClears, termVars
    <2>3. scroll' = scroll \/ scroll' = << >>
        BY <1>7 DEF PageActivates, PageOpens, PageCloses, PageClears, termVars
    <2>4. \A d \in modals' : d \in modals \/ d.kind = "toolbar"
        BY <1>7 DEF PageActivates, PageOpens, PageCloses, PageClears, termVars
    <2>5. QED
        BY <1>6, <2>1, <2>2, <2>3, <2>4
<1>8. QED
    BY <1>1, <1>2, <1>3, <1>4, <1>5, <1>7 DEF TermNext

LEMMA TermHolds == TermInv => TermTypeOK /\ CdLandsSomewhere /\ DialogIsOfOnePlace /\ AnswerUnderItsEcho
BY DEF TermInv, TermTypeOK, TermData, IsRecord, IsSpot

\* A line of the terminal takes its pane to a directory that is there, opens a
\* dialog on things of one directory, and is answered under its echo
\* (CdLandsSomewhere, DialogIsOfOnePlace, AnswerUnderItsEcho).
THEOREM TerminalTellsTrue == TermSpec => [](CdLandsSomewhere /\ DialogIsOfOnePlace /\ AnswerUnderItsEcho)
BY TermStart, TermKeeps, TermHolds, PTL DEF TermSpec
-----------------------------------------------------------------------------
(* The dialogs.                                                            *)

\* Records by their fields, whatever these hold.
FormFields == {"up", "op", "aim", "blanket", "rows", "typed", "given", "cut", "stood", "busy", "leaving"}
PostFields == {"k", "of", "form", "no", "pane", "live", "lead", "at"}
IsForm(f)  == f = [x \in FormFields |-> f[x]]
IsPost(r)  == r.k \in Kinds3 /\ r = [x \in PostFields |-> r[x]]

PastePanel == dlg["paste"]
Pastes     == {r \in posts : r.k = "paste"}
Pasted     == {d \in sent : d.k = "paste"}
MovedOnes      == {d \in Pasted : d.of.op = "move"}

DlgData ==
    /\ acts \in Nat /\ hasty \in BOOLEAN
    /\ dlg = [k \in Kinds3 |-> dlg[k]] /\ \A k \in Kinds3 : IsForm(dlg[k])
    /\ \A r \in posts : IsPost(r)

\* One paste at a time: its source is being listed, or its dialog is up, or a
\* request of that dialog is under way.
OnePaste ==
    /\ \A l, m \in lookups : l = m
    /\ lookups # {} => ~PastePanel.up /\ Pastes = {}
    /\ \A r, q \in Pastes : r = q
    /\ \A r \in Pastes : IF r.live THEN PastePanel.up /\ PastePanel.busy /\ PastePanel.cut = r.form.cut
                                   ELSE ~PastePanel.up

\* What is held, looked for, shown and sent was taken at some time, and a
\* request puts it as it was taken.
PasteIsOf ==
    /\ clip # NoClip => clip.no \in 1 .. acts
    /\ \A l \in lookups : l.clip.no \in 1 .. acts
    /\ PastePanel.up => PastePanel.cut.no \in 1 .. acts /\ PastePanel.aim.op = PastePanel.cut.op
    /\ \A r \in Pastes \cup Pasted : r.form.cut.no \in 1 .. acts /\ r.of.op = r.form.cut.op

\* What was moved is nowhere any more: neither held nor looked for, in no
\* request under way, and the dialog that shows it leaves.
MovedIsGone ==
    \A d \in MovedOnes :
        /\ clip # d.form.cut
        /\ \A l \in lookups : l.clip # d.form.cut
        /\ \A r \in Pastes : r.form.cut # d.form.cut
        /\ PastePanel.up /\ PastePanel.cut = d.form.cut => PastePanel.leaving
        /\ \A e \in Pasted : e.form.cut = d.form.cut => d = e

DlgInv == DlgData /\ (~hasty => OnePaste /\ PasteIsOf /\ MovedIsGone)

LEMMA DlgStart == DlgInit => DlgInv
<1> SUFFICES ASSUME DlgInit PROVE DlgInv
    OBVIOUS
<1>1. dlg = [k \in Kinds3 |-> Shut] /\ IsForm(Shut) /\ Shut.up = FALSE
    BY DEF DlgInit, IsForm, FormFields, Shut
<1>2. PastePanel = Shut /\ Pastes = {} /\ Pasted = {} /\ MovedOnes = {}
    BY <1>1 DEF DlgInit, PastePanel, Pastes, Pasted, MovedOnes, Kinds3
<1>3. DlgData
    BY <1>1 DEF DlgInit, DlgData
<1>4. OnePaste /\ PasteIsOf /\ MovedIsGone
    BY <1>1, <1>2 DEF DlgInit, OnePaste, PasteIsOf, MovedIsGone
<1>5. QED
    BY <1>3, <1>4 DEF DlgInv

\* What leaves the paste, its requests and what was sent as they are, and
\* takes nothing into the clipboard.
LEMMA DlgAside ==
    ASSUME DlgInv, DlgData', acts <= acts', hasty' = hasty,
           UNCHANGED <<lookups, sent>>, Pastes' = Pastes, clip' \in {clip, NoClip},
           PastePanel'.up = PastePanel.up, PastePanel'.busy = PastePanel.busy,
           PastePanel'.cut = PastePanel.cut, PastePanel'.aim = PastePanel.aim,
           PastePanel.leaving => PastePanel'.leaving
    PROVE  DlgInv'
<1> SUFFICES ASSUME ~hasty PROVE OnePaste' /\ PasteIsOf' /\ MovedIsGone'
    BY DEF DlgInv
<1>1. OnePaste /\ PasteIsOf /\ MovedIsGone /\ acts \in Nat /\ acts' \in Nat
    BY DEF DlgInv, DlgData
<1>2. Pasted' = Pasted /\ MovedOnes' = MovedOnes
    BY DEF Pasted, MovedOnes
<1>3. OnePaste'
    BY <1>1 DEF OnePaste
<1>4. PasteIsOf'
    BY <1>1, <1>2 DEF PasteIsOf
<1>5. \A d \in MovedOnes : d.form.cut # NoClip
    BY <1>1 DEF PasteIsOf, MovedOnes, NoClip
<1>6. MovedIsGone'
    BY <1>1, <1>2, <1>5 DEF MovedIsGone
<1>7. QED
    BY <1>3, <1>4, <1>6

\* Requests whose dialog goes are frozen, and stay the requests they are.
LEMMA FrozenPosts ==
    ASSUME NEW ps, \A r \in ps : IsPost(r), NEW gone
    PROVE  /\ \A q \in Frozen(ps, gone) : IsPost(q)
           /\ \A q \in Frozen(ps, gone) : \E r \in ps :
                 /\ q.k = r.k /\ q.of = r.of /\ q.form = r.form
                 /\ IF r.k \in gone /\ r.live THEN q.live = FALSE ELSE q = r
           /\ "paste" \notin gone => {q \in Frozen(ps, gone) : q.k = "paste"} = {r \in ps : r.k = "paste"}
<1> DEFINE F(r) == IF r.k \in gone /\ r.live
                   THEN [r EXCEPT !.live = FALSE, !.lead = lead, !.at = <<side[1].at, side[2].at>>] ELSE r
<1>1. ASSUME NEW r \in ps
      PROVE  /\ IsPost(F(r)) /\ F(r).k = r.k /\ F(r).of = r.of /\ F(r).form = r.form
             /\ IF r.k \in gone /\ r.live THEN F(r).live = FALSE ELSE F(r) = r
    <2>1. CASE r.k \in gone /\ r.live
        BY <2>1 DEF IsPost, PostFields
    <2>2. CASE ~(r.k \in gone /\ r.live)
        BY <2>2
    <2>3. QED
        BY <2>1, <2>2
<1>2. Frozen(ps, gone) = {F(r) : r \in ps}
    BY DEF Frozen
<1> HIDE DEF F
<1>3. "paste" \notin gone => \A r \in ps : r.k = "paste" => F(r) = r
    BY <1>1
<1>4. "paste" \notin gone => {q \in Frozen(ps, gone) : q.k = "paste"} = {r \in ps : r.k = "paste"}
    <2> SUFFICES ASSUME "paste" \notin gone
                 PROVE  {q \in Frozen(ps, gone) : q.k = "paste"} = {r \in ps : r.k = "paste"}
        OBVIOUS
    <2>1. ASSUME NEW q \in Frozen(ps, gone), q.k = "paste" PROVE q \in ps
        <3>1. PICK r \in ps : q = F(r)
            BY <1>2
        <3>2. r.k = "paste"
            BY <3>1, <2>1, <1>1
        <3>3. QED
            BY <3>1, <3>2, <1>3
    <2>2. ASSUME NEW r \in ps, r.k = "paste" PROVE r \in Frozen(ps, gone)
        BY <2>2, <1>2, <1>3
    <2>3. QED
        BY <2>1, <2>2
<1>5. QED
    BY <1>1, <1>2, <1>4

\* The render after a step puts away a transfer or a removal at most: the paste
\* and its requests are as the step left them.
LEMMA Rendered ==
    ASSUME NEW d, NEW s, NEW l, NEW i, NEW ps, NEW under, Render(d, s, l, i, ps, under),
           \A k \in Kinds3 : IsForm(d[k]), \A r \in ps : IsPost(r)
    PROVE  /\ dlg' = [k \in Kinds3 |-> dlg'[k]] /\ \A k \in Kinds3 : IsForm(dlg'[k])
           /\ \A r \in posts' : IsPost(r)
           /\ PastePanel' = d["paste"] /\ Pastes' = {r \in ps : r.k = "paste"}
<1>1. PICK gone \in SUBSET Live :
          /\ dlg' = [k \in Kinds3 |-> IF k \in gone THEN Shut ELSE d[k]] /\ posts' = Frozen(ps, gone)
    BY DEF Render
<1>2. IsForm(Shut)
    BY DEF IsForm, FormFields, Shut
<1>3. "paste" \notin gone /\ "paste" \in Kinds3
    BY DEF Live, Kinds3
<1>4. QED
    BY <1>1, <1>2, <1>3, FrozenPosts DEF PastePanel, Pastes

\* The form of a dialog that is opened.
LEMMA OpenedForm ==
    ASSUME NEW g, IsForm(g), NEW op PROVE IsForm([g EXCEPT !.up = TRUE, !.op = op])
BY DEF IsForm, FormFields

\* The form of a dialog after one of its fields changes.
LEMMA FormOf ==
    ASSUME DlgData, NEW k \in Kinds3, NEW f, IsForm(f)
    PROVE  /\ [dlg EXCEPT ![k] = f] = [j \in Kinds3 |-> IF j = k THEN f ELSE dlg[j]]
           /\ \A j \in Kinds3 : IsForm([dlg EXCEPT ![k] = f][j])
           /\ [dlg EXCEPT ![k] = f][k] = f
           /\ k # "paste" => [dlg EXCEPT ![k] = f]["paste"] = PastePanel
BY DEF DlgData, PastePanel, Kinds3

\* A key of the panes, an opening of the two dialogs that follow them, and a
\* listing that is read again.
LEMMA PanesKeep ==
    ASSUME DlgInv,
           \/ \E d \in DlgDirs : GoTo(d) \/ Relisted(d) \/ \E n \in DlgNames : Elsewhere(d, n)
           \/ \E n \in DlgNames : Pick(n) \/ Mark(n)
           \/ TabKey
           \/ \E k \in Live, op \in {"copy", "move", "delete"} : Open(k, op)
    PROVE  DlgInv'
<1>1. /\ acts \in Nat /\ hasty \in BOOLEAN /\ \A k \in Kinds3 : IsForm(dlg[k])
      /\ \A r \in posts : IsPost(r)
    BY DEF DlgInv, DlgData
<1>2. ASSUME NEW d, \A k \in Kinds3 : IsForm(d[k]), d["paste"] = PastePanel,
             NEW s, NEW l, NEW i, NEW under, Render(d, s, l, i, posts, under),
             acts' \in {acts, acts + 1}, UNCHANGED <<clip, lookups, sent, hasty>>
      PROVE  DlgInv'
    <2>1. /\ dlg' = [k \in Kinds3 |-> dlg'[k]] /\ \A k \in Kinds3 : IsForm(dlg'[k])
          /\ \A r \in posts' : IsPost(r)
          /\ PastePanel' = PastePanel /\ Pastes' = Pastes
        BY <1>1, <1>2, Rendered DEF Pastes
    <2>2. acts' \in Nat /\ acts <= acts'
        BY <1>1, <1>2
    <2>3. DlgData'
        BY <1>1, <1>2, <2>1, <2>2 DEF DlgData
    <2>4. QED
        BY <1>2, <2>1, <2>2, <2>3, DlgAside
<1>3. ASSUME NEW s, NEW i, PaneKey(s, i) PROVE DlgInv'
    BY <1>1, <1>2, <1>3 DEF PaneKey, PastePanel
<1>4. CASE \E d \in DlgDirs : GoTo(d)
    BY <1>3, <1>4 DEF GoTo
<1>5. CASE \E n \in DlgNames : Pick(n) \/ Mark(n)
    BY <1>3, <1>5 DEF Pick, Mark
<1>6. CASE TabKey
    BY <1>3, <1>6 DEF TabKey
<1>7. CASE \E d \in DlgDirs : Relisted(d)
    BY <1>1, <1>2, <1>7 DEF Relisted, PastePanel
<1>8. CASE \E d \in DlgDirs, n \in DlgNames : Elsewhere(d, n)
    <2>1. acts' = acts + 1 /\ UNCHANGED <<clip, lookups, sent, hasty, dlg, posts>>
        BY <1>8 DEF Elsewhere
    <2>2. DlgData' /\ acts <= acts'
        BY <1>1, <2>1 DEF DlgInv, DlgData
    <2>3. QED
        BY <2>1, <2>2, DlgAside DEF PastePanel, Pastes
<1>9. CASE \E k \in Live, op \in {"copy", "move", "delete"} : Open(k, op)
    <2>1. PICK k \in Live, op \in {"copy", "move", "delete"} : Open(k, op)
        BY <1>9
    <2> DEFINE d == [dlg EXCEPT ![k].up = TRUE, ![k].op = op]
               f == [dlg[k] EXCEPT !.up = TRUE, !.op = op]
    <2>2. k \in Kinds3 /\ k # "paste"
        BY DEF Live, Kinds3
    <2>3. IsForm(f)
        BY <1>1, <2>2, OpenedForm
    <2>4. d = [dlg EXCEPT ![k] = f]
        BY <1>1, <2>2 DEF DlgInv, DlgData
    <2> HIDE DEF d, f
    <2>5. (\A j \in Kinds3 : IsForm(d[j])) /\ d["paste"] = PastePanel
        BY <2>2, <2>3, <2>4, FormOf DEF DlgInv
    <2>6. Render(d, side, listed, lead, posts, AnyUp) /\ acts' = acts + 1 /\ UNCHANGED <<clip, lookups, sent, hasty>>
        BY <2>1 DEF Open, d
    <2>7. QED
        BY <2>5, <2>6, <1>2
<1>10. QED
    BY <1>4, <1>5, <1>6, <1>7, <1>8, <1>9

\* The clipboard: what is taken is newer than all that was moved.
LEMMA ClipKeeps ==
    ASSUME DlgInv, LetGo \/ PutDown \/ (\E op \in {"copy", "move"} : Take(op)) PROVE DlgInv'
<1>1. acts' = acts + 1 /\ acts \in Nat /\ ~AnyUp /\ UNCHANGED <<sent, dlg, posts>> /\ acts' \in Nat /\ acts <= acts'
    BY DEF LetGo, PutDown, Take, Chord, DlgInv, DlgData
<1>2. PastePanel' = PastePanel /\ Pastes' = Pastes /\ Pasted' = Pasted /\ MovedOnes' = MovedOnes
    BY <1>1 DEF PastePanel, Pastes, Pasted, MovedOnes
<1>3. ~PastePanel.up
    BY <1>1 DEF AnyUp, PastePanel, Kinds3
<1>4. DlgData'
    BY <1>1 DEF LetGo, PutDown, Take, DlgInv, DlgData
<1>5. CASE LetGo
    BY <1>1, <1>2, <1>4, <1>5, DlgAside DEF LetGo
<1>6. CASE \E op \in {"copy", "move"} : Take(op)
    <2> SUFFICES ASSUME ~hasty PROVE OnePaste' /\ PasteIsOf' /\ MovedIsGone'
        BY <1>4, <1>6 DEF DlgInv, Take
    <2>1. clip'.no = acts + 1 /\ UNCHANGED lookups
        BY <1>1, <1>6 DEF Take
    <2>2. OnePaste /\ PasteIsOf /\ MovedIsGone
        BY DEF DlgInv
    <2>3. OnePaste' /\ PasteIsOf'
        BY <1>1, <1>2, <2>1, <2>2 DEF OnePaste, PasteIsOf
    <2>4. \A d \in MovedOnes : clip' # d.form.cut
        BY <1>1, <2>1, <2>2 DEF PasteIsOf, MovedOnes
    <2>5. MovedIsGone'
        BY <1>2, <2>1, <2>2, <2>4 DEF MovedIsGone
    <2>6. QED
        BY <2>3, <2>5
<1>7. CASE PutDown
    <2> SUFFICES ASSUME ~hasty' PROVE OnePaste' /\ PasteIsOf' /\ MovedIsGone'
        BY <1>4 DEF DlgInv
    <2>1. /\ ~hasty /\ lookups = {} /\ posts = {} /\ clip # NoClip /\ UNCHANGED clip
          /\ \E to : lookups' = {[clip |-> clip, to |-> to, no |-> acts']}
        BY <1>1, <1>7 DEF PutDown
    <2>2. \A l \in lookups' : l.clip = clip
        BY <2>1
    <2>3. OnePaste /\ PasteIsOf /\ MovedIsGone
        BY <2>1 DEF DlgInv
    <2>4. Pastes = {} /\ \A l, m \in lookups' : l = m
        BY <2>1 DEF Pastes
    <2>5. OnePaste' /\ PasteIsOf'
        BY <1>1, <1>2, <1>3, <2>1, <2>2, <2>3, <2>4 DEF OnePaste, PasteIsOf
    <2>6. MovedIsGone'
        BY <1>2, <2>1, <2>2, <2>3, <2>4 DEF MovedIsGone
    <2>7. QED
        BY <2>5, <2>6
<1>8. QED
    BY <1>5, <1>6, <1>7

\* The source of a paste is listed: the dialog shows what is still there.
LEMMA ListedKeeps ==
    ASSUME DlgInv, NEW look \in lookups, PutListed(look) \/ PutFails(look) PROVE DlgInv'
<1>1. /\ acts \in Nat /\ hasty \in BOOLEAN /\ "paste" \in Kinds3 /\ \A k \in Kinds3 : IsForm(dlg[k])
      /\ \A r \in posts : IsPost(r)
    BY DEF DlgInv, DlgData, Kinds3
<1>2. lookups' = lookups \ {look} /\ UNCHANGED <<acts, sent, hasty>> /\ Pasted' = Pasted /\ MovedOnes' = MovedOnes
    BY DEF PutListed, PutFails, Pasted, MovedOnes
<1>3. ASSUME ~hasty, Pastes' = Pastes, clip' \in {clip, NoClip},
             PastePanel' = PastePanel \/
                 (/\ PastePanel'.cut = look.clip /\ PastePanel'.aim.op = look.clip.op)
      PROVE  OnePaste' /\ PasteIsOf' /\ MovedIsGone'
    <2>1. OnePaste /\ PasteIsOf /\ MovedIsGone
        BY <1>3 DEF DlgInv
    <2>2. lookups' = {} /\ Pastes = {} /\ ~PastePanel.up
        BY <1>2, <2>1 DEF OnePaste
    <2>3. OnePaste'
        BY <1>3, <2>2 DEF OnePaste
    <2>4. PasteIsOf'
        BY <1>2, <1>3, <2>1, <2>2 DEF PasteIsOf
    <2>5. \A d \in MovedOnes : d.form.cut # NoClip /\ look.clip # d.form.cut
        BY <2>1 DEF PasteIsOf, MovedIsGone, MovedOnes, NoClip
    <2>6. MovedIsGone'
        BY <1>2, <1>3, <2>1, <2>2, <2>5 DEF MovedIsGone
    <2>7. QED
        BY <2>3, <2>4, <2>6
<1>4. CASE PutFails(look)
    <2>1. UNCHANGED <<dlg, posts, clip>>
        BY <1>4 DEF PutFails
    <2>2. DlgData' /\ PastePanel' = PastePanel /\ Pastes' = Pastes
        BY <1>2, <2>1 DEF DlgInv, DlgData, PastePanel, Pastes
    <2>3. QED
        BY <1>2, <1>3, <2>1, <2>2 DEF DlgInv
<1>5. CASE PutListed(look)
    <2> DEFINE c    == look.clip
               here == c.names \cap tree[c.from]
               l    == [listed EXCEPT ![c.from] = tree[c.from]]
               d    == [dlg EXCEPT !["paste"].up = TRUE, !["paste"].op = c.op, !["paste"].cut = c, !["paste"].stood = look.to,
                              !["paste"].aim = [op |-> c.op, from |-> c.from, names |-> here, to |-> Landing(look)]]
               f    == [PastePanel EXCEPT !.up = TRUE, !.op = c.op, !.cut = c, !.stood = look.to,
                              !.aim = [op |-> c.op, from |-> c.from, names |-> here, to |-> Landing(look)]]
    <2>1. CASE here = {}
        <3>1. clip' = NoClip /\ Render(dlg, side, l, lead, posts, FALSE)
            BY <1>5, <2>1 DEF PutListed
        <3>2. /\ dlg' = [k \in Kinds3 |-> dlg'[k]] /\ \A k \in Kinds3 : IsForm(dlg'[k])
              /\ \A r \in posts' : IsPost(r)
              /\ PastePanel' = PastePanel /\ Pastes' = Pastes
            BY <1>1, <3>1, Rendered DEF PastePanel, Pastes
        <3>3. DlgData'
            BY <1>1, <1>2, <3>2 DEF DlgData
        <3>4. QED
            BY <1>2, <1>3, <3>1, <3>2, <3>3 DEF DlgInv
    <2>2. CASE here # {}
        <3>1. clip' = clip /\ Render(d, side, l, lead, posts, FALSE)
            BY <1>5, <2>2 DEF PutListed
        <3>2. IsForm(PastePanel)
            BY <1>1 DEF PastePanel
        <3>3. IsForm(f) /\ f.cut = c /\ f.aim.op = c.op
            BY <3>2 DEF IsForm, FormFields
        <3>4. d = [dlg EXCEPT !["paste"] = f]
            BY <1>1 DEF DlgInv, DlgData, PastePanel
        <3> HIDE DEF d, f
        <3>5. (\A k \in Kinds3 : IsForm(d[k])) /\ d["paste"] = f
            BY <1>1, <3>3, <3>4, FormOf DEF DlgInv
        <3>6. /\ dlg' = [k \in Kinds3 |-> dlg'[k]] /\ \A k \in Kinds3 : IsForm(dlg'[k])
              /\ \A r \in posts' : IsPost(r)
              /\ PastePanel' = f /\ Pastes' = Pastes
            BY <1>1, <3>1, <3>5, Rendered DEF Pastes
        <3>7. DlgData'
            BY <1>1, <1>2, <3>6 DEF DlgData
        <3>8. QED
            BY <1>2, <1>3, <3>1, <3>3, <3>6, <3>7 DEF DlgInv
    <2>3. QED
        BY <2>1, <2>2
<1>6. QED
    BY <1>4, <1>5

\* The panel of a dialog, but for its button and its end.
LEMMA PanelKeeps ==
    ASSUME DlgInv,
           \/ TypeToken \/ \E k \in Kinds3 : PlanAnswered(k) \/ Blanket(k) \/ Dismiss(k)
           \/ \E k \in Kinds3, n \in DlgNames : RowAnswer(k, n)
           \/ \E r \in toRun : JobRuns(r)
    PROVE  DlgInv'
<1>1. acts \in Nat /\ \A k \in Kinds3 : IsForm(dlg[k])
    BY DEF DlgInv, DlgData
<1>2. ASSUME NEW k \in Kinds3, NEW f, Panel(k, f), Spends, IsForm(f), UNCHANGED <<posts, hasty>>,
             f.up = dlg[k].up, f.busy = dlg[k].busy, f.cut = dlg[k].cut, f.aim = dlg[k].aim,
             dlg[k].leaving => f.leaving
      PROVE  DlgInv'
    <2>1. /\ dlg' = [j \in Kinds3 |-> dlg'[j]] /\ \A j \in Kinds3 : IsForm(dlg'[j])
          /\ dlg'[k] = f /\ (k # "paste" => PastePanel' = PastePanel)
        BY <1>2, FormOf DEF Panel, DlgInv, PastePanel
    <2>2. DlgData' /\ acts <= acts'
        BY <1>1, <1>2, <2>1 DEF Spends, DlgInv, DlgData
    <2>3. UNCHANGED <<lookups, sent, clip>> /\ Pastes' = Pastes
        BY <1>2 DEF Panel, Pastes
    <2>4. CASE k = "paste"
        BY <1>2, <2>1, <2>2, <2>3, <2>4, DlgAside DEF PastePanel
    <2>5. CASE k # "paste"
        BY <1>2, <2>1, <2>2, <2>3, <2>5, DlgAside
    <2>6. QED
        BY <2>4, <2>5
<1>3. ASSUME NEW k \in Kinds3, PlanAnswered(k) PROVE DlgInv'
    <2>1. UNCHANGED <<acts, hasty, dlg, posts, lookups, sent, clip>>
        BY <1>3 DEF PlanAnswered
    <2>2. DlgData' /\ PastePanel' = PastePanel /\ Pastes' = Pastes /\ acts <= acts'
        BY <1>1, <2>1 DEF DlgInv, DlgData, PastePanel, Pastes
    <2>3. QED
        BY <2>1, <2>2, DlgAside
<1>4. ASSUME NEW r \in toRun, JobRuns(r) PROVE DlgInv'
    <2>1. UNCHANGED <<acts, hasty, dlg, posts, lookups, sent, clip>>
        BY <1>4 DEF JobRuns
    <2>2. DlgData' /\ PastePanel' = PastePanel /\ Pastes' = Pastes /\ acts <= acts'
        BY <1>1, <2>1 DEF DlgInv, DlgData, PastePanel, Pastes
    <2>3. QED
        BY <2>1, <2>2, DlgAside
<1>5. ASSUME NEW k \in Kinds3, Blanket(k) PROVE DlgInv'
    <2> DEFINE f == [dlg[k] EXCEPT !.blanket = "overwrite", !.rows = {}, !.given = Target(k)]
    <2>1. /\ IsForm(f) /\ f.up = dlg[k].up /\ f.busy = dlg[k].busy /\ f.cut = dlg[k].cut /\ f.aim = dlg[k].aim
          /\ f.leaving = dlg[k].leaving
        BY <1>1 DEF IsForm, FormFields
    <2>2. Panel(k, f) /\ Spends /\ UNCHANGED <<posts, hasty>>
        BY <1>5 DEF Blanket
    <2> HIDE DEF f
    <2>3. QED
        BY <2>1, <2>2, <1>2
<1>6. ASSUME NEW k \in Kinds3, NEW n, RowAnswer(k, n) PROVE DlgInv'
    <2> DEFINE f == [dlg[k] EXCEPT !.rows = @ \cup {n}, !.given = Target(k)]
    <2>1. /\ IsForm(f) /\ f.up = dlg[k].up /\ f.busy = dlg[k].busy /\ f.cut = dlg[k].cut /\ f.aim = dlg[k].aim
          /\ f.leaving = dlg[k].leaving
        BY <1>1 DEF IsForm, FormFields
    <2>2. Panel(k, f) /\ Spends /\ UNCHANGED <<posts, hasty>>
        BY <1>6 DEF RowAnswer
    <2> HIDE DEF f
    <2>3. QED
        BY <2>1, <2>2, <1>2
<1>7. CASE TypeToken
    <2> DEFINE k == "delete"
               f == [dlg[k] EXCEPT !.typed = Token(Target(k).names), !.given = Target(k)]
    <2>1. k \in Kinds3
        BY DEF Kinds3
    <2>2. /\ IsForm(f) /\ f.up = dlg[k].up /\ f.busy = dlg[k].busy /\ f.cut = dlg[k].cut /\ f.aim = dlg[k].aim
          /\ f.leaving = dlg[k].leaving
        BY <1>1, <2>1 DEF IsForm, FormFields
    <2>3. Panel(k, f) /\ Spends /\ UNCHANGED <<posts, hasty>>
        BY <1>7 DEF TypeToken
    <2> HIDE DEF f, k
    <2>4. QED
        BY <2>1, <2>2, <2>3, <1>2
<1>8. ASSUME NEW k \in Kinds3, Dismiss(k) PROVE DlgInv'
    <2> DEFINE f == [dlg[k] EXCEPT !.leaving = TRUE]
    <2>1. /\ IsForm(f) /\ f.up = dlg[k].up /\ f.busy = dlg[k].busy /\ f.cut = dlg[k].cut /\ f.aim = dlg[k].aim
          /\ f.leaving = TRUE
        BY <1>1 DEF IsForm, FormFields
    <2>2. Panel(k, f) /\ Spends /\ UNCHANGED <<posts, hasty>>
        BY <1>8 DEF Dismiss
    <2> HIDE DEF f
    <2>3. QED
        BY <2>1, <2>2, <1>2
<1>9. QED
    BY <1>3, <1>4, <1>5, <1>6, <1>7, <1>8

\* A dialog is sent: the paste it sends is the only one.
LEMMA SubmitKeeps ==
    ASSUME DlgInv, NEW k \in Kinds3, Submit(k) PROVE DlgInv'
<1> DEFINE f == [dlg[k] EXCEPT !.busy = TRUE]
           r == [k |-> k, of |-> Target(k), form |-> dlg[k], no |-> posted', pane |-> lead, live |-> TRUE,
                 lead |-> lead, at |-> <<side[1].at, side[2].at>>]
<1>1. acts \in Nat /\ \A j \in Kinds3 : IsForm(dlg[j])
    BY DEF DlgInv, DlgData
<1>2. /\ Panel(k, f) /\ ~dlg[k].busy /\ dlg[k].up /\ posts' = posts \cup {r} /\ acts' = acts
      /\ hasty' = (hasty \/ dlg[k].leaving)
    BY DEF Submit, Armed, Planned
<1>3. /\ IsForm(f) /\ f.up = dlg[k].up /\ f.busy = TRUE /\ f.cut = dlg[k].cut /\ f.aim = dlg[k].aim
      /\ f.leaving = dlg[k].leaving
    BY <1>1 DEF IsForm, FormFields
<1>4. IsPost(r) /\ r.k = k /\ r.of = Target(k) /\ r.form = dlg[k] /\ r.live = TRUE
    BY DEF IsPost, PostFields
<1> HIDE DEF f, r
<1>5. /\ dlg' = [j \in Kinds3 |-> dlg'[j]] /\ \A j \in Kinds3 : IsForm(dlg'[j])
      /\ dlg'[k] = f /\ (k # "paste" => PastePanel' = PastePanel)
    BY <1>2, <1>3, FormOf DEF Panel, DlgInv, PastePanel
<1>6. DlgData'
    BY <1>1, <1>2, <1>4, <1>5 DEF DlgInv, DlgData
<1>7. UNCHANGED <<lookups, sent, clip>> /\ Pasted' = Pasted /\ MovedOnes' = MovedOnes
    BY <1>2 DEF Panel, Pasted, MovedOnes
<1> SUFFICES ASSUME ~hasty' PROVE OnePaste' /\ PasteIsOf' /\ MovedIsGone'
    BY <1>6 DEF DlgInv
<1>8. OnePaste /\ PasteIsOf /\ MovedIsGone /\ ~dlg[k].leaving
    BY <1>2 DEF DlgInv
<1>9. CASE k # "paste"
    <2>1. PastePanel' = PastePanel /\ Pastes' = Pastes
        BY <1>2, <1>4, <1>5, <1>9 DEF Pastes
    <2>2. QED
        BY <1>2, <1>7, <1>8, <2>1 DEF OnePaste, PasteIsOf, MovedIsGone
<1>10. CASE k = "paste"
    <2>1. PastePanel.up /\ ~PastePanel.busy /\ PastePanel' = f /\ f.up = PastePanel.up /\ f.cut = PastePanel.cut
          /\ f.aim = PastePanel.aim /\ f.busy = TRUE
        BY <1>2, <1>3, <1>5, <1>10 DEF PastePanel
    <2>2. Pastes = {}
        BY <1>8, <2>1 DEF OnePaste
    <2>3. Pastes' = {r} /\ r.form.cut = PastePanel.cut /\ r.live = TRUE
        BY <1>2, <1>4, <1>10, <2>2 DEF Pastes, PastePanel
    <2>4. r.of = PastePanel.aim
        BY <1>4, <1>10 DEF Target, Aimed, PastePanel
    <2>5. lookups = {}
        BY <1>8, <2>1 DEF OnePaste
    <2>6. OnePaste'
        BY <1>7, <2>1, <2>3, <2>5 DEF OnePaste
    <2>7. PasteIsOf'
        BY <1>2, <1>7, <1>8, <2>1, <2>3, <2>4, <2>5 DEF PasteIsOf
    <2>8. ~PastePanel.leaving
        BY <1>8, <1>10 DEF PastePanel
    <2>9. \A d \in MovedOnes : PastePanel.cut # d.form.cut
        BY <1>8, <2>1, <2>8 DEF MovedIsGone
    <2>10. MovedIsGone'
        BY <1>7, <1>8, <2>1, <2>3, <2>5, <2>9 DEF MovedIsGone
    <2>11. QED
        BY <2>6, <2>7, <2>10
<1>11. QED
    BY <1>9, <1>10

\* A dialog goes: its request, if there is one, goes on without it.
LEMMA UnmountKeeps ==
    ASSUME DlgInv, NEW k \in Kinds3, Unmount(k) PROVE DlgInv'
<1>1. /\ acts \in Nat /\ (\A j \in Kinds3 : IsForm(dlg[j])) /\ (\A r \in posts : IsPost(r))
      /\ IsForm(Shut) /\ Shut.up = FALSE
    BY DEF DlgInv, DlgData, IsForm, FormFields, Shut
<1>2. /\ dlg' = [dlg EXCEPT ![k] = Shut] /\ posts' = Frozen(posts, {k})
      /\ UNCHANGED <<acts, hasty, lookups, sent, clip>> /\ Pasted' = Pasted /\ MovedOnes' = MovedOnes
    BY DEF Unmount, PutAway, Pasted, MovedOnes
<1>3. /\ dlg' = [j \in Kinds3 |-> dlg'[j]] /\ \A j \in Kinds3 : IsForm(dlg'[j])
      /\ dlg'[k] = Shut /\ (k # "paste" => PastePanel' = PastePanel)
    BY <1>1, <1>2, FormOf DEF DlgInv, PastePanel
<1>4. /\ \A q \in posts' : IsPost(q)
      /\ \A q \in posts' : \E r \in posts :
            /\ q.k = r.k /\ q.of = r.of /\ q.form = r.form
            /\ IF r.k \in {k} /\ r.live THEN q.live = FALSE ELSE q = r
      /\ k # "paste" => Pastes' = Pastes
    <2> DEFINE gone == {k}
    <2> HIDE DEF gone
    <2>1. /\ \A q \in Frozen(posts, gone) : IsPost(q)
          /\ \A q \in Frozen(posts, gone) : \E r \in posts :
                /\ q.k = r.k /\ q.of = r.of /\ q.form = r.form
                /\ IF r.k \in gone /\ r.live THEN q.live = FALSE ELSE q = r
          /\ "paste" \notin gone => {q \in Frozen(posts, gone) : q.k = "paste"} = {r \in posts : r.k = "paste"}
        BY <1>1, FrozenPosts
    <2>2. posts' = Frozen(posts, gone) /\ (k # "paste" => "paste" \notin gone) /\ gone = {k}
        BY <1>2 DEF gone
    <2>3. QED
        BY <2>1, <2>2 DEF Pastes
<1>5. DlgData'
    BY <1>1, <1>2, <1>3, <1>4 DEF DlgInv, DlgData
<1>6. CASE k # "paste"
    BY <1>1, <1>2, <1>3, <1>4, <1>5, <1>6, DlgAside
<1>7. CASE k = "paste"
    <2> SUFFICES ASSUME ~hasty PROVE OnePaste' /\ PasteIsOf' /\ MovedIsGone'
        BY <1>2, <1>5 DEF DlgInv
    <2>1. OnePaste /\ PasteIsOf /\ MovedIsGone
        BY DEF DlgInv
    <2>2. ~PastePanel'.up
        BY <1>1, <1>3, <1>7 DEF PastePanel
    <2>3. ASSUME NEW q \in Pastes'
          PROVE  ~q.live /\ \E r \in Pastes : q.of = r.of /\ q.form = r.form /\ (~r.live => q = r)
        <3>1. q \in posts' /\ q.k = "paste"
            BY DEF Pastes
        <3>2. PICK r \in posts : /\ q.k = r.k /\ q.of = r.of /\ q.form = r.form
                                 /\ IF r.k \in {k} /\ r.live THEN q.live = FALSE ELSE q = r
            BY <3>1, <1>4
        <3>3. QED
            BY <3>1, <3>2, <1>7 DEF Pastes
    <2>4. \A q, p \in Pastes' : q = p
        <3> SUFFICES ASSUME NEW q \in Pastes', NEW p \in Pastes' PROVE q = p
            OBVIOUS
        <3>1. PICK r \in Pastes : Pastes = {r}
            BY <2>1, <2>3 DEF OnePaste
        <3>2. r \in posts /\ \A w \in posts : w.k = "paste" => w = r
            BY <3>1 DEF Pastes
        <3> DEFINE F(w) == IF w.k \in {k} /\ w.live
                           THEN [w EXCEPT !.live = FALSE, !.lead = lead, !.at = <<side[1].at, side[2].at>>] ELSE w
        <3>3. \A w \in posts : F(w).k = w.k
            BY <1>1 DEF IsPost, PostFields
        <3>4. posts' = {F(w) : w \in posts}
            BY <1>2 DEF Frozen
        <3> HIDE DEF F
        <3>5. q \in posts' /\ q.k = "paste" /\ p \in posts' /\ p.k = "paste"
            BY DEF Pastes
        <3>6. q = F(r) /\ p = F(r)
            BY <3>2, <3>3, <3>4, <3>5
        <3>7. QED
            BY <3>6
    <2>5. lookups # {} => Pastes' = {}
        BY <2>1, <2>3 DEF OnePaste
    <2>6. OnePaste'
        BY <1>2, <2>1, <2>2, <2>3, <2>4, <2>5 DEF OnePaste
    <2>7. PasteIsOf'
        BY <1>2, <2>1, <2>2, <2>3 DEF PasteIsOf
    <2>8. MovedIsGone'
        BY <1>2, <2>1, <2>2, <2>3 DEF MovedIsGone
    <2>9. QED
        BY <2>6, <2>7, <2>8
<1>8. QED
    BY <1>6, <1>7

\* A request is refused, and its dialog is free to send again.
LEMMA DeniedKeeps ==
    ASSUME DlgInv, NEW r \in posts, Denied(r) PROVE DlgInv'
<1> DEFINE f == [dlg[r.k] EXCEPT !.busy = FALSE]
<1>1. /\ acts \in Nat /\ (\A j \in Kinds3 : IsForm(dlg[j])) /\ (\A q \in posts : IsPost(q)) /\ r.k \in Kinds3
      /\ dlg = [j \in Kinds3 |-> dlg[j]]
    BY DEF DlgInv, DlgData, IsPost
<1>2. /\ posts' = posts \ {r} /\ UNCHANGED <<acts, hasty, lookups, sent, clip>> /\ Pasted' = Pasted /\ MovedOnes' = MovedOnes
      /\ dlg' = IF r.live THEN [dlg EXCEPT ![r.k] = f] ELSE dlg
    BY <1>1 DEF Denied, Pasted, MovedOnes
<1>3. /\ IsForm(f) /\ f.up = dlg[r.k].up /\ f.cut = dlg[r.k].cut /\ f.aim = dlg[r.k].aim
      /\ f.leaving = dlg[r.k].leaving
    BY <1>1 DEF IsForm, FormFields
<1> HIDE DEF f
<1>4. /\ dlg' = [j \in Kinds3 |-> dlg'[j]] /\ (\A j \in Kinds3 : IsForm(dlg'[j]))
      /\ r.k # "paste" => PastePanel' = PastePanel
      /\ PastePanel'.up = PastePanel.up /\ PastePanel'.cut = PastePanel.cut /\ PastePanel'.aim = PastePanel.aim
      /\ PastePanel'.leaving = PastePanel.leaving
    <2>1. CASE r.live
        <3>1. /\ dlg' = [j \in Kinds3 |-> dlg'[j]] /\ (\A j \in Kinds3 : IsForm(dlg'[j]))
              /\ dlg'[r.k] = f /\ (r.k # "paste" => PastePanel' = PastePanel)
            BY <1>1, <1>2, <1>3, <2>1, FormOf DEF DlgInv, PastePanel
        <3>2. QED
            BY <3>1, <1>3 DEF PastePanel
    <2>2. CASE ~r.live
        BY <1>1, <1>2, <2>2 DEF PastePanel
    <2>3. QED
        BY <2>1, <2>2
<1>5. DlgData'
    BY <1>1, <1>2, <1>4 DEF DlgInv, DlgData
<1>6. CASE r.k # "paste"
    <2>1. Pastes' = Pastes
        BY <1>2, <1>6 DEF Pastes
    <2>2. QED
        BY <1>1, <1>2, <1>4, <1>5, <1>6, <2>1, DlgAside
<1>7. CASE r.k = "paste"
    <2> SUFFICES ASSUME ~hasty PROVE OnePaste' /\ PasteIsOf' /\ MovedIsGone'
        BY <1>2, <1>5 DEF DlgInv
    <2>1. OnePaste /\ PasteIsOf /\ MovedIsGone /\ r \in Pastes
        BY <1>7 DEF DlgInv, Pastes
    <2>2. Pastes' = {} /\ lookups = {}
        BY <1>2, <2>1 DEF OnePaste, Pastes
    <2>3. OnePaste'
        BY <1>2, <2>2 DEF OnePaste
    <2>4. PasteIsOf' /\ MovedIsGone'
        BY <1>2, <1>4, <2>1, <2>2 DEF PasteIsOf, MovedIsGone
    <2>5. QED
        BY <2>3, <2>4
<1>8. QED
    BY <1>6, <1>7

\* A request is accepted: a cut is let go, and its dialog leaves.
LEMMA AcceptedKeeps ==
    ASSUME DlgInv, NEW r \in posts, Accepted(r) PROVE DlgInv'
<1> DEFINE f == [dlg[r.k] EXCEPT !.busy = FALSE, !.leaving = TRUE]
           d == IF r.live THEN [dlg EXCEPT ![r.k].busy = FALSE, ![r.k].leaving = TRUE] ELSE dlg
<1>1. /\ acts \in Nat /\ (\A j \in Kinds3 : IsForm(dlg[j])) /\ (\A q \in posts : IsPost(q)) /\ r.k \in Kinds3
      /\ dlg = [j \in Kinds3 |-> dlg[j]]
    BY DEF DlgInv, DlgData, IsPost
<1>2. /\ sent' = sent \cup {r} /\ clip' = IF Spent(r) THEN NoClip ELSE clip
      /\ Render(d, Dropped(r), listed, lead, posts \ {r}, FALSE) /\ UNCHANGED <<acts, hasty, lookups>>
    BY DEF Accepted
<1>3. d = IF r.live THEN [dlg EXCEPT ![r.k] = f] ELSE dlg
    BY <1>1
<1>4. /\ IsForm(f) /\ f.up = dlg[r.k].up /\ f.cut = dlg[r.k].cut /\ f.aim = dlg[r.k].aim
      /\ f.leaving = TRUE
    BY <1>1 DEF IsForm, FormFields
<1> HIDE DEF f, d
<1>5. /\ \A j \in Kinds3 : IsForm(d[j])
      /\ r.k # "paste" => d["paste"] = PastePanel
      /\ d["paste"].up = PastePanel.up /\ d["paste"].cut = PastePanel.cut /\ d["paste"].aim = PastePanel.aim
      /\ PastePanel.leaving => d["paste"].leaving
      /\ r.k = "paste" /\ r.live => d["paste"].leaving = TRUE
    <2>1. CASE r.live
        <3>1. (\A j \in Kinds3 : IsForm(d[j])) /\ d[r.k] = f /\ (r.k # "paste" => d["paste"] = PastePanel)
            BY <1>1, <1>3, <1>4, <2>1, FormOf DEF DlgInv
        <3>2. QED
            BY <3>1, <1>4 DEF PastePanel
    <2>2. CASE ~r.live
        BY <1>1, <1>3, <2>2 DEF PastePanel
    <2>3. QED
        BY <2>1, <2>2
<1>6. /\ dlg' = [j \in Kinds3 |-> dlg'[j]] /\ \A j \in Kinds3 : IsForm(dlg'[j])
      /\ \A q \in posts' : IsPost(q)
      /\ PastePanel' = d["paste"] /\ Pastes' = {q \in posts \ {r} : q.k = "paste"}
    BY <1>1, <1>2, <1>5, Rendered
<1>7. DlgData'
    BY <1>1, <1>2, <1>6 DEF DlgInv, DlgData
<1> SUFFICES ASSUME ~hasty PROVE OnePaste' /\ PasteIsOf' /\ MovedIsGone'
    BY <1>2, <1>7 DEF DlgInv
<1>8. OnePaste /\ PasteIsOf /\ MovedIsGone
    BY DEF DlgInv
<1>9. CASE r.k # "paste"
    <2>1. Pastes' = Pastes /\ PastePanel' = PastePanel /\ Pasted' = Pasted /\ MovedOnes' = MovedOnes /\ clip' = clip
        BY <1>2, <1>5, <1>6, <1>9 DEF Pastes, Pasted, MovedOnes, Spent
    <2>2. QED
        BY <1>2, <1>8, <2>1 DEF OnePaste, PasteIsOf, MovedIsGone
<1>10. CASE r.k = "paste"
    <2>1. r \in Pastes /\ Pastes = {r}
        BY <1>8, <1>10 DEF OnePaste, Pastes
    <2>2. Pastes' = {} /\ lookups = {} /\ lookups' = {}
        BY <1>2, <1>6, <1>8, <2>1 DEF OnePaste, Pastes
    <2>3. OnePaste'
        BY <2>2 DEF OnePaste
    <2>4. Pasted' = Pasted \cup {r} /\ MovedOnes' = IF r.of.op = "move" THEN MovedOnes \cup {r} ELSE MovedOnes
        BY <1>2, <1>10 DEF Pasted, MovedOnes
    <2>5. r.form.cut.no \in 1 .. acts /\ r.of.op = r.form.cut.op /\ r.form.cut # NoClip
        BY <1>8, <2>1 DEF PasteIsOf, NoClip
    <2>6. clip' = IF r.of.op = "move" THEN NoClip ELSE clip
        BY <1>2, <1>10 DEF Spent
    <2>7. PasteIsOf'
        BY <1>2, <1>5, <1>6, <1>8, <2>2, <2>4, <2>5, <2>6 DEF PasteIsOf
    <2>8. ASSUME NEW c \in MovedOnes
          PROVE  /\ clip' # c.form.cut
                 /\ PastePanel'.up /\ PastePanel'.cut = c.form.cut => PastePanel'.leaving
                 /\ \A e \in Pasted' : e.form.cut = c.form.cut => c = e
        <3>1. c.form.cut # NoClip /\ clip # c.form.cut /\ r.form.cut # c.form.cut
            BY <1>8, <2>1 DEF PasteIsOf, MovedIsGone, MovedOnes, NoClip
        <3>2. QED
            BY <3>1, <1>5, <1>6, <1>8, <2>4, <2>6 DEF MovedIsGone
    <2>9. ASSUME r.of.op = "move"
          PROVE  /\ clip' # r.form.cut
                 /\ PastePanel'.up /\ PastePanel'.cut = r.form.cut => PastePanel'.leaving
                 /\ \A e \in Pasted' : e.form.cut = r.form.cut => r = e
        <3>1. clip' # r.form.cut
            BY <2>5, <2>6, <2>9
        <3>2. PastePanel'.up => PastePanel'.leaving
            <4>1. CASE r.live
                BY <4>1, <1>5, <1>6, <1>10
            <4>2. CASE ~r.live
                BY <4>2, <1>5, <1>6, <1>8, <2>1 DEF OnePaste
            <4>3. QED
                BY <4>1, <4>2
        <3>3. ASSUME NEW e \in Pasted, e.form.cut = r.form.cut PROVE FALSE
            <4>1. e \in MovedOnes
                BY <1>8, <2>5, <2>9, <3>3 DEF PasteIsOf, MovedOnes
            <4>2. QED
                BY <4>1, <3>3, <1>8, <2>1 DEF MovedIsGone
        <3>4. QED
            BY <3>1, <3>2, <3>3, <2>4
    <2>10. MovedIsGone'
        BY <2>2, <2>4, <2>8, <2>9 DEF MovedIsGone
    <2>11. QED
        BY <2>3, <2>7, <2>10
<1>11. QED
    BY <1>9, <1>10

LEMMA DlgKeeps == DlgInv /\ [DlgNext]_dlgVars => DlgInv'
<1> SUFFICES ASSUME DlgInv, [DlgNext]_dlgVars PROVE DlgInv'
    OBVIOUS
<1>1. CASE UNCHANGED dlgVars
    <2>1. DlgData' /\ Pastes' = Pastes /\ PastePanel' = PastePanel /\ acts <= acts'
        BY <1>1 DEF dlgVars, DlgInv, DlgData, Pastes, PastePanel
    <2>2. QED
        BY <1>1, <2>1, DlgAside DEF dlgVars
<1>2. CASE DlgNext
    BY <1>2, PanesKeep, ClipKeeps, ListedKeeps, PanelKeeps, SubmitKeeps, UnmountKeeps, DeniedKeeps, AcceptedKeeps
       DEF DlgNext
<1>3. QED
    BY <1>1, <1>2

LEMMA DlgHolds == DlgInv => CutMovesOnce
BY DEF DlgInv, MovedIsGone, MovedOnes, Pasted, CutMovesOnce

\* What was cut is put in one place: one accepted job moves it, unless two
\* pastes were under way at once or a dialog was answered while it left
\* (CutMovesOnce): for any directories, names, keys and requests.
THEOREM CutMovedOnce == DlgSpec => []CutMovesOnce
<1>1. QED
    BY DlgStart, DlgKeeps, DlgHolds, PTL DEF DlgSpec

\* A pane by its fields, and the two of them.
IsPane(p) == p = [x \in {"at", "sel", "cur"} |-> p[x]]
ArePanes(s) == s = [j \in 1 .. 2 |-> s[j]] /\ \A j \in 1 .. 2 : IsPane(s[j])

\* Requests are told apart by their numbers, those that were accepted too.
Unique(ps) == \A r, q \in ps : r.no = q.no => r = q
PostsNumbered ==
    /\ posted \in Nat /\ \A r \in posts \cup sent : r.no \in 1 .. posted
    /\ Unique(posts) /\ \A r \in posts, d \in sent : r.no # d.no

\* What is looked for, shown and on its way is what is held.
HeldOnes ==
    clip # NoClip /\ ~crossed =>
        /\ \A l \in lookups : l.clip = clip
        /\ \A r \in Pastes : r.form.cut = clip
        /\ PastePanel.up => PastePanel.cut = clip

\* A transfer or a removal under way is of the active pane while its dialog is
\* there, and of the one it froze when that went.
Led(r, d, i) ==
    /\ r.pane \in 1 .. 2
    /\ r.live => d[r.k].up /\ r.pane = i
    /\ ~r.live => r.lead = r.pane
LeadStays == ~strayed => \A r \in posts : r.k \in Live => Led(r, dlg, lead)

LateInv ==
    /\ DlgInv /\ ArePanes(side) /\ lead \in 1 .. 2 /\ strayed \in BOOLEAN
    /\ PostsNumbered /\ HeldOnes /\ LeadStays

Same(q, r) == q.k = r.k /\ q.form = r.form /\ q.no = r.no /\ q.pane = r.pane

\* A request that is frozen is the request it was.
LEMMA FrozenSame ==
    ASSUME NEW ps, \A r \in ps : IsPost(r), NEW gone
    PROVE  /\ \A q \in Frozen(ps, gone) : \E r \in ps :
                  /\ Same(q, r)
                  /\ IF r.k \in gone /\ r.live THEN ~q.live /\ q.lead = lead ELSE q = r
           /\ Unique(ps) => Unique(Frozen(ps, gone))
<1> DEFINE F(r) == IF r.k \in gone /\ r.live
                   THEN [r EXCEPT !.live = FALSE, !.lead = lead, !.at = <<side[1].at, side[2].at>>] ELSE r
<1>1. ASSUME NEW r \in ps
      PROVE  /\ Same(F(r), r)
             /\ IF r.k \in gone /\ r.live THEN ~F(r).live /\ F(r).lead = lead ELSE F(r) = r
    <2>1. CASE r.k \in gone /\ r.live
        BY <2>1 DEF IsPost, PostFields, Same
    <2>2. CASE ~(r.k \in gone /\ r.live)
        BY <2>2 DEF Same
    <2>3. QED
        BY <2>1, <2>2
<1>2. Frozen(ps, gone) = {F(r) : r \in ps}
    BY DEF Frozen
<1> HIDE DEF F
<1>3. Unique(ps) => Unique(Frozen(ps, gone))
    <2> SUFFICES ASSUME Unique(ps), NEW q \in Frozen(ps, gone), NEW u \in Frozen(ps, gone), q.no = u.no PROVE q = u
        BY DEF Unique
    <2>1. PICK r \in ps : q = F(r)
        BY <1>2
    <2>2. PICK p \in ps : u = F(p)
        BY <1>2
    <2>3. r.no = p.no
        BY <1>1, <2>1, <2>2 DEF Same
    <2>4. QED
        BY <2>1, <2>2, <2>3 DEF Unique
<1>4. QED
    BY <1>1, <1>2, <1>3

\* A render leaves the requests those they are, and every selection.
LEMMA LateRender ==
    ASSUME NEW d, NEW s, NEW l, NEW i \in 1 .. 2, NEW ps, NEW under, Render(d, s, l, i, ps, under),
           strayed \in BOOLEAN, under \in BOOLEAN,
           \A k \in Kinds3 : IsForm(d[k]), \A r \in ps : IsPost(r), ArePanes(s)
    PROVE  /\ ArePanes(side') /\ lead' = i /\ \A j \in 1 .. 2 : side'[j].sel = s[j].sel
           /\ PastePanel' = d["paste"]
           /\ \A q \in posts' : \E r \in ps : Same(q, r)
           /\ Unique(ps) => Unique(posts')
           /\ ~strayed' => ~strayed /\ ~under
           /\ (\A r \in ps : r.k \in Live => Led(r, d, lead) /\ (r.live => i = lead))
              => \A q \in posts' : q.k \in Live => Led(q, dlg', lead')
<1> DEFINE seeded == [j \in 1 .. 2 |-> IF s[j].cur = NoName /\ l[s[j].at] # {}
                                       THEN [s[j] EXCEPT !.cur = FirstOf[l[s[j].at]]] ELSE s[j]]
<1>1. PICK gone \in SUBSET Live :
          /\ side' = seeded /\ lead' = i
          /\ dlg' = [k \in Kinds3 |-> IF k \in gone THEN Shut ELSE d[k]] /\ posts' = Frozen(ps, gone)
    BY DEF Render
<1>2. ASSUME NEW j \in 1 .. 2 PROVE IsPane(seeded[j]) /\ seeded[j].sel = s[j].sel
    <2>1. IsPane(s[j])
        BY DEF ArePanes
    <2>2. CASE s[j].cur = NoName /\ l[s[j].at] # {}
        BY <2>1, <2>2 DEF IsPane
    <2>3. CASE ~(s[j].cur = NoName /\ l[s[j].at] # {})
        BY <2>1, <2>3
    <2>4. QED
        BY <2>2, <2>3
<1>3. seeded = [j \in 1 .. 2 |-> seeded[j]]
    OBVIOUS
<1> HIDE DEF seeded
<1>4. ArePanes(side') /\ lead' = i /\ \A j \in 1 .. 2 : side'[j].sel = s[j].sel
    BY <1>1, <1>2, <1>3 DEF ArePanes
<1>5. "paste" \notin gone /\ "paste" \in Kinds3 /\ Live \subseteq Kinds3
    BY DEF Live, Kinds3
<1>6. PastePanel' = d["paste"]
    BY <1>1, <1>5 DEF PastePanel
<1>7. \A q \in posts' : \E r \in ps :
          Same(q, r) /\ IF r.k \in gone /\ r.live THEN ~q.live /\ q.lead = lead ELSE q = r
    <2>1. \A q \in Frozen(ps, gone) : \E r \in ps :
              Same(q, r) /\ IF r.k \in gone /\ r.live THEN ~q.live /\ q.lead = lead ELSE q = r
        BY FrozenSame
    <2>2. posts' = Frozen(ps, gone)
        BY <1>1
    <2>3. QED
        BY <2>1, <2>2
<1>8. Unique(ps) => Unique(posts')
    <2>1. Unique(ps) => Unique(Frozen(ps, gone))
        BY FrozenSame
    <2>2. posts' = Frozen(ps, gone)
        BY <1>1
    <2>3. QED
        BY <2>1, <2>2
<1>9. ~strayed' => ~strayed /\ ~under
    BY DEF Render
<1>10. ASSUME \A r \in ps : r.k \in Live => Led(r, d, lead) /\ (r.live => i = lead),
              NEW q \in posts', q.k \in Live
       PROVE  Led(q, dlg', lead')
    <2>1. PICK r \in ps : Same(q, r) /\ IF r.k \in gone /\ r.live THEN ~q.live /\ q.lead = lead ELSE q = r
        BY <1>7
    <2>2. Led(r, d, lead) /\ (r.live => i = lead) /\ r.k = q.k /\ r.pane = q.pane
        BY <1>10, <2>1 DEF Same
    <2>3. CASE r.k \in gone /\ r.live
        BY <2>1, <2>2, <2>3 DEF Led
    <2>4. CASE ~(r.k \in gone /\ r.live)
        BY <1>1, <1>5, <1>10, <2>1, <2>2, <2>4 DEF Led
    <2>5. QED
        BY <2>3, <2>4
<1>11. QED
    BY <1>4, <1>6, <1>7, <1>8, <1>9, <1>10

\* What leaves the clipboard, and at most lets lookups, requests and the panel of
\* a paste go, leaves what is held held.
LEMMA LateAside ==
    ASSUME LateInv, DlgInv', ArePanes(side'), lead' \in 1 .. 2, strayed' \in BOOLEAN,
           UNCHANGED <<clip, sent, posted>>, UNCHANGED crossed,
           \A m \in lookups' : m \in lookups,
           \A q \in posts' : \E r \in posts : Same(q, r), Unique(posts'),
           PastePanel'.up => PastePanel.up /\ PastePanel'.cut = PastePanel.cut,
           LeadStays'
    PROVE  LateInv'
<1>1. PostsNumbered'
    BY DEF LateInv, PostsNumbered, Same
<1>2. HeldOnes'
    BY DEF LateInv, HeldOnes, Pastes, Same
<1>3. QED
    BY <1>1, <1>2 DEF LateInv

LEMMA LateStart == DlgInit => LateInv
<1> SUFFICES ASSUME DlgInit PROVE LateInv
    OBVIOUS
<1>1. DlgInv
    BY DlgStart
<1>2. posts = {} /\ sent = {} /\ posted = 0 /\ clip = NoClip /\ lead = 1 /\ strayed = FALSE
    BY DEF DlgInit
<1>3. ArePanes(side)
    <2> DEFINE p(i) == [at |-> Start[i], sel |-> {},
                        cur |-> IF Held0[Start[i]] = {} THEN NoName ELSE FirstOf[Held0[Start[i]]]]
    <2>1. side = [i \in 1 .. 2 |-> p(i)]
        BY DEF DlgInit
    <2>2. \A i \in 1 .. 2 : IsPane(p(i))
        BY DEF IsPane
    <2> HIDE DEF p
    <2>3. QED
        BY <2>1, <2>2 DEF ArePanes
<1>4. QED
    <2>1. PostsNumbered
        BY <1>2 DEF PostsNumbered, Unique
    <2>2. HeldOnes /\ LeadStays
        BY <1>2 DEF HeldOnes, LeadStays
    <2>3. strayed \in BOOLEAN
        BY Zenon DEF DlgInit
    <2>4. lead \in 1 .. 2
        BY <1>2
    <2>5. QED
        BY <1>1, <1>3, <2>1, <2>2, <2>3, <2>4 DEF LateInv

\* A key of the panes, a dialog of a transfer or a removal that opens, and a
\* listing that is read again: under a dialog the keys are strays.
LEMMA LateRenders ==
    ASSUME LateInv, DlgInv', NEW d, NEW s, NEW l, NEW i \in 1 .. 2, NEW under \in BOOLEAN,
           Render(d, s, l, i, posts, under), \A k \in Kinds3 : IsForm(d[k]), ArePanes(s),
           d["paste"].up => PastePanel.up /\ d["paste"].cut = PastePanel.cut,
           ~under => \A k \in Live : dlg[k].up => d[k].up /\ i = lead,
           UNCHANGED <<clip, lookups, sent, posted, crossed>>
    PROVE  LateInv'
<1>1. strayed \in BOOLEAN /\ \A r \in posts : IsPost(r)
    BY DEF LateInv, DlgInv, DlgData
<1>2. /\ ArePanes(side') /\ lead' = i /\ PastePanel' = d["paste"]
      /\ \A q \in posts' : \E r \in posts : Same(q, r)
      /\ Unique(posts) => Unique(posts')
      /\ ~strayed' => ~strayed /\ ~under
      /\ (\A r \in posts : r.k \in Live => Led(r, d, lead) /\ (r.live => i = lead))
         => \A q \in posts' : q.k \in Live => Led(q, dlg', lead')
    BY <1>1, LateRender
<1>3. LeadStays'
    <2> SUFFICES ASSUME ~strayed' PROVE \A q \in posts' : q.k \in Live => Led(q, dlg', lead')
        BY DEF LeadStays
    <2>1. ~under /\ \A r \in posts : r.k \in Live => Led(r, dlg, lead)
        BY <1>2 DEF LateInv, LeadStays
    <2>2. \A r \in posts : r.k \in Live => Led(r, d, lead) /\ (r.live => i = lead)
        BY <2>1 DEF Led
    <2>3. QED
        BY <1>2, <2>2
<1>4. strayed' \in BOOLEAN
    BY DEF Render
<1>5. QED
    BY <1>2, <1>3, <1>4, LateAside DEF LateInv, PostsNumbered

LEMMA LatePanes ==
    ASSUME LateInv, DlgInv',
           \/ \E d \in DlgDirs : GoTo(d) \/ Relisted(d)
           \/ \E n \in DlgNames : Pick(n) \/ Mark(n)
           \/ TabKey
           \/ \E k \in Live, op \in {"copy", "move", "delete"} : Open(k, op)
    PROVE  LateInv'
<1>1. /\ ArePanes(side) /\ lead \in 1 .. 2 /\ \A k \in Kinds3 : IsForm(dlg[k])
      /\ DlgData /\ Live \subseteq Kinds3 /\ AnyUp \in BOOLEAN
    BY DEF LateInv, DlgInv, DlgData, Live, Kinds3, AnyUp
<1>2. ASSUME NEW s, NEW i \in 1 .. 2, PaneKey(s, i), ArePanes(s) PROVE LateInv'
    <2>1. Render(dlg, s, listed, i, posts, AnyUp) /\ UNCHANGED <<clip, lookups, sent, posted, crossed>>
        BY <1>2 DEF PaneKey
    <2>2. ~AnyUp => \A k \in Live : dlg[k].up => dlg[k].up /\ i = lead
        BY <1>1 DEF AnyUp
    <2>3. dlg["paste"].up => PastePanel.up /\ dlg["paste"].cut = PastePanel.cut
        BY DEF PastePanel
    <2>4. QED
        BY <1>1, <1>2, <2>1, <2>2, <2>3, LateRenders
<1>3. ASSUME NEW p, IsPane(p) PROVE ArePanes([side EXCEPT ![lead] = p])
    BY <1>1, <1>3 DEF ArePanes
<1>4. CASE \E d \in DlgDirs : GoTo(d)
    <2>1. PICK d \in DlgDirs : PaneKey([side EXCEPT ![lead] = Arrived(d)], lead)
        BY <1>4 DEF GoTo
    <2>2. IsPane(Arrived(d))
        BY DEF IsPane, Arrived
    <2>3. QED
        BY <2>1, <2>2, <1>1, <1>2, <1>3
<1>5. CASE \E n \in DlgNames : Pick(n) \/ Mark(n)
    <2>1. \A x, c : [side EXCEPT ![lead].sel = x, ![lead].cur = c]
                    = [side EXCEPT ![lead] = [[side[lead] EXCEPT !.sel = x] EXCEPT !.cur = c]]
        BY <1>1 DEF ArePanes
    <2>2. \A x, c : IsPane([[side[lead] EXCEPT !.sel = x] EXCEPT !.cur = c])
        BY <1>1 DEF ArePanes, IsPane
    <2>3. \E x, c : PaneKey([side EXCEPT ![lead].sel = x, ![lead].cur = c], lead)
        <3>1. CASE \E n \in DlgNames : Pick(n)
            BY <3>1 DEF Pick
        <3>2. CASE \E n \in DlgNames : Mark(n)
            <4>1. PICK n \in DlgNames :
                     PaneKey([side EXCEPT ![lead].sel = (@ \cup {n}) \ (@ \cap {n}), ![lead].cur = n], lead)
                BY <3>2 DEF Mark
            <4>2. [side EXCEPT ![lead].sel = (@ \cup {n}) \ (@ \cap {n}), ![lead].cur = n]
                  = [side EXCEPT ![lead].sel = (side[lead].sel \cup {n}) \ (side[lead].sel \cap {n}), ![lead].cur = n]
                BY <1>1 DEF ArePanes
            <4>3. QED
                BY <4>1, <4>2
        <3>3. QED
            BY <1>5, <3>1, <3>2
    <2>4. PICK x, c : PaneKey([side EXCEPT ![lead].sel = x, ![lead].cur = c], lead)
        BY <2>3
    <2> DEFINE p == [[side[lead] EXCEPT !.sel = x] EXCEPT !.cur = c]
    <2>5. [side EXCEPT ![lead].sel = x, ![lead].cur = c] = [side EXCEPT ![lead] = p] /\ IsPane(p)
        BY <2>1, <2>2
    <2> HIDE DEF p
    <2>6. ArePanes([side EXCEPT ![lead] = p])
        BY <2>5, <1>3
    <2>7. QED
        BY <2>4, <2>5, <2>6, <1>1, <1>2
<1>6. CASE TabKey
    BY <1>1, <1>2, <1>6 DEF TabKey, Other
<1>7. CASE \E d \in DlgDirs : Relisted(d)
    <2>1. PICK l : Render(dlg, side, l, lead, posts, FALSE) /\ UNCHANGED <<clip, lookups, sent, posted, crossed>>
        BY <1>7 DEF Relisted
    <2>2. dlg["paste"].up => PastePanel.up /\ dlg["paste"].cut = PastePanel.cut
        BY DEF PastePanel
    <2>3. QED
        BY <1>1, <2>1, <2>2, LateRenders
<1>8. CASE \E k \in Live, op \in {"copy", "move", "delete"} : Open(k, op)
    <2>1. PICK k \in Live, op \in {"copy", "move", "delete"} : Open(k, op)
        BY <1>8
    <2> DEFINE f == [dlg[k] EXCEPT !.up = TRUE, !.op = op]
               d == [dlg EXCEPT ![k] = f]
    <2>2. k \in Kinds3 /\ k # "paste" /\ IsForm(f)
        BY <1>1, OpenedForm DEF Live
    <2>3. f.up
        BY <1>1, <2>2 DEF IsForm, FormFields
    <2>4. [dlg EXCEPT ![k].up = TRUE, ![k].op = op] = d
        BY <1>1, <2>2 DEF DlgData
    <2>5. Render(d, side, listed, lead, posts, AnyUp) /\ UNCHANGED <<clip, lookups, sent, posted, crossed>>
        BY <2>1, <2>4 DEF Open
    <2> HIDE DEF f
    <2>6. (\A j \in Kinds3 : IsForm(d[j])) /\ d["paste"] = PastePanel
        BY <1>1, <2>2, FormOf
    <2>7. \A j \in Live : dlg[j].up => d[j].up
        BY <1>1, <2>2, <2>3 DEF DlgData
    <2> HIDE DEF d
    <2>8. QED
        BY <1>1, <2>5, <2>6, <2>7, LateRenders
<1>9. QED
    BY <1>4, <1>5, <1>6, <1>7, <1>8

\* Others, a job that runs, a plan and a listing that fails change nothing of it.
LEMMA LateOthers ==
    ASSUME LateInv, DlgInv', UNCHANGED <<side, lead, clip, dlg, posts, sent, posted, strayed, crossed>>,
           lookups' \subseteq lookups
    PROVE  LateInv'
<1>1. PastePanel' = PastePanel /\ Pastes' = Pastes
    BY DEF PastePanel, Pastes
<1>2. PostsNumbered'
    BY DEF LateInv, PostsNumbered, Unique
<1>3. HeldOnes'
    BY <1>1 DEF LateInv, HeldOnes
<1>4. LeadStays'
    BY DEF LateInv, LeadStays, Led
<1>5. QED
    BY <1>2, <1>3, <1>4 DEF LateInv, ArePanes, IsPane

\* A dialog that is answered or that begins to leave is still up.
LEMMA LatePanel ==
    ASSUME LateInv, DlgInv', NEW k \in Kinds3, NEW f, Panel(k, f), f.up = dlg[k].up, f.cut = dlg[k].cut,
           UNCHANGED <<posts, posted>>
    PROVE  LateInv'
<1>1. \A j \in Kinds3 : dlg'[j].up = dlg[j].up /\ dlg'[j].cut = dlg[j].cut
    BY DEF Panel, LateInv, DlgInv, DlgData
<1>2. PastePanel'.up = PastePanel.up /\ PastePanel'.cut = PastePanel.cut
    BY <1>1 DEF PastePanel, Kinds3
<1>3. UNCHANGED <<side, lead, clip, lookups, sent, strayed, crossed>>
    BY DEF Panel
<1>4. LeadStays'
    BY <1>1, <1>3 DEF LateInv, LeadStays, Led, Live, Kinds3
<1>5. \A q \in posts' : \E r \in posts : Same(q, r)
    BY DEF Same
<1>6. ArePanes(side') /\ lead' \in 1 .. 2 /\ strayed' \in BOOLEAN /\ Unique(posts')
    BY <1>3 DEF LateInv, PostsNumbered, Unique, ArePanes, IsPane
<1>7. QED
    BY <1>2, <1>3, <1>4, <1>5, <1>6, LateAside

LEMMA LatePanels ==
    ASSUME LateInv, DlgInv',
           \/ \E k \in Kinds3 : Blanket(k) \/ Dismiss(k)
           \/ \E k \in Kinds3, n \in DlgNames : RowAnswer(k, n)
           \/ TypeToken
    PROVE  LateInv'
<1>1. \E k \in Kinds3 : \E f : Panel(k, f) /\ f.up = dlg[k].up /\ f.cut = dlg[k].cut /\ UNCHANGED <<posts, posted>>
    <2>1. \A k \in Kinds3 : IsForm(dlg[k])
        BY DEF LateInv, DlgInv, DlgData
    <2>2. CASE \E k \in Kinds3 : Blanket(k)
        BY <2>1, <2>2 DEF Blanket, IsForm, FormFields
    <2>3. CASE \E k \in Kinds3 : Dismiss(k)
        BY <2>1, <2>3 DEF Dismiss, IsForm, FormFields
    <2>4. CASE \E k \in Kinds3, n \in DlgNames : RowAnswer(k, n)
        BY <2>1, <2>4 DEF RowAnswer, IsForm, FormFields
    <2>5. CASE TypeToken
        <3>1. "delete" \in Kinds3
            BY DEF Kinds3
        <3>2. QED
            BY <2>1, <2>5, <3>1 DEF TypeToken, IsForm, FormFields
    <2>6. QED
        BY <2>2, <2>3, <2>4, <2>5
<1>2. QED
    BY <1>1, LatePanel

\* A request is sent: it has a number of its own, and its dialog is up.
LEMMA LateSubmit ==
    ASSUME LateInv, DlgInv', NEW k \in Kinds3, Submit(k)
    PROVE  LateInv'
<1> DEFINE n == [k |-> k, of |-> Target(k), form |-> dlg[k], no |-> posted', pane |-> lead, live |-> TRUE,
                 lead |-> lead, at |-> <<side[1].at, side[2].at>>]
           f == [dlg[k] EXCEPT !.busy = TRUE]
<1>1. /\ posts' = posts \cup {n} /\ posted' = posted + 1 /\ dlg' = [dlg EXCEPT ![k] = f]
      /\ UNCHANGED <<side, lead, clip, lookups, sent, strayed, crossed>> /\ dlg[k].up
    BY DEF Submit, Panel, Armed, Planned
<1>2. f.up = dlg[k].up /\ f.cut = dlg[k].cut
    BY DEF LateInv, DlgInv, DlgData, IsForm, FormFields
<1>3. n.k = k /\ n.form = dlg[k] /\ n.no = posted' /\ n.pane = lead /\ n.live /\ n.lead = lead
    OBVIOUS
<1> HIDE DEF n, f
<1>4. \A j \in Kinds3 : dlg'[j].up = dlg[j].up /\ dlg'[j].cut = dlg[j].cut
    BY <1>1, <1>2 DEF LateInv, DlgInv, DlgData
<1>5. PastePanel'.up = PastePanel.up /\ PastePanel'.cut = PastePanel.cut
    BY <1>4 DEF PastePanel, Kinds3
<1>6. PostsNumbered'
    BY <1>1, <1>3 DEF LateInv, PostsNumbered, Unique
<1>7. HeldOnes'
    <2>1. \A r \in Pastes' : r \in Pastes \/ (r = n /\ k = "paste")
        BY <1>1, <1>3 DEF Pastes
    <2>2. k = "paste" => n.form.cut = PastePanel.cut /\ PastePanel.up
        BY <1>1, <1>3 DEF PastePanel
    <2>3. QED
        BY <1>1, <1>5, <2>1, <2>2 DEF LateInv, HeldOnes
<1>8. LeadStays'
    <2> SUFFICES ASSUME ~strayed', NEW r \in posts', r.k \in Live PROVE Led(r, dlg', lead')
        BY DEF LeadStays
    <2>1. CASE r \in posts
        <3>1. Led(r, dlg, lead)
            BY <1>1, <2>1 DEF LateInv, LeadStays
        <3>2. QED
            BY <1>1, <1>4, <3>1 DEF Led, Live, Kinds3
    <2>2. CASE r = n
        BY <1>1, <1>3, <1>4, <2>2 DEF Led, LateInv
    <2>3. QED
        BY <1>1, <2>1, <2>2
<1>9. ArePanes(side') /\ lead' \in 1 .. 2 /\ strayed' \in BOOLEAN
    BY <1>1 DEF LateInv, ArePanes, IsPane
<1>10. QED
    BY <1>6, <1>7, <1>8, <1>9 DEF LateInv

\* A dialog goes: its requests keep the pane they were sent from.
LEMMA LateUnmount ==
    ASSUME LateInv, DlgInv', NEW k \in Kinds3, Unmount(k)
    PROVE  LateInv'
<1>1. /\ posts' = Frozen(posts, {k}) /\ dlg' = [dlg EXCEPT ![k] = Shut]
      /\ UNCHANGED <<side, lead, clip, lookups, sent, posted, strayed, crossed>>
    BY DEF Unmount, PutAway
<1>2. /\ \A q \in Frozen(posts, {k}) : \E r \in posts :
             Same(q, r) /\ IF r.k \in {k} /\ r.live THEN ~q.live /\ q.lead = lead ELSE q = r
      /\ Unique(posts) => Unique(Frozen(posts, {k}))
    BY FrozenSame DEF LateInv, DlgInv, DlgData
<1>3. \A q \in posts' : \E r \in posts :
          Same(q, r) /\ IF r.k = k /\ r.live THEN ~q.live /\ q.lead = lead ELSE q = r
    BY <1>1, <1>2
<1>4. Unique(posts')
    BY <1>1, <1>2 DEF LateInv, PostsNumbered
<1>5. \A j \in Kinds3 : dlg'[j] = IF j = k THEN Shut ELSE dlg[j]
    BY <1>1 DEF LateInv, DlgInv, DlgData
<1>6. PastePanel'.up => PastePanel.up /\ PastePanel'.cut = PastePanel.cut
    BY <1>5 DEF PastePanel, Kinds3, Shut
<1>7. LeadStays'
    <2> SUFFICES ASSUME ~strayed', NEW q \in posts', q.k \in Live PROVE Led(q, dlg', lead')
        BY DEF LeadStays
    <2>1. PICK r \in posts : Same(q, r) /\ IF r.k = k /\ r.live THEN ~q.live /\ q.lead = lead ELSE q = r
        BY <1>3
    <2>2. r.k \in Live /\ r.k = q.k /\ q.pane = r.pane
        BY <2>1 DEF Same
    <2>3. Led(r, dlg, lead)
        BY <1>1, <2>2 DEF LateInv, LeadStays
    <2>4. CASE r.k = k /\ r.live
        BY <2>1, <2>2, <2>3, <2>4 DEF Led
    <2>5. CASE ~(r.k = k /\ r.live)
        BY <1>1, <1>5, <2>1, <2>2, <2>3, <2>5 DEF Led, Live, Kinds3
    <2>6. QED
        BY <2>4, <2>5
<1>8. \A q \in posts' : \E r \in posts : Same(q, r)
    BY <1>3
<1>9. ArePanes(side') /\ lead' \in 1 .. 2 /\ strayed' \in BOOLEAN
    BY <1>1 DEF LateInv, ArePanes, IsPane
<1>10. QED
    BY <1>1, <1>4, <1>6, <1>7, <1>8, <1>9, LateAside

\* The clipboard: what is taken is taken with no paste under way, or is crossed.
LEMMA LateClip ==
    ASSUME LateInv, DlgInv', (\E op \in {"copy", "move"} : Take(op)) \/ LetGo \/ PutDown
    PROVE  LateInv' /\ acts' # acts
<1>1. UNCHANGED <<side, lead, dlg, posts, sent, posted, strayed>> /\ ~AnyUp /\ acts' = acts + 1
    BY DEF Take, LetGo, PutDown, Chord
<1>2. ~PastePanel.up /\ PastePanel' = PastePanel /\ Pastes' = Pastes
    BY <1>1 DEF AnyUp, Kinds3, PastePanel, Pastes
<1>3. HeldOnes'
    <2>1. CASE \E op \in {"copy", "move"} : Take(op)
        <3>1. crossed' = (crossed \/ lookups # {} \/ \E r \in posts : r.k = "paste") /\ lookups' = lookups
            BY <2>1 DEF Take
        <3>2. QED
            BY <1>2, <3>1 DEF HeldOnes, Pastes
    <2>2. CASE LetGo
        BY <2>2 DEF LetGo, HeldOnes
    <2>3. CASE PutDown
        <3>1. clip' = clip /\ crossed' = crossed /\ \A m \in lookups' : m \in lookups \/ m.clip = clip
            BY <2>3 DEF PutDown
        <3>2. QED
            BY <1>2, <3>1 DEF LateInv, HeldOnes
    <2>4. QED
        BY <2>1, <2>2, <2>3
<1>4. PostsNumbered' /\ LeadStays' /\ ArePanes(side') /\ lead' \in 1 .. 2 /\ strayed' \in BOOLEAN
    BY <1>1 DEF LateInv, PostsNumbered, Unique, LeadStays, Led, ArePanes, IsPane
<1>5. acts' # acts
    BY <1>1 DEF LateInv, DlgInv, DlgData
<1>6. QED
    BY <1>3, <1>4, <1>5 DEF LateInv

\* The source of a paste is listed: what is shown is what was looked for.
LEMMA LateListed ==
    ASSUME LateInv, DlgInv', NEW look \in lookups, PutListed(look)
    PROVE  /\ LateInv'
           /\ clip # NoClip /\ clip' = NoClip => crossed \/ clip.names \cap tree[clip.from] = {}
<1> DEFINE c == look.clip
           here == c.names \cap tree[c.from]
           f == [dlg["paste"] EXCEPT !.up = TRUE, !.op = c.op, !.cut = c, !.stood = look.to,
                       !.aim = [op |-> c.op, from |-> c.from, names |-> here, to |-> Landing(look)]]
           d == [dlg EXCEPT !["paste"] = f]
<1>1. /\ lookups' = lookups \ {look} /\ UNCHANGED <<sent, posted, crossed>>
      /\ DlgData /\ "paste" \in Kinds3 /\ \A k \in Kinds3 : IsForm(dlg[k])
    BY DEF PutListed, LateInv, DlgInv, DlgData, Kinds3
<1>2. IsForm(f) /\ f.up /\ f.cut = c
    BY <1>1 DEF IsForm, FormFields
<1>3. [dlg EXCEPT !["paste"].up = TRUE, !["paste"].op = c.op, !["paste"].cut = c, !["paste"].stood = look.to,
              !["paste"].aim = [op |-> c.op, from |-> c.from, names |-> here, to |-> Landing(look)]] = d
    BY <1>1 DEF DlgData
<1>4. \E l : IF here = {} THEN clip' = NoClip /\ Render(dlg, side, l, lead, posts, FALSE)
             ELSE clip' = clip /\ Render(d, side, l, lead, posts, FALSE)
    BY <1>3 DEF PutListed
<1>5. PICK l : IF here = {} THEN clip' = NoClip /\ Render(dlg, side, l, lead, posts, FALSE)
               ELSE clip' = clip /\ Render(d, side, l, lead, posts, FALSE)
    BY <1>4
<1> DEFINE e == IF here = {} THEN dlg ELSE d
<1> HIDE DEF f
<1>6. (\A k \in Kinds3 : IsForm(d[k])) /\ d["paste"] = f /\ \A k \in Live : d[k] = dlg[k]
    BY <1>1, <1>2, FormOf DEF DlgData, Live, Kinds3
<1>7. (\A k \in Kinds3 : IsForm(e[k])) /\ \A k \in Live : e[k] = dlg[k]
    BY <1>1, <1>6
<1>8. Render(e, side, l, lead, posts, FALSE)
    BY <1>5
<1>9. e["paste"].cut = IF here = {} THEN PastePanel.cut ELSE c
    BY <1>2, <1>6 DEF PastePanel
<1>10. here = {} => e["paste"] = PastePanel
    BY DEF PastePanel
<1> HIDE DEF e, d
<1>11. strayed \in BOOLEAN /\ FALSE \in BOOLEAN /\ (\A r \in posts : IsPost(r)) /\ lead \in 1 .. 2 /\ ArePanes(side)
    BY DEF LateInv, DlgInv, DlgData
<1>12. /\ ArePanes(side') /\ lead' = lead /\ PastePanel' = e["paste"]
       /\ \A q \in posts' : \E r \in posts : Same(q, r)
       /\ Unique(posts) => Unique(posts')
       /\ ~strayed' => ~strayed
       /\ (\A r \in posts : r.k \in Live => Led(r, e, lead) /\ (r.live => lead = lead))
          => \A q \in posts' : q.k \in Live => Led(q, dlg', lead')
    BY <1>7, <1>8, <1>11, LateRender
<1>13. LeadStays'
    <2> SUFFICES ASSUME ~strayed' PROVE \A q \in posts' : q.k \in Live => Led(q, dlg', lead')
        BY DEF LeadStays
    <2>1. \A r \in posts : r.k \in Live => Led(r, dlg, lead)
        BY <1>12 DEF LateInv, LeadStays
    <2>2. \A r \in posts : r.k \in Live => Led(r, e, lead)
        BY <1>7, <2>1 DEF Led
    <2>3. QED
        BY <1>12, <2>2
<1>14. PostsNumbered'
    BY <1>1, <1>12 DEF LateInv, PostsNumbered, Same
<1>15. ~crossed /\ clip # NoClip => c = clip /\ \A m \in lookups : m.clip = clip
    BY DEF LateInv, HeldOnes
<1>16. HeldOnes'
    <2> SUFFICES ASSUME clip' # NoClip, ~crossed'
                 PROVE  /\ \A m \in lookups' : m.clip = clip'
                        /\ \A r \in Pastes' : r.form.cut = clip'
                        /\ PastePanel'.up => PastePanel'.cut = clip'
        BY DEF HeldOnes
    <2>1. here # {} /\ clip' = clip /\ ~crossed
        BY <1>1, <1>5
    <2>2. HeldOnes
        BY DEF LateInv
    <2>3. \A r \in Pastes' : r.form.cut = clip
        BY <1>12, <2>1, <2>2 DEF HeldOnes, Pastes, Same
    <2>4. QED
        BY <1>1, <1>9, <1>12, <1>15, <2>1, <2>3
<1>17. LateInv'
    <2>1. strayed' \in BOOLEAN
        BY <1>8 DEF Render
    <2>2. QED
        BY <1>11, <1>12, <1>13, <1>14, <1>16, <2>1 DEF LateInv
<1>18. clip # NoClip /\ clip' = NoClip => crossed \/ clip.names \cap tree[clip.from] = {}
    BY <1>5, <1>15
<1>19. QED
    BY <1>17, <1>18

\* A request is refused.
LEMMA LateDenied ==
    ASSUME LateInv, DlgInv', NEW r \in posts, Denied(r)
    PROVE  LateInv'
<1>1. /\ posts' = posts \ {r} /\ dlg' = IF r.live THEN [dlg EXCEPT ![r.k].busy = FALSE] ELSE dlg
      /\ UNCHANGED <<side, lead, clip, lookups, sent, posted, strayed, crossed>> /\ r.k \in Kinds3
    BY DEF Denied, LateInv, DlgInv, DlgData, IsPost
<1>2. \A j \in Kinds3 : dlg'[j].up = dlg[j].up /\ dlg'[j].cut = dlg[j].cut
    <2> DEFINE f == [dlg[r.k] EXCEPT !.busy = FALSE]
    <2>1. IsForm(dlg[r.k]) /\ dlg = [k \in Kinds3 |-> dlg[k]]
        BY <1>1 DEF LateInv, DlgInv, DlgData
    <2>2. f.up = dlg[r.k].up /\ f.cut = dlg[r.k].cut
        BY <2>1 DEF IsForm, FormFields
    <2>3. dlg' = IF r.live THEN [dlg EXCEPT ![r.k] = f] ELSE dlg
        BY <1>1, <2>1
    <2> HIDE DEF f
    <2>4. QED
        BY <1>1, <2>1, <2>2, <2>3
<1>3. PastePanel'.up = PastePanel.up /\ PastePanel'.cut = PastePanel.cut
    BY <1>2 DEF PastePanel, Kinds3
<1>4. LeadStays'
    BY <1>1, <1>2 DEF LateInv, LeadStays, Led, Live, Kinds3
<1>5. Unique(posts') /\ \A q \in posts' : \E p \in posts : Same(q, p)
    BY <1>1 DEF LateInv, PostsNumbered, Unique, Same
<1>6. ArePanes(side') /\ lead' \in 1 .. 2 /\ strayed' \in BOOLEAN
    BY <1>1 DEF LateInv, ArePanes, IsPane
<1>7. QED
    BY <1>1, <1>3, <1>4, <1>5, <1>6, LateAside

\* A request is accepted: it is new among those sent, a cut goes with the
\* request of it, and its pane drops what it had selected.
LEMMA LateAccepted ==
    ASSUME LateInv, DlgInv', NEW r \in posts, Accepted(r)
    PROVE  /\ LateInv'
           /\ clip # NoClip /\ clip' = NoClip => crossed \/ \E d \in sent' \ sent : d.of.op = "move" /\ d.form.cut = clip
           /\ \A d \in sent' \ sent : d.k \in Live => strayed' \/ side'[d.pane].sel = {}
<1> DEFINE f == [dlg[r.k] EXCEPT !.busy = FALSE, !.leaving = TRUE]
           e == IF r.live THEN [dlg EXCEPT ![r.k] = f] ELSE dlg
           s == Dropped(r)
           ps == posts \ {r}
<1>1. /\ sent' = sent \cup {r} /\ clip' = IF Spent(r) THEN NoClip ELSE clip
      /\ UNCHANGED <<lookups, posted, crossed>>
      /\ r.k \in Kinds3 /\ DlgData /\ \A k \in Kinds3 : IsForm(dlg[k])
    BY DEF Accepted, LateInv, DlgInv, DlgData, IsPost
<1>2. IsForm(f) /\ f.up = dlg[r.k].up /\ f.cut = dlg[r.k].cut
    BY <1>1 DEF IsForm, FormFields
<1>3. Render(e, s, listed, lead, ps, FALSE)
    <2>1. [dlg EXCEPT ![r.k].busy = FALSE, ![r.k].leaving = TRUE] = [dlg EXCEPT ![r.k] = f]
        BY <1>1 DEF DlgData
    <2>2. QED
        BY <2>1 DEF Accepted
<1> HIDE DEF f
<1>4. \A k \in Kinds3 : IsForm(e[k]) /\ e[k].up = dlg[k].up /\ e[k].cut = dlg[k].cut
    BY <1>1, <1>2, FormOf DEF DlgData
<1>5. "paste" \in Kinds3 /\ Live \subseteq Kinds3 /\ "paste" \notin Live
    BY DEF Kinds3, Live
<1> HIDE DEF e
<1>6. strayed \in BOOLEAN /\ FALSE \in BOOLEAN /\ (\A q \in posts : IsPost(q)) /\ lead \in 1 .. 2 /\ ArePanes(side)
    BY DEF LateInv, DlgInv, DlgData
<1>7. ArePanes(s)
    <2> DEFINE drops(j) == IF r.k = "paste" THEN Spent(r) /\ (IF r.live THEN <<side[1].at, side[2].at>> ELSE r.at)[j] = r.of.from
                           ELSE j = IF r.live THEN lead ELSE r.lead
               t(j) == IF drops(j) THEN [side[j] EXCEPT !.sel = {}, !.cur = NoName] ELSE side[j]
    <2>1. s = [j \in 1 .. 2 |-> t(j)]
        BY DEF Dropped
    <2>2. \A j \in 1 .. 2 : IsPane(t(j))
        BY <1>6 DEF ArePanes, IsPane
    <2> HIDE DEF t
    <2>3. QED
        BY <2>1, <2>2 DEF ArePanes
<1>8. r.k \in Live => \A j \in 1 .. 2 : j = (IF r.live THEN lead ELSE r.lead) => s[j].sel = {}
    BY <1>5, <1>6 DEF Dropped, ArePanes, IsPane
<1> HIDE DEF s
<1>9. /\ ArePanes(side') /\ lead' = lead /\ (\A j \in 1 .. 2 : side'[j].sel = s[j].sel) /\ PastePanel' = e["paste"]
      /\ \A q \in posts' : \E p \in ps : Same(q, p)
      /\ Unique(ps) => Unique(posts')
      /\ ~strayed' => ~strayed
      /\ (\A p \in ps : p.k \in Live => Led(p, e, lead) /\ (p.live => lead = lead))
         => \A q \in posts' : q.k \in Live => Led(q, dlg', lead')
    BY <1>3, <1>4, <1>6, <1>7, LateRender
<1>10. LeadStays'
    <2> SUFFICES ASSUME ~strayed' PROVE \A q \in posts' : q.k \in Live => Led(q, dlg', lead')
        BY DEF LeadStays
    <2>1. \A p \in ps : p.k \in Live => Led(p, dlg, lead)
        BY <1>9 DEF LateInv, LeadStays
    <2>2. \A p \in ps : p.k \in Live => Led(p, e, lead)
        BY <1>4, <1>5, <2>1 DEF Led
    <2>3. QED
        BY <1>9, <2>2
<1>11. PostsNumbered'
    <2>1. Unique(ps) /\ \A p \in ps : p.no # r.no
        BY DEF LateInv, PostsNumbered, Unique
    <2>2. Unique(posts')
        BY <1>9, <2>1
    <2>3. \A q \in posts' : q.no \in 1 .. posted /\ \A d \in sent' : q.no # d.no
        BY <1>1, <1>9, <2>1 DEF LateInv, PostsNumbered, Same
    <2>4. QED
        BY <1>1, <2>2, <2>3 DEF LateInv, PostsNumbered
<1>12. HeldOnes'
    <2> SUFFICES ASSUME clip' # NoClip, ~crossed'
                 PROVE  /\ \A m \in lookups' : m.clip = clip'
                        /\ \A q \in Pastes' : q.form.cut = clip'
                        /\ PastePanel'.up => PastePanel'.cut = clip'
        BY DEF HeldOnes
    <2>1. clip' = clip /\ ~crossed /\ HeldOnes
        BY <1>1 DEF LateInv
    <2>2. \A q \in Pastes' : q.form.cut = clip
        BY <1>9, <2>1 DEF HeldOnes, Pastes, Same
    <2>3. PastePanel'.up => PastePanel'.cut = clip
        BY <1>4, <1>5, <1>9, <2>1 DEF HeldOnes, PastePanel
    <2>4. QED
        BY <1>1, <2>1, <2>2, <2>3 DEF HeldOnes
<1>13. LateInv'
    <2>1. strayed' \in BOOLEAN
        BY <1>3 DEF Render
    <2>2. QED
        BY <1>6, <1>9, <1>10, <1>11, <1>12, <2>1 DEF LateInv
<1>14. r \notin sent
    BY DEF LateInv, PostsNumbered
<1>15. clip # NoClip /\ clip' = NoClip => crossed \/ \E d \in sent' \ sent : d.of.op = "move" /\ d.form.cut = clip
    <2> SUFFICES ASSUME clip # NoClip, clip' = NoClip, ~crossed PROVE r.of.op = "move" /\ r.form.cut = clip
        BY <1>1, <1>14
    <2>1. r.k = "paste" /\ r.of.op = "move"
        BY <1>1 DEF Spent
    <2>2. r \in Pastes
        BY <2>1 DEF Pastes
    <2>3. QED
        BY <2>1, <2>2 DEF LateInv, HeldOnes
<1>16. ASSUME NEW d \in sent' \ sent, d.k \in Live, ~strayed' PROVE side'[d.pane].sel = {}
    <2>1. d = r /\ Led(r, dlg, lead)
        BY <1>1, <1>9, <1>16 DEF LateInv, LeadStays
    <2>2. r.pane \in 1 .. 2 /\ r.pane = IF r.live THEN lead ELSE r.lead
        BY <2>1 DEF Led
    <2>3. QED
        BY <1>8, <1>9, <1>16, <2>1, <2>2
<1>17. QED
    BY <1>13, <1>15, <1>16

\* What a step may not do to the clipboard and to the pane of a request.
HeldStep ==
    clip # NoClip /\ clip' = NoClip =>
        \/ acts' # acts \/ crossed
        \/ clip.names \cap tree[clip.from] = {}
        \/ \E d \in sent' \ sent : d.of.op = "move" /\ d.form.cut = clip
GhostStep == \A d \in sent' \ sent : d.k \in Live => strayed' \/ side'[d.pane].sel = {}

LEMMA LateKeeps == LateInv /\ [DlgNext]_dlgVars => LateInv' /\ HeldStep /\ GhostStep
<1> SUFFICES ASSUME LateInv, [DlgNext]_dlgVars PROVE LateInv' /\ HeldStep /\ GhostStep
    OBVIOUS
<1>1. DlgInv'
    BY DlgKeeps DEF LateInv
<1>2. ASSUME LateInv', UNCHANGED <<clip, sent>> PROVE LateInv' /\ HeldStep /\ GhostStep
    BY <1>2 DEF HeldStep, GhostStep
<1>3. CASE UNCHANGED dlgVars
    <2>1. UNCHANGED <<side, lead, clip, dlg, posts, sent, posted, strayed, crossed, lookups>>
        BY <1>3 DEF dlgVars
    <2>2. QED
        BY <1>1, <1>2, <2>1, LateOthers
<1>4. CASE \/ \E d \in DlgDirs : GoTo(d) \/ Relisted(d)
           \/ \E n \in DlgNames : Pick(n) \/ Mark(n)
           \/ TabKey
           \/ \E k \in Live, op \in {"copy", "move", "delete"} : Open(k, op)
    <2>1. UNCHANGED <<clip, sent>>
        BY <1>4 DEF GoTo, Relisted, Pick, Mark, TabKey, Open, PaneKey
    <2>2. QED
        BY <1>1, <1>2, <1>4, <2>1, LatePanes
<1>5. CASE \/ \E d \in DlgDirs, n \in DlgNames : Elsewhere(d, n)
           \/ \E look \in lookups : PutFails(look)
           \/ \E k \in Kinds3 : PlanAnswered(k)
           \/ \E r \in toRun : JobRuns(r)
    <2>1. UNCHANGED <<side, lead, clip, dlg, posts, sent, posted, strayed, crossed>> /\ lookups' \subseteq lookups
        BY <1>5 DEF Elsewhere, PutFails, PlanAnswered, JobRuns
    <2>2. QED
        BY <1>1, <1>2, <2>1, LateOthers
<1>6. CASE \/ \E k \in Kinds3 : Blanket(k) \/ Dismiss(k)
           \/ \E k \in Kinds3, n \in DlgNames : RowAnswer(k, n)
           \/ TypeToken
    <2>1. UNCHANGED <<clip, sent>>
        BY <1>6 DEF Blanket, Dismiss, RowAnswer, TypeToken, Panel
    <2>2. QED
        BY <1>1, <1>2, <1>6, <2>1, LatePanels
<1>7. CASE \E k \in Kinds3 : Submit(k) \/ Unmount(k)
    <2>1. UNCHANGED <<clip, sent>>
        BY <1>7 DEF Submit, Unmount, Panel
    <2>2. QED
        BY <1>1, <1>2, <1>7, <2>1, LateSubmit, LateUnmount
<1>8. CASE (\E op \in {"copy", "move"} : Take(op)) \/ LetGo \/ PutDown
    <2>1. LateInv' /\ acts' # acts
        BY <1>1, <1>8, LateClip
    <2>2. sent' = sent
        BY <1>8 DEF Take, LetGo, PutDown
    <2>3. QED
        BY <2>1, <2>2 DEF HeldStep, GhostStep
<1>9. CASE \E look \in lookups : PutListed(look)
    <2>1. PICK look \in lookups : PutListed(look)
        BY <1>9
    <2>2. sent' = sent
        BY <2>1 DEF PutListed
    <2>3. QED
        BY <1>1, <2>1, <2>2, LateListed DEF HeldStep, GhostStep
<1>10. CASE \E r \in posts : Denied(r)
    <2>1. UNCHANGED <<clip, sent>>
        BY <1>10 DEF Denied
    <2>2. QED
        BY <1>1, <1>2, <1>10, <2>1, LateDenied
<1>11. CASE \E r \in posts : Accepted(r)
    <2>1. PICK r \in posts : Accepted(r)
        BY <1>11
    <2>2. QED
        BY <1>1, <2>1, LateAccepted DEF HeldStep, GhostStep
<1>12. QED
    BY <1>3, <1>4, <1>5, <1>6, <1>7, <1>8, <1>9, <1>10, <1>11 DEF DlgNext
-----------------------------------------------------------------------------
(* What the dialogs are aimed at.                                          *)

\* What was answered for g is answered for t, which has at most lost names.
Fits(g, t) == g.op = t.op /\ g.from = t.from /\ g.to = t.to /\ t.names \subseteq g.names

\* A dialog that was answered is up, and aimed at what it was answered for.
GivenHere ==
    ~strayed /\ ~hasty =>
        \A k \in Kinds3 : dlg[k].given # NoAim => dlg[k].up /\ Fits(dlg[k].given, Target(k))

\* A paste is aimed at the place its key was pressed in, with what was held.
Held(f) == f.aim.to = f.stood /\ f.aim.names \subseteq f.cut.names

AimInv ==
    /\ LateInv /\ GivenHere /\ Held(PastePanel)
    /\ PasteGoesWhereItWasPressed /\ AnsweredForThis

LEMMA AimStart == DlgInit => AimInv
<1> SUFFICES ASSUME DlgInit PROVE AimInv
    OBVIOUS
<1>1. LateInv
    BY LateStart
<1>2. \A k \in Kinds3 : dlg[k].given = NoAim
    BY DEF DlgInit, Shut
<1>3. Held(PastePanel)
    BY DEF DlgInit, Held, PastePanel, Kinds3, Shut, NoAim, NoClip
<1>4. posts = {}
    BY DEF DlgInit
<1>5. QED
    BY <1>1, <1>2, <1>3, <1>4 DEF AimInv, GivenHere, PasteGoesWhereItWasPressed, AnsweredForThis

\* Requests that are those there were name what they named.
LEMMA AimPosts ==
    ASSUME PasteGoesWhereItWasPressed, AnsweredForThis, strayed => strayed', hasty => hasty',
           \A q \in posts' : \E r \in posts : q.k = r.k /\ q.of = r.of /\ q.form = r.form
    PROVE  PasteGoesWhereItWasPressed' /\ AnsweredForThis'
<1>1. ASSUME NEW q \in posts', q.k = "paste"
      PROVE  q.of.to = q.form.stood /\ q.of.names \subseteq q.form.cut.names
    BY <1>1 DEF PasteGoesWhereItWasPressed
<1>2. ASSUME NEW q \in posts'
      PROVE  \/ q.form.given = NoAim \/ strayed' \/ hasty'
             \/ /\ <<q.form.given.op, q.form.given.from, q.form.given.to>> = <<q.of.op, q.of.from, q.of.to>>
                /\ q.of.names \subseteq q.form.given.names
    <2>1. PICK r \in posts : q.k = r.k /\ q.of = r.of /\ q.form = r.form
        BY <1>2
    <2>2. \/ r.form.given = NoAim \/ strayed \/ hasty
          \/ /\ <<r.form.given.op, r.form.given.from, r.form.given.to>> = <<r.of.op, r.of.from, r.of.to>>
             /\ r.of.names \subseteq r.form.given.names
        BY DEF AnsweredForThis
    <2>3. QED
        BY <2>1, <2>2
<1>3. QED
    BY <1>1, <1>2 DEF PasteGoesWhereItWasPressed, AnsweredForThis

\* What a dialog is aimed at is of its own form and of the panes.
LEMMA SameTarget ==
    ASSUME NEW k, NEW f, NEW g, NEW s, NEW l, NEW i, f.up = g.up, f.op = g.op, f.aim = g.aim
    PROVE  Aimed(k, f, s, l, i) = Aimed(k, g, s, l, i)
BY DEF Aimed

\* A dialog's panel changes and the panes do not.
LEMMA AimDialog ==
    ASSUME GivenHere, DlgData, UNCHANGED <<side, listed, lead>>, strayed => strayed', hasty => hasty',
           NEW k \in Kinds3, NEW f, dlg' = [dlg EXCEPT ![k] = f], IsForm(f),
           \/ f.given = NoAim
           \/ /\ f.up = dlg[k].up /\ f.op = dlg[k].op /\ f.aim = dlg[k].aim
              /\ f.given = dlg[k].given \/ (dlg[k].up /\ f.given = Target(k))
    PROVE  GivenHere'
<1> SUFFICES ASSUME ~strayed', ~hasty', NEW j \in Kinds3, dlg'[j].given # NoAim
             PROVE  dlg'[j].up /\ Fits(dlg'[j].given, Target(j)')
    BY DEF GivenHere
<1>1. dlg'[k] = f /\ (j # k => dlg'[j] = dlg[j])
    BY FormOf
<1>2. dlg[j].given # NoAim => dlg[j].up /\ Fits(dlg[j].given, Target(j))
    BY DEF GivenHere
<1>3. CASE j # k
    <2>1. Target(j)' = Target(j)
        BY <1>1, <1>3 DEF Target
    <2>2. QED
        BY <1>1, <1>2, <1>3, <2>1
<1>4. CASE j = k
    <2>1. Target(k)' = Aimed(k, f, side, listed, lead) /\ Target(k) = Aimed(k, dlg[k], side, listed, lead)
        BY <1>1 DEF Target
    <2>2. /\ f.up = dlg[k].up /\ f.op = dlg[k].op /\ f.aim = dlg[k].aim
          /\ f.given = dlg[k].given \/ (dlg[k].up /\ f.given = Target(k))
        BY <1>1, <1>4
    <2>3. Target(k)' = Target(k)
        BY <2>1, <2>2, SameTarget
    <2>4. CASE f.given = dlg[k].given
        BY <1>1, <1>2, <1>4, <2>2, <2>3, <2>4
    <2>5. CASE dlg[k].up /\ f.given = Target(k)
        <3>1. Fits(Target(k), Target(k))
            BY DEF Fits
        <3>2. QED
            BY <1>1, <1>4, <2>2, <2>3, <2>5, <3>1
    <2>6. QED
        BY <2>2, <2>4, <2>5
<1>5. QED
    BY <1>3, <1>4

\* A render after a step that moves no pane under an answered dialog.
LEMMA AimRender ==
    ASSUME GivenHere, NEW d, NEW s, NEW l, NEW i \in 1 .. 2, NEW ps, NEW under, Render(d, s, l, i, ps, under),
           strayed \in BOOLEAN, under \in BOOLEAN, UNCHANGED hasty, ArePanes(s), ArePanes(side),
           ~strayed /\ ~hasty /\ ~under => \A k \in Kinds3 :
               \/ d[k].given = NoAim
               \/ /\ d[k].up = dlg[k].up /\ d[k].op = dlg[k].op /\ d[k].aim = dlg[k].aim
                  /\ d[k].given = dlg[k].given
                  /\ i = lead /\ \A j \in 1 .. 2 : s[j].at = side[j].at
    PROVE  GivenHere'
<1> SUFFICES ASSUME ~strayed', ~hasty', NEW k \in Kinds3, dlg'[k].given # NoAim
             PROVE  dlg'[k].up /\ Fits(dlg'[k].given, Target(k)')
    BY DEF GivenHere
<1> DEFINE seeded == [j \in 1 .. 2 |-> IF s[j].cur = NoName /\ l[s[j].at] # {}
                                       THEN [s[j] EXCEPT !.cur = FirstOf[l[s[j].at]]] ELSE s[j]]
           gone == {m \in Live : d[m].up /\ Aimed(m, d[m], seeded, l, i) = NoAim}
<1>1. /\ side' = seeded /\ lead' = i /\ listed' = l
      /\ dlg' = [m \in Kinds3 |-> IF m \in gone THEN Shut ELSE d[m]]
      /\ strayed' = (strayed \/ under \/ \E m \in Live \ gone :
                        /\ d[m].up /\ dlg[m].up
                        /\ ~(Aimed(m, d[m], seeded, l, i).names \subseteq Target(m).names))
    BY DEF Render
<1>2. ASSUME NEW j \in 1 .. 2 PROVE seeded[j].at = s[j].at
    <2>1. IsPane(s[j])
        BY DEF ArePanes
    <2>2. CASE s[j].cur = NoName /\ l[s[j].at] # {}
        BY <2>1, <2>2 DEF IsPane
    <2>3. CASE ~(s[j].cur = NoName /\ l[s[j].at] # {})
        BY <2>1, <2>3
    <2>4. QED
        BY <2>2, <2>3
<1> HIDE DEF seeded
<1>3. k \notin gone /\ dlg'[k] = d[k]
    <2>1. Shut.given = NoAim
        BY DEF Shut
    <2>2. QED
        BY <1>1, <2>1
<1>4. ~strayed /\ ~hasty /\ ~under
    BY <1>1
<1>5. /\ d[k].up = dlg[k].up /\ d[k].op = dlg[k].op /\ d[k].aim = dlg[k].aim /\ d[k].given = dlg[k].given
      /\ i = lead /\ \A j \in 1 .. 2 : s[j].at = side[j].at
    BY <1>3, <1>4
<1>6. dlg[k].up /\ Fits(dlg[k].given, Target(k))
    BY <1>3, <1>4, <1>5 DEF GivenHere
<1>7. Target(k)' = Aimed(k, d[k], seeded, l, i) /\ Target(k) = Aimed(k, dlg[k], side, listed, lead)
    BY <1>1, <1>3 DEF Target
<1>8. CASE k = "paste"
    <2>1. Target(k)' = d[k].aim /\ Target(k) = dlg[k].aim
        BY <1>7, <1>8 DEF Aimed
    <2>2. QED
        BY <1>3, <1>5, <1>6, <2>1
<1>9. CASE k # "paste"
    <2>1. k \in Live
        BY <1>9 DEF Kinds3, Live
    <2>2. d[k].up /\ Aimed(k, d[k], seeded, l, i) # NoAim
        BY <1>3, <1>5, <1>6, <2>1
    <2>3. Target(k)'.names \subseteq Target(k).names
        BY <1>1, <1>3, <1>4, <1>6, <1>7, <2>1, <2>2
    <2> DEFINE old == Inspected(side[lead], listed)
               new == Inspected(seeded[i], l)
    <2>4. /\ new # {}
          /\ Target(k)' = [op |-> d[k].op, from |-> seeded[i].at, names |-> new,
                           to |-> IF k = "delete" THEN "nowhere" ELSE seeded[Other(i)].at]
        BY <1>7, <1>9, <2>2 DEF Aimed
    <2>5. Target(k) = IF old = {} THEN NoAim
                      ELSE [op |-> dlg[k].op, from |-> side[lead].at, names |-> old,
                            to |-> IF k = "delete" THEN "nowhere" ELSE side[Other(lead)].at]
        BY <1>6, <1>7, <1>9 DEF Aimed
    <2> HIDE DEF old, new
    <2>6. old # {}
        BY <2>3, <2>4, <2>5 DEF NoAim
    <2>7. Other(i) \in 1 .. 2 /\ Other(i) = Other(lead)
        BY <1>5 DEF Other
    <2>8. seeded[i].at = side[lead].at /\ seeded[Other(i)].at = side[Other(lead)].at
        BY <1>2, <1>5, <2>7
    <2>9. Fits(Target(k), Target(k)')
        BY <1>5, <2>3, <2>4, <2>5, <2>6, <2>8 DEF Fits
    <2>10. QED
        BY <1>3, <1>5, <1>6, <2>9 DEF Fits
<1>10. QED
    BY <1>8, <1>9

LEMMA FrozenNames ==
    ASSUME NEW ps, \A r \in ps : IsPost(r), NEW gone
    PROVE  \A q \in Frozen(ps, gone) : \E r \in ps : q.k = r.k /\ q.of = r.of /\ q.form = r.form
<1> DEFINE F(r) == IF r.k \in gone /\ r.live
                   THEN [r EXCEPT !.live = FALSE, !.lead = lead, !.at = <<side[1].at, side[2].at>>] ELSE r
<1>1. ASSUME NEW r \in ps PROVE F(r).k = r.k /\ F(r).of = r.of /\ F(r).form = r.form
    <2>1. IsPost(r)
        OBVIOUS
    <2>2. CASE r.k \in gone /\ r.live
        BY <2>1, <2>2 DEF IsPost, PostFields
    <2>3. CASE ~(r.k \in gone /\ r.live)
        BY <2>3
    <2>4. QED
        BY <2>2, <2>3
<1>2. Frozen(ps, gone) = {F(r) : r \in ps}
    BY DEF Frozen
<1> HIDE DEF F
<1>3. QED
    BY <1>1, <1>2

\* The render's requests are those it was given.
LEMMA AimFrozen ==
    ASSUME AimInv, NEW ps \in SUBSET posts, NEW gone, posts' = Frozen(ps, gone),
           strayed => strayed', hasty => hasty'
    PROVE  PasteGoesWhereItWasPressed' /\ AnsweredForThis'
<1>1. \A r \in ps : IsPost(r)
    BY DEF AimInv, LateInv, DlgInv, DlgData
<1>2. \A q \in Frozen(ps, gone) : \E r \in ps : q.k = r.k /\ q.of = r.of /\ q.form = r.form
    BY <1>1, FrozenNames
<1>3. QED
    BY <1>2, AimPosts DEF AimInv

\* A step that ends with a render.
LEMMA AimRenders ==
    ASSUME AimInv, LateInv', NEW d, NEW s, NEW l, NEW i \in 1 .. 2, NEW ps \in SUBSET posts, NEW under \in BOOLEAN,
           Render(d, s, l, i, ps, under), UNCHANGED hasty, ArePanes(s), Held(d["paste"]),
           ~strayed /\ ~hasty /\ ~under => \A k \in Kinds3 :
               \/ d[k].given = NoAim
               \/ /\ d[k].up = dlg[k].up /\ d[k].op = dlg[k].op /\ d[k].aim = dlg[k].aim
                  /\ d[k].given = dlg[k].given
                  /\ i = lead /\ \A j \in 1 .. 2 : s[j].at = side[j].at
    PROVE  AimInv'
<1>1. strayed \in BOOLEAN /\ ArePanes(side) /\ GivenHere
    BY DEF AimInv, LateInv
<1>2. GivenHere'
    BY <1>1, AimRender
<1>3. PICK gone \in SUBSET Live :
          /\ dlg' = [k \in Kinds3 |-> IF k \in gone THEN Shut ELSE d[k]] /\ posts' = Frozen(ps, gone)
          /\ (strayed => strayed')
    BY DEF Render
<1>4. PastePanel' = d["paste"]
    BY <1>3 DEF PastePanel, Live, Kinds3
<1>5. PasteGoesWhereItWasPressed' /\ AnsweredForThis'
    BY <1>3, AimFrozen
<1>6. QED
    BY <1>2, <1>4, <1>5 DEF AimInv

\* Keys of the panes and listings that are read again.
LEMMA AimPanes ==
    ASSUME AimInv, LateInv',
           \/ \E d \in DlgDirs : GoTo(d) \/ Relisted(d)
           \/ \E n \in DlgNames : Pick(n) \/ Mark(n)
           \/ TabKey
           \/ \E k \in Live, op \in {"copy", "move", "delete"} : Open(k, op)
    PROVE  AimInv'
<1>1. /\ ArePanes(side) /\ lead \in 1 .. 2 /\ Other(lead) \in 1 .. 2 /\ AnyUp \in BOOLEAN
      /\ DlgData /\ Held(dlg["paste"]) /\ GivenHere
    BY DEF AimInv, LateInv, DlgInv, AnyUp, PastePanel, Other
<1>2. ~strayed /\ ~hasty /\ ~AnyUp => \A k \in Kinds3 : dlg[k].given = NoAim
    BY <1>1 DEF GivenHere, AnyUp
<1>3. ASSUME NEW s, NEW i \in 1 .. 2, PaneKey(s, i), ArePanes(s) PROVE AimInv'
    <2>1. Render(dlg, s, listed, i, posts, AnyUp) /\ UNCHANGED hasty
        BY <1>3 DEF PaneKey
    <2>2. QED
        BY <1>1, <1>2, <1>3, <2>1, AimRenders
<1>4. ASSUME NEW p, IsPane(p) PROVE ArePanes([side EXCEPT ![lead] = p])
    BY <1>1, <1>4 DEF ArePanes
<1>5. CASE \E d \in DlgDirs : GoTo(d)
    <2>1. PICK d \in DlgDirs : PaneKey([side EXCEPT ![lead] = Arrived(d)], lead)
        BY <1>5 DEF GoTo
    <2>2. IsPane(Arrived(d))
        BY DEF IsPane, Arrived
    <2>3. QED
        BY <1>1, <1>3, <1>4, <2>1, <2>2
<1>6. CASE \E n \in DlgNames : Pick(n) \/ Mark(n)
    <2>1. PICK n \in DlgNames : Pick(n) \/ Mark(n)
        BY <1>6
    <2>2. PICK ns : PaneKey([side EXCEPT ![lead].sel = ns, ![lead].cur = n], lead)
        BY <2>1 DEF Pick, Mark
    <2> DEFINE p == [side[lead] EXCEPT !.sel = ns, !.cur = n]
    <2>3. IsPane(side[lead])
        BY <1>1 DEF ArePanes
    <2>4. IsPane(p)
        BY <2>3 DEF IsPane
    <2>5. [side EXCEPT ![lead].sel = ns, ![lead].cur = n] = [side EXCEPT ![lead] = p]
        BY <1>1 DEF ArePanes
    <2> HIDE DEF p
    <2>6. QED
        BY <1>1, <1>3, <1>4, <2>2, <2>4, <2>5
<1>7. CASE TabKey
    BY <1>1, <1>3, <1>7 DEF TabKey
<1>8. CASE \E d \in DlgDirs : Relisted(d)
    <2>1. PICK l : Render(dlg, side, l, lead, posts, FALSE) /\ UNCHANGED hasty
        BY <1>8 DEF Relisted
    <2>2. QED
        BY <1>1, <2>1, AimRenders
<1>9. CASE \E k \in Live, op \in {"copy", "move", "delete"} : Open(k, op)
    <2>1. PICK k \in Live, op \in {"copy", "move", "delete"} : Open(k, op)
        BY <1>9
    <2> DEFINE d == [dlg EXCEPT ![k].up = TRUE, ![k].op = op]
               f == [dlg[k] EXCEPT !.up = TRUE, !.op = op]
    <2>2. k \in Kinds3 /\ k # "paste" /\ IsForm(dlg[k])
        BY <1>1 DEF Live, Kinds3, DlgData
    <2>3. IsForm(f) /\ f.given = dlg[k].given
        BY <2>2 DEF IsForm, FormFields
    <2>4. d = [dlg EXCEPT ![k] = f]
        BY <1>1, <2>2 DEF DlgData
    <2> HIDE DEF d, f
    <2>5. d["paste"] = dlg["paste"] /\ \A j \in Kinds3 : d[j].given = dlg[j].given
        BY <1>1, <2>2, <2>3, <2>4, FormOf DEF PastePanel
    <2>6. Render(d, side, listed, lead, posts, AnyUp) /\ UNCHANGED hasty
        BY <2>1 DEF Open, d
    <2>7. QED
        BY <1>1, <1>2, <2>5, <2>6, AimRenders
<1>10. QED
    BY <1>5, <1>6, <1>7, <1>8, <1>9

\* Steps that leave the dialogs, the panes and the requests.
LEMMA AimOthers ==
    ASSUME AimInv, LateInv',
           \/ \E d \in DlgDirs, n \in DlgNames : Elsewhere(d, n)
           \/ LetGo \/ PutDown
           \/ \E op \in {"copy", "move"} : Take(op)
           \/ \E look \in lookups : PutFails(look)
           \/ \E k \in Kinds3 : PlanAnswered(k)
           \/ \E r \in toRun : JobRuns(r)
    PROVE  AimInv'
<1>1. UNCHANGED <<dlg, side, listed, lead, posts, strayed>> /\ (hasty => hasty')
    <2>1. CASE (\E d \in DlgDirs, n \in DlgNames : Elsewhere(d, n)) \/ LetGo
        <3>1. CASE LetGo
            BY <3>1 DEF LetGo
        <3>2. ASSUME NEW d \in DlgDirs, NEW n \in DlgNames, Elsewhere(d, n)
              PROVE  UNCHANGED <<dlg, side, listed, lead, posts, strayed>> /\ (hasty => hasty')
            BY <3>2 DEF Elsewhere
        <3>3. QED
            BY <2>1, <3>1, <3>2
    <2>6. CASE \E op \in {"copy", "move"} : Take(op)
        <3>1. PICK op \in {"copy", "move"} : Take(op)
            BY <2>6
        <3>2. QED
            BY <3>1 DEF Take
    <2>2. CASE PutDown
        BY <2>2 DEF PutDown
    <2>3. CASE \E look \in lookups : PutFails(look)
        BY <2>3 DEF PutFails
    <2>4. CASE (\E k \in Kinds3 : PlanAnswered(k)) \/ \E r \in toRun : JobRuns(r)
        BY <2>4 DEF PlanAnswered, JobRuns
    <2>5. QED
        BY <2>1, <2>2, <2>3, <2>4, <2>6
<1>2. \A k \in Kinds3 : Target(k)' = Target(k)
    BY <1>1 DEF Target
<1>3. QED
    BY <1>1, <1>2, AimPosts DEF AimInv, GivenHere, PastePanel

\* A panel's answers, and its leaving.
LEMMA AimPanels ==
    ASSUME AimInv, LateInv',
           \/ TypeToken
           \/ \E k \in Kinds3 : Blanket(k) \/ Dismiss(k) \/ Unmount(k)
           \/ \E k \in Kinds3, n \in DlgNames : RowAnswer(k, n)
    PROVE  AimInv'
<1>1. DlgData /\ GivenHere /\ Held(dlg["paste"]) /\ \A k \in Kinds3 : IsForm(dlg[k])
    BY DEF AimInv, LateInv, DlgInv, DlgData, PastePanel
<1>2. ASSUME NEW k \in Kinds3, NEW f, IsForm(f), dlg' = [dlg EXCEPT ![k] = f],
             UNCHANGED <<side, listed, lead, strayed, hasty>>, PasteGoesWhereItWasPressed' /\ AnsweredForThis',
             \/ f = Shut
             \/ /\ f.up = dlg[k].up /\ f.op = dlg[k].op /\ f.aim = dlg[k].aim
                /\ f.stood = dlg[k].stood /\ f.cut = dlg[k].cut
                /\ f.given = dlg[k].given \/ (dlg[k].up /\ f.given = Target(k))
      PROVE  AimInv'
    <2>1. Shut.given = NoAim /\ Held(Shut)
        BY DEF Shut, Held, NoAim, NoClip
    <2>2. GivenHere'
        BY <1>1, <1>2, <2>1, AimDialog
    <2>3. dlg'[k] = f /\ (k # "paste" => PastePanel' = dlg["paste"])
        BY <1>1, <1>2, FormOf DEF PastePanel
    <2>4. Held(PastePanel')
        BY <1>1, <1>2, <2>1, <2>3 DEF Held, PastePanel
    <2>5. QED
        BY <1>2, <2>2, <2>4 DEF AimInv, Held
<1>3. ASSUME NEW k \in Kinds3, NEW f, IsForm(f), Panel(k, f), UNCHANGED <<posts, hasty>>,
             f.up = dlg[k].up, f.op = dlg[k].op, f.aim = dlg[k].aim, f.stood = dlg[k].stood, f.cut = dlg[k].cut,
             f.given = dlg[k].given \/ (dlg[k].up /\ f.given = Target(k))
      PROVE  AimInv'
    <2>1. dlg' = [dlg EXCEPT ![k] = f] /\ UNCHANGED <<side, listed, lead, strayed, hasty, posts>>
        BY <1>3 DEF Panel
    <2>2. PasteGoesWhereItWasPressed' /\ AnsweredForThis'
        BY <2>1, AimPosts DEF AimInv
    <2>3. QED
        BY <1>2, <1>3, <2>1, <2>2
<1>4. ASSUME NEW k \in Kinds3, Blanket(k) PROVE AimInv'
    <2> DEFINE f == [dlg[k] EXCEPT !.blanket = "overwrite", !.rows = {}, !.given = Target(k)]
    <2>1. /\ IsForm(f) /\ f.up = dlg[k].up /\ f.op = dlg[k].op /\ f.aim = dlg[k].aim /\ f.cut = dlg[k].cut
          /\ f.stood = dlg[k].stood /\ f.given = Target(k)
        BY <1>1 DEF IsForm, FormFields
    <2>2. Panel(k, f) /\ UNCHANGED <<posts, hasty>> /\ dlg[k].up
        BY <1>4 DEF Blanket, Planned
    <2> HIDE DEF f
    <2>3. QED
        BY <2>1, <2>2, <1>3
<1>5. ASSUME NEW k \in Kinds3, NEW n, RowAnswer(k, n) PROVE AimInv'
    <2> DEFINE f == [dlg[k] EXCEPT !.rows = @ \cup {n}, !.given = Target(k)]
    <2>1. /\ IsForm(f) /\ f.up = dlg[k].up /\ f.op = dlg[k].op /\ f.aim = dlg[k].aim /\ f.cut = dlg[k].cut
          /\ f.stood = dlg[k].stood /\ f.given = Target(k)
        BY <1>1 DEF IsForm, FormFields
    <2>2. Panel(k, f) /\ UNCHANGED <<posts, hasty>> /\ dlg[k].up
        BY <1>5 DEF RowAnswer, Planned
    <2> HIDE DEF f
    <2>3. QED
        BY <2>1, <2>2, <1>3
<1>6. CASE TypeToken
    <2> DEFINE k == "delete"
               f == [dlg[k] EXCEPT !.typed = Token(Target(k).names), !.given = Target(k)]
    <2>1. k \in Kinds3
        BY DEF Kinds3
    <2>2. /\ IsForm(f) /\ f.up = dlg[k].up /\ f.op = dlg[k].op /\ f.aim = dlg[k].aim /\ f.cut = dlg[k].cut
          /\ f.stood = dlg[k].stood /\ f.given = Target(k)
        BY <1>1, <2>1 DEF IsForm, FormFields
    <2>3. Panel(k, f) /\ UNCHANGED <<posts, hasty>> /\ dlg[k].up
        BY <1>6 DEF TypeToken, Planned
    <2> HIDE DEF f, k
    <2>4. QED
        BY <2>1, <2>2, <2>3, <1>3
<1>7. ASSUME NEW k \in Kinds3, Dismiss(k) PROVE AimInv'
    <2> DEFINE f == [dlg[k] EXCEPT !.leaving = TRUE]
    <2>1. /\ IsForm(f) /\ f.up = dlg[k].up /\ f.op = dlg[k].op /\ f.aim = dlg[k].aim /\ f.cut = dlg[k].cut
          /\ f.stood = dlg[k].stood /\ f.given = dlg[k].given
        BY <1>1 DEF IsForm, FormFields
    <2>2. Panel(k, f) /\ UNCHANGED <<posts, hasty>>
        BY <1>7 DEF Dismiss
    <2> HIDE DEF f
    <2>3. QED
        BY <2>1, <2>2, <1>3
<1>8. ASSUME NEW k \in Kinds3, Unmount(k) PROVE AimInv'
    <2>1. dlg' = [dlg EXCEPT ![k] = Shut] /\ UNCHANGED <<side, listed, lead, strayed, hasty>>
          /\ posts' = Frozen(posts, {k}) /\ IsForm(Shut)
        BY <1>8 DEF Unmount, PutAway, IsForm, FormFields, Shut
    <2>2. PasteGoesWhereItWasPressed' /\ AnsweredForThis'
        BY <2>1, AimFrozen
    <2>3. QED
        BY <2>1, <2>2, <1>2
<1>9. QED
    BY <1>4, <1>5, <1>6, <1>7, <1>8

\* A dialog is sent: what it sends is what it was answered for.
LEMMA AimSubmit ==
    ASSUME AimInv, LateInv', NEW k \in Kinds3, Submit(k) PROVE AimInv'
<1> DEFINE f == [dlg[k] EXCEPT !.busy = TRUE]
           r == [k |-> k, of |-> Target(k), form |-> dlg[k], no |-> posted', pane |-> lead, live |-> TRUE,
                 lead |-> lead, at |-> <<side[1].at, side[2].at>>]
<1>1. DlgData /\ GivenHere /\ Held(dlg["paste"]) /\ IsForm(dlg[k])
    BY DEF AimInv, LateInv, DlgInv, DlgData, PastePanel
<1>2. /\ dlg' = [dlg EXCEPT ![k] = f] /\ dlg[k].up /\ posts' = posts \cup {r}
      /\ UNCHANGED <<side, listed, lead, strayed>> /\ (hasty => hasty')
    BY DEF Submit, Armed, Planned, Panel
<1>3. /\ IsForm(f) /\ f.up = dlg[k].up /\ f.op = dlg[k].op /\ f.aim = dlg[k].aim /\ f.given = dlg[k].given
      /\ f.cut = dlg[k].cut /\ f.stood = dlg[k].stood
    BY <1>1 DEF IsForm, FormFields
<1>4. r.k = k /\ r.of = Target(k) /\ r.form = dlg[k]
    OBVIOUS
<1> HIDE DEF f, r
<1>5. GivenHere'
    BY <1>1, <1>2, <1>3, AimDialog
<1>6. Held(PastePanel')
    <2>1. dlg'[k] = f /\ (k # "paste" => PastePanel' = dlg["paste"])
        BY <1>1, <1>2, <1>3, FormOf DEF PastePanel
    <2>2. QED
        BY <1>1, <1>3, <2>1 DEF Held, PastePanel
<1>7. r.k = "paste" => r.of.to = r.form.stood /\ r.of.names \subseteq r.form.cut.names
    BY <1>1, <1>4 DEF Held, Target, Aimed
<1>8. strayed \/ hasty \/ r.form.given = NoAim \/ Fits(r.form.given, r.of)
    BY <1>1, <1>2, <1>4 DEF GivenHere
<1>9. PasteGoesWhereItWasPressed'
    BY <1>2, <1>7 DEF AimInv, PasteGoesWhereItWasPressed
<1>10. AnsweredForThis'
    <2> SUFFICES ASSUME NEW q \in posts'
                 PROVE  \/ q.form.given = NoAim \/ strayed' \/ hasty'
                        \/ /\ <<q.form.given.op, q.form.given.from, q.form.given.to>> = <<q.of.op, q.of.from, q.of.to>>
                           /\ q.of.names \subseteq q.form.given.names
        BY DEF AnsweredForThis
    <2>1. CASE q \in posts
        BY <1>2, <2>1 DEF AimInv, AnsweredForThis
    <2>2. CASE q = r
        BY <1>2, <1>8, <2>2 DEF Fits
    <2>3. QED
        BY <1>2, <2>1, <2>2
<1>11. QED
    BY <1>5, <1>6, <1>9, <1>10 DEF AimInv, Held

\* The source of a paste is listed: the dialog of a paste is aimed where its
\* key was pressed, at what is still there of what was held.
LEMMA AimListed ==
    ASSUME AimInv, LateInv', NEW look \in lookups, PutListed(look) PROVE AimInv'
<1> DEFINE c == look.clip
           here == c.names \cap tree[c.from]
           l == [listed EXCEPT ![c.from] = tree[c.from]]
           aim == [op |-> c.op, from |-> c.from, names |-> here, to |-> look.to]
           f == [dlg["paste"] EXCEPT !.up = TRUE, !.op = c.op, !.cut = c, !.stood = look.to, !.aim = aim]
<1>1. DlgData /\ GivenHere /\ Held(dlg["paste"]) /\ ArePanes(side) /\ lead \in 1 .. 2 /\ "paste" \in Kinds3
    BY DEF AimInv, LateInv, DlgInv, PastePanel, Kinds3
<1>2. IsForm(dlg["paste"])
    BY <1>1 DEF DlgData
<1>3. IsForm(f) /\ f.given = dlg["paste"].given /\ Held(f)
    BY <1>2 DEF IsForm, FormFields, Held
<1>4. UNCHANGED hasty
    BY DEF PutListed
<1>5. CASE here = {}
    <2>1. Render(dlg, side, l, lead, posts, FALSE)
        BY <1>5 DEF PutListed
    <2> HIDE DEF here, l
    <2>2. QED
        BY <1>1, <1>4, <2>1, AimRenders
<1>6. CASE here # {}
    <2> DEFINE d == [dlg EXCEPT !["paste"].up = TRUE, !["paste"].op = c.op, !["paste"].cut = c, !["paste"].stood = look.to,
                                !["paste"].aim = aim]
    <2>1. Render(d, side, l, lead, posts, FALSE)
        BY <1>6 DEF PutListed, Landing
    <2>2. d = [dlg EXCEPT !["paste"] = f]
        BY <1>1 DEF DlgData
    <2> HIDE DEF d, f, l, here, aim
    <2>3. d["paste"] = f /\ \A k \in Kinds3 : k # "paste" => d[k] = dlg[k]
        BY <1>1, <1>3, <2>2, FormOf
    <2>4. ~strayed /\ ~hasty => dlg["paste"].given = NoAim
        <3>1. ~hasty => ~dlg["paste"].up
            BY DEF AimInv, LateInv, DlgInv, OnePaste, PastePanel
        <3>2. QED
            BY <1>1, <3>1 DEF GivenHere
    <2>5. QED
        BY <1>1, <1>3, <1>4, <2>1, <2>3, <2>4, AimRenders
<1>7. QED
    BY <1>5, <1>6

\* A request is refused, or accepted: its dialog goes on or leaves.
LEMMA AimDenied ==
    ASSUME AimInv, LateInv', NEW r \in posts, Denied(r) PROVE AimInv'
<1>1. DlgData /\ GivenHere /\ Held(PastePanel) /\ IsPost(r)
    BY DEF AimInv, LateInv, DlgInv, DlgData
<1>2. /\ posts' = posts \ {r} /\ UNCHANGED <<side, listed, lead, strayed, hasty>>
      /\ dlg' = IF r.live THEN [dlg EXCEPT ![r.k].busy = FALSE] ELSE dlg
    BY DEF Denied
<1>3. PasteGoesWhereItWasPressed' /\ AnsweredForThis'
    BY <1>2, AimPosts DEF AimInv
<1>4. CASE r.live
    <2> DEFINE k == r.k
               f == [dlg[k] EXCEPT !.busy = FALSE]
    <2>1. k \in Kinds3 /\ IsForm(dlg[k])
        BY <1>1 DEF DlgData, IsPost
    <2>2. /\ IsForm(f) /\ f.up = dlg[k].up /\ f.op = dlg[k].op /\ f.aim = dlg[k].aim /\ f.cut = dlg[k].cut
          /\ f.stood = dlg[k].stood /\ f.given = dlg[k].given
        BY <2>1 DEF IsForm, FormFields
    <2>3. dlg' = [dlg EXCEPT ![k] = f]
        BY <1>1, <1>2, <1>4, <2>1 DEF DlgData
    <2> HIDE DEF k, f
    <2>4. GivenHere'
        BY <1>1, <1>2, <2>1, <2>2, <2>3, AimDialog
    <2>5. dlg'[k] = f /\ (k # "paste" => PastePanel' = PastePanel)
        BY <1>1, <2>1, <2>2, <2>3, FormOf DEF PastePanel
    <2>6. Held(PastePanel')
        BY <1>1, <2>2, <2>5 DEF Held, PastePanel
    <2>7. QED
        BY <1>3, <2>4, <2>6 DEF AimInv, Held
<1>5. CASE ~r.live
    <2>1. dlg' = dlg
        BY <1>2, <1>5
    <2>2. \A k \in Kinds3 : Target(k)' = Target(k)
        BY <1>2, <2>1 DEF Target
    <2>3. QED
        BY <1>1, <1>2, <1>3, <2>1, <2>2 DEF AimInv, GivenHere, PastePanel
<1>6. QED
    BY <1>4, <1>5

LEMMA AimAccepted ==
    ASSUME AimInv, LateInv', NEW r \in posts, Accepted(r) PROVE AimInv'
<1> DEFINE s == Dropped(r)
           f == [dlg[r.k] EXCEPT !.busy = FALSE, !.leaving = TRUE]
           d == IF r.live THEN [dlg EXCEPT ![r.k].busy = FALSE, ![r.k].leaving = TRUE] ELSE dlg
<1>1. DlgData /\ GivenHere /\ Held(dlg["paste"]) /\ ArePanes(side) /\ lead \in 1 .. 2 /\ IsPost(r)
    BY DEF AimInv, LateInv, DlgInv, DlgData, PastePanel
<1>2. Render(d, s, listed, lead, posts \ {r}, FALSE) /\ UNCHANGED hasty
    BY DEF Accepted
<1>3. r.k \in Kinds3 /\ IsForm(dlg[r.k])
    BY <1>1 DEF DlgData, IsPost
<1>4. /\ IsForm(f) /\ f.up = dlg[r.k].up /\ f.op = dlg[r.k].op /\ f.aim = dlg[r.k].aim /\ f.cut = dlg[r.k].cut
      /\ f.stood = dlg[r.k].stood /\ f.given = dlg[r.k].given
    BY <1>3 DEF IsForm, FormFields
<1>5. d = IF r.live THEN [dlg EXCEPT ![r.k] = f] ELSE dlg
    BY <1>1, <1>3 DEF DlgData
<1>6. ArePanes(s) /\ \A j \in 1 .. 2 : s[j].at = side[j].at
    <2>1. PICK P \in SUBSET (1 .. 2) :
              s = [j \in 1 .. 2 |-> IF j \in P THEN [side[j] EXCEPT !.sel = {}, !.cur = NoName] ELSE side[j]]
        <3> DEFINE i  == IF r.live THEN lead ELSE r.lead
                   at0 == IF r.live THEN <<side[1].at, side[2].at>> ELSE r.at
                   P == {j \in 1 .. 2 : IF r.k = "paste" THEN Spent(r) /\ at0[j] = r.of.from ELSE j = i}
        <3>1. s = [j \in 1 .. 2 |-> IF j \in P THEN [side[j] EXCEPT !.sel = {}, !.cur = NoName] ELSE side[j]]
            BY DEF Dropped
        <3>2. P \in SUBSET (1 .. 2)
            OBVIOUS
        <3>3. QED
            BY <3>1, <3>2
    <2>2. ASSUME NEW j \in 1 .. 2
          PROVE  LET p == [side[j] EXCEPT !.sel = {}, !.cur = NoName] IN IsPane(p) /\ p.at = side[j].at
        BY <1>1 DEF ArePanes, IsPane
    <2>3. \A j \in 1 .. 2 : IsPane(side[j])
        BY <1>1 DEF ArePanes
    <2>4. QED
        BY <2>1, <2>2, <2>3 DEF ArePanes
<1> HIDE DEF d, f, s
<1>7. \A k \in Kinds3 : /\ d[k].up = dlg[k].up /\ d[k].op = dlg[k].op /\ d[k].aim = dlg[k].aim /\ d[k].cut = dlg[k].cut
                        /\ d[k].stood = dlg[k].stood /\ d[k].given = dlg[k].given
    BY <1>1, <1>3, <1>4, <1>5, FormOf
<1>8. Held(d["paste"])
    BY <1>1, <1>7 DEF Held, Kinds3
<1>9. QED
    BY <1>1, <1>2, <1>6, <1>7, <1>8, AimRenders

LEMMA AimKeeps == AimInv /\ [DlgNext]_dlgVars => AimInv'
<1> SUFFICES ASSUME AimInv, [DlgNext]_dlgVars PROVE AimInv'
    OBVIOUS
<1>1. LateInv'
    BY LateKeeps DEF AimInv
<1>2. CASE UNCHANGED dlgVars
    <2>1. UNCHANGED <<dlg, side, listed, lead, posts, strayed, hasty>>
        BY <1>2 DEF dlgVars
    <2>2. \A k \in Kinds3 : Target(k)' = Target(k)
        BY <2>1 DEF Target
    <2>3. QED
        BY <1>1, <2>1, <2>2, AimPosts DEF AimInv, GivenHere, PastePanel
<1>3. CASE DlgNext
    BY <1>1, <1>3, AimPanes, AimOthers, AimPanels, AimSubmit, AimListed, AimDenied, AimAccepted DEF DlgNext
<1>4. QED
    BY <1>2, <1>3

\* A paste goes where its key was pressed, and what a dialog sends is what it
\* was answered for (PasteGoesWhereItWasPressed, AnsweredForThis).
THEOREM DialogsSendWhatTheyShow == DlgSpec => [](PasteGoesWhereItWasPressed /\ AnsweredForThis)
<1>1. AimInv => PasteGoesWhereItWasPressed /\ AnsweredForThis
    BY DEF AimInv
<1>2. QED
    BY <1>1, AimStart, AimKeeps, PTL DEF DlgSpec

\* What the types are of: panes, forms and requests of names there are.
PaneOf(p) == p.at \in DlgDirs /\ p.sel \subseteq DlgNames /\ p.cur \in DlgNames \cup {NoName}
FormOfNames(f) == f.blanket \in {"ask", "overwrite"} /\ f.rows \subseteq DlgNames /\ f.aim.names \subseteq DlgNames
Listings == [DlgDirs -> SUBSET DlgNames]
OfNames(ps) == \A r \in ps : r.of.names \subseteq DlgNames

TypedDlg ==
    /\ tree \in Listings /\ listed \in Listings
    /\ \A i \in 1 .. 2 : PaneOf(side[i])
    /\ \A k \in Kinds3 : FormOfNames(dlg[k])
    /\ clip.names \subseteq DlgNames /\ \A l \in lookups : l.clip.names \subseteq DlgNames
    /\ OfNames(posts) /\ OfNames(toRun)
    /\ acts \in 0 .. MaxActs /\ posted \in 0 .. MaxPosts /\ strays \in 0 .. MaxStrays

LEMMA TypedStart == DlgInit => TypedDlg
<1> SUFFICES ASSUME DlgInit PROVE TypedDlg
    OBVIOUS
<1>1. \A i \in 1 .. 2 : PaneOf(side[i])
    <2> SUFFICES ASSUME NEW i \in 1 .. 2 PROVE PaneOf(side[i])
        OBVIOUS
    <2>1. side[i] = [at |-> Start[i], sel |-> {},
                     cur |-> IF Held0[Start[i]] = {} THEN NoName ELSE FirstOf[Held0[Start[i]]]]
        BY DEF DlgInit
    <2>2. Start[i] \in DlgDirs /\ Held0[Start[i]] \subseteq DlgNames
        BY DialogsAssumption
    <2>3. Held0[Start[i]] # {} => FirstOf[Held0[Start[i]]] \in DlgNames
        BY <2>2, DialogsAssumption
    <2>4. QED
        BY <2>1, <2>2, <2>3 DEF PaneOf
<1>2. \A k \in Kinds3 : FormOfNames(dlg[k])
    BY DEF DlgInit, FormOfNames, Shut, NoAim
<1>3. clip.names \subseteq DlgNames
    BY DEF DlgInit, NoClip
<1>4. 0 \in 0 .. MaxActs /\ 0 \in 0 .. MaxPosts /\ 0 \in 0 .. MaxStrays
    BY DialogsAssumption
<1>5. QED
    BY <1>1, <1>2, <1>3, <1>4, DialogsAssumption DEF DlgInit, TypedDlg, Listings, OfNames

LEMMA FrozenOfNames ==
    ASSUME NEW ps, \A r \in ps : IsPost(r), OfNames(ps), NEW gone
    PROVE  OfNames(Frozen(ps, gone))
BY FrozenNames DEF OfNames

LEMMA TypedAims ==
    ASSUME NEW s, NEW i \in 1 .. 2, NEW l \in Listings, \A j \in 1 .. 2 : PaneOf(s[j]), NEW k, NEW f, FormOfNames(f)
    PROVE  Aimed(k, f, s, l, i).names \subseteq DlgNames
<1>1. Inspected(s[i], l) \subseteq DlgNames
    BY DEF Inspected, PaneOf, Listings
<1>2. QED
    BY <1>1 DEF Aimed, FormOfNames, NoAim

\* What is rendered is typed as it was.
LEMMA TypedRender ==
    ASSUME NEW d, NEW s, NEW l \in Listings, NEW i \in 1 .. 2, NEW ps, NEW under, Render(d, s, l, i, ps, under),
           ArePanes(s), \A j \in 1 .. 2 : PaneOf(s[j]), \A k \in Kinds3 : FormOfNames(d[k]),
           \A r \in ps : IsPost(r), OfNames(ps)
    PROVE  /\ listed' \in Listings /\ \A j \in 1 .. 2 : PaneOf(side'[j])
           /\ \A k \in Kinds3 : FormOfNames(dlg'[k])
           /\ OfNames(posts')
<1> DEFINE p(j) == IF s[j].cur = NoName /\ l[s[j].at] # {} THEN [s[j] EXCEPT !.cur = FirstOf[l[s[j].at]]] ELSE s[j]
<1>1. ASSUME NEW j \in 1 .. 2 PROVE PaneOf(p(j))
    <2>1. CASE s[j].cur = NoName /\ l[s[j].at] # {}
        <3>1. s[j] = [x \in {"at", "sel", "cur"} |-> s[j][x]] /\ PaneOf(s[j])
            BY DEF ArePanes, IsPane
        <3>2. FirstOf[l[s[j].at]] \in DlgNames
            BY <2>1, <3>1, DialogsAssumption DEF PaneOf, Listings
        <3>3. p(j).at = s[j].at /\ p(j).sel = s[j].sel /\ p(j).cur = FirstOf[l[s[j].at]]
            BY <2>1, <3>1
        <3>4. QED
            BY <3>1, <3>2, <3>3 DEF PaneOf
    <2>2. CASE ~(s[j].cur = NoName /\ l[s[j].at] # {})
        BY <2>2
    <2>3. QED
        BY <2>1, <2>2
<1>2. side' = [j \in 1 .. 2 |-> p(j)] /\ listed' = l
    BY DEF Render
<1> HIDE DEF p
<1>3. PICK gone : dlg' = [k \in Kinds3 |-> IF k \in gone THEN Shut ELSE d[k]] /\ posts' = Frozen(ps, gone)
    BY DEF Render
<1>4. FormOfNames(Shut)
    BY DEF FormOfNames, Shut, NoAim
<1>5. QED
    BY <1>1, <1>2, <1>3, <1>4, FrozenOfNames

LEMMA TypedForm ==
    ASSUME TypedDlg, DlgData, NEW k \in Kinds3, NEW f, FormOfNames(f)
    PROVE  \A j \in Kinds3 : FormOfNames([dlg EXCEPT ![k] = f][j])
BY DEF TypedDlg, DlgData

\* The row under the cursor is moved, or marked.
LEMMA TypedSide ==
    ASSUME TypedDlg, ArePanes(side), NEW i \in 1 .. 2, NEW x \in SUBSET DlgNames, NEW c \in DlgNames \cup {NoName}
    PROVE  LET s == [side EXCEPT ![i].sel = x, ![i].cur = c]
           IN  ArePanes(s) /\ \A j \in 1 .. 2 : PaneOf(s[j])
<1> DEFINE o == side[i]
           p == [[o EXCEPT !.sel = x] EXCEPT !.cur = c]
           s == [side EXCEPT ![i].sel = x, ![i].cur = c]
<1>1. side = [j \in 1 .. 2 |-> side[j]] /\ (\A j \in 1 .. 2 : IsPane(side[j])) /\ \A j \in 1 .. 2 : PaneOf(side[j])
    BY DEF ArePanes, TypedDlg
<1>2. s = [side EXCEPT ![i] = p]
    BY <1>1
<1>3. o = [y \in {"at", "sel", "cur"} |-> o[y]] /\ PaneOf(o)
    BY <1>1 DEF IsPane
<1> HIDE DEF o
<1>4. p.at = o.at /\ p.sel = x /\ p.cur = c /\ IsPane(p)
    BY <1>3 DEF IsPane
<1> HIDE DEF p, s
<1>5. PaneOf(p) /\ IsPane(p)
    BY <1>3, <1>4 DEF PaneOf
<1>6. s = [j \in 1 .. 2 |-> IF j = i THEN p ELSE side[j]]
    BY <1>1, <1>2
<1>7. s = [j \in 1 .. 2 |-> s[j]] /\ \A j \in 1 .. 2 : s[j] = IF j = i THEN p ELSE side[j]
    BY <1>6
<1>8. ArePanes(s) /\ \A j \in 1 .. 2 : PaneOf(s[j])
    BY <1>1, <1>5, <1>7 DEF ArePanes
<1>9. QED
    BY <1>8 DEF s

LEMMA TypedPanes ==
    ASSUME TypedDlg, LateInv,
           \/ \E d \in DlgDirs : GoTo(d) \/ Relisted(d)
           \/ \E n \in DlgNames : Pick(n) \/ Mark(n)
           \/ TabKey
           \/ \E k \in Live, op \in {"copy", "move", "delete"} : Open(k, op)
    PROVE  TypedDlg'
<1>1. /\ ArePanes(side) /\ lead \in 1 .. 2 /\ DlgData /\ \A r \in posts : IsPost(r)
      /\ \A k \in Kinds3 : IsForm(dlg[k])
    BY DEF LateInv, DlgInv, DlgData
<1>2. /\ tree \in Listings /\ listed \in Listings /\ (\A j \in 1 .. 2 : PaneOf(side[j]))
      /\ (\A k \in Kinds3 : FormOfNames(dlg[k])) /\ OfNames(posts)
      /\ acts \in 0 .. MaxActs /\ posted \in 0 .. MaxPosts /\ strays \in 0 .. MaxStrays
      /\ {MaxActs, MaxPosts, MaxStrays} \subseteq Nat
    BY DialogsAssumption DEF TypedDlg
<1>3. ASSUME NEW s, NEW i \in 1 .. 2, NEW under, NEW d, NEW l \in Listings, Render(d, s, l, i, posts, under),
             ArePanes(s), \A j \in 1 .. 2 : PaneOf(s[j]), \A k \in Kinds3 : FormOfNames(d[k]),
             acts' \in 0 .. MaxActs, strays' \in 0 .. MaxStrays, UNCHANGED <<tree, clip, lookups, toRun, posted>>
      PROVE  TypedDlg'
    <2>1. /\ listed' \in Listings /\ \A j \in 1 .. 2 : PaneOf(side'[j])
          /\ \A k \in Kinds3 : FormOfNames(dlg'[k])
          /\ OfNames(posts')
        BY <1>1, <1>2, <1>3, TypedRender
    <2>2. QED
        BY <1>2, <1>3, <2>1 DEF TypedDlg
<1>4. ASSUME acts < MaxActs /\ acts' = acts + 1, AnyUp => strays < MaxStrays,
             strays' = IF AnyUp THEN strays + 1 ELSE strays
      PROVE  acts' \in 0 .. MaxActs /\ strays' \in 0 .. MaxStrays
    <2>1. acts' \in 0 .. MaxActs
        BY <1>2, <1>4
    <2>2. strays' \in 0 .. MaxStrays
        BY <1>2, <1>4
    <2>3. QED
        BY <2>1, <2>2
<1>5. ASSUME NEW s, NEW i \in 1 .. 2, PaneKey(s, i), ArePanes(s), \A j \in 1 .. 2 : PaneOf(s[j]) PROVE TypedDlg'
    <2>1. /\ Render(dlg, s, listed, i, posts, AnyUp) /\ UNCHANGED <<tree, clip, lookups, toRun, posted>>
          /\ acts' \in 0 .. MaxActs /\ strays' \in 0 .. MaxStrays
        BY <1>4, <1>5 DEF PaneKey
    <2>2. QED
        BY <1>2, <1>3, <1>5, <2>1
<1>6. CASE \E d \in DlgDirs : GoTo(d)
    <2>1. PICK d \in DlgDirs : PaneKey([side EXCEPT ![lead] = Arrived(d)], lead)
        BY <1>6 DEF GoTo
    <2>2. IsPane(Arrived(d)) /\ PaneOf(Arrived(d))
        BY DEF IsPane, Arrived, PaneOf
    <2> DEFINE s == [side EXCEPT ![lead] = Arrived(d)]
    <2>3. ArePanes(s) /\ \A j \in 1 .. 2 : PaneOf(s[j])
        BY <1>1, <1>2, <2>2 DEF ArePanes
    <2> HIDE DEF s
    <2>4. QED
        BY <1>1, <1>5, <2>1, <2>3 DEF s
<1>7. CASE \E n \in DlgNames : Pick(n) \/ Mark(n)
    <2>1. \E x \in SUBSET DlgNames, c \in DlgNames \cup {NoName} :
             PaneKey([side EXCEPT ![lead].sel = x, ![lead].cur = c], lead)
        <3>1. CASE \E n \in DlgNames : Pick(n)
            <4>1. PICK n \in DlgNames : PaneKey([side EXCEPT ![lead].sel = {n}, ![lead].cur = n], lead)
                BY <3>1 DEF Pick
            <4>2. {n} \in SUBSET DlgNames
                OBVIOUS
            <4>3. QED
                BY <4>1, <4>2
        <3>2. CASE \E n \in DlgNames : Mark(n)
            <4>1. PICK n \in DlgNames :
                     PaneKey([side EXCEPT ![lead].sel = (@ \cup {n}) \ (@ \cap {n}), ![lead].cur = n], lead)
                BY <3>2 DEF Mark
            <4>2. [side EXCEPT ![lead].sel = (@ \cup {n}) \ (@ \cap {n}), ![lead].cur = n]
                  = [side EXCEPT ![lead].sel = (side[lead].sel \cup {n}) \ (side[lead].sel \cap {n}), ![lead].cur = n]
                BY <1>1 DEF ArePanes
            <4>3. (side[lead].sel \cup {n}) \ (side[lead].sel \cap {n}) \in SUBSET DlgNames
                BY <1>1, <1>2 DEF PaneOf
            <4>4. QED
                BY <4>1, <4>2, <4>3
        <3>3. QED
            BY <1>7, <3>1, <3>2
    <2>2. PICK x \in SUBSET DlgNames, c \in DlgNames \cup {NoName} :
             PaneKey([side EXCEPT ![lead].sel = x, ![lead].cur = c], lead)
        BY <2>1
    <2> DEFINE s == [side EXCEPT ![lead].sel = x, ![lead].cur = c]
    <2>3. ArePanes(s) /\ \A j \in 1 .. 2 : PaneOf(s[j])
        BY <1>1, TypedSide
    <2>4. PaneKey(s, lead)
        BY <2>2
    <2> HIDE DEF s
    <2>5. QED
        BY <1>1, <1>5, <2>3, <2>4
<1>8. CASE TabKey
    <2>1. Other(lead) \in 1 .. 2
        BY <1>1 DEF Other
    <2>2. QED
        BY <1>1, <1>2, <1>5, <1>8, <2>1 DEF TabKey
<1>9. CASE \E d \in DlgDirs : Relisted(d)
    <2>1. PICK d \in DlgDirs : Relisted(d)
        BY <1>9
    <2> DEFINE l == [listed EXCEPT ![d] = tree[d]]
    <2>2. l \in Listings
        BY <1>2 DEF Listings
    <2>3. Render(dlg, side, l, lead, posts, FALSE) /\ UNCHANGED <<tree, clip, lookups, toRun, posted, acts, strays>>
        BY <2>1 DEF Relisted
    <2> HIDE DEF l
    <2>4. QED
        BY <1>1, <1>2, <1>3, <2>2, <2>3
<1>10. CASE \E k \in Live, op \in {"copy", "move", "delete"} : Open(k, op)
    <2>1. PICK k \in Live, op \in {"copy", "move", "delete"} : Open(k, op)
        BY <1>10
    <2> DEFINE o == dlg[k]
               f == [o EXCEPT !.up = TRUE, !.op = op]
               d == [dlg EXCEPT ![k] = f]
    <2>2. k \in Kinds3 /\ FormOfNames(o) /\ o = [y \in FormFields |-> o[y]]
        BY <1>1, <1>2 DEF Live, Kinds3, IsForm
    <2>3. [dlg EXCEPT ![k].up = TRUE, ![k].op = op] = d
        BY <1>1, <2>2 DEF DlgData
    <2>4. Render(d, side, listed, lead, posts, AnyUp) /\ UNCHANGED <<tree, clip, lookups, toRun, posted>>
        BY <2>1, <2>3 DEF Open
    <2>5. acts' \in 0 .. MaxActs /\ strays' \in 0 .. MaxStrays
        BY <1>4, <2>1 DEF Open
    <2> HIDE DEF o
    <2>6. f.blanket = o.blanket /\ f.rows = o.rows /\ f.aim = o.aim
        BY <2>2 DEF FormFields
    <2> HIDE DEF f
    <2>7. FormOfNames(f)
        BY <2>2, <2>6 DEF FormOfNames
    <2>8. \A j \in Kinds3 : FormOfNames(d[j])
        BY <1>1, <2>2, <2>7, TypedForm
    <2> HIDE DEF d
    <2>9. QED
        BY <1>1, <1>2, <1>3, <2>4, <2>5, <2>8
<1>11. QED
    BY <1>6, <1>7, <1>8, <1>9, <1>10

\* The panel of a dialog changes, and what was counted is.
LEMMA TypedPanel ==
    ASSUME TypedDlg, DlgData, NEW k \in Kinds3, NEW f, FormOfNames(f), dlg' = [dlg EXCEPT ![k] = f],
           OfNames(posts'), acts' \in 0 .. MaxActs, posted' \in 0 .. MaxPosts,
           UNCHANGED <<tree, listed, side, clip, lookups, toRun, strays>>
    PROVE  TypedDlg'
<1>1. \A j \in Kinds3 : FormOfNames(dlg'[j])
    BY TypedForm
<1>2. QED
    BY <1>1 DEF TypedDlg

LEMMA TypedPanels ==
    ASSUME TypedDlg, LateInv,
           \/ TypeToken
           \/ \E k \in Kinds3 : Blanket(k) \/ Submit(k) \/ Dismiss(k) \/ Unmount(k)
           \/ \E k \in Kinds3, n \in DlgNames : RowAnswer(k, n)
    PROVE  TypedDlg'
<1>1. DlgData /\ (\A r \in posts : IsPost(r)) /\ \A k \in Kinds3 : IsForm(dlg[k])
    BY DEF LateInv, DlgInv, DlgData
<1>2. /\ listed \in Listings /\ (\A j \in 1 .. 2 : PaneOf(side[j])) /\ lead \in 1 .. 2
      /\ (\A k \in Kinds3 : FormOfNames(dlg[k])) /\ OfNames(posts)
      /\ acts \in 0 .. MaxActs /\ posted \in 0 .. MaxPosts /\ {MaxActs, MaxPosts, MaxStrays} \subseteq Nat
    BY DialogsAssumption DEF TypedDlg, LateInv
<1>3. ASSUME Spends PROVE acts' \in 0 .. MaxActs
    BY <1>2, <1>3 DEF Spends
<1>4. ASSUME NEW k \in Kinds3, NEW f, Panel(k, f), Spends, UNCHANGED <<posts, posted>>, FormOfNames(f) PROVE TypedDlg'
    BY <1>1, <1>2, <1>3, <1>4, TypedPanel DEF Panel
<1>5. ASSUME NEW k \in Kinds3, NEW r \in SUBSET DlgNames, NEW g, NEW b \in {"ask", "overwrite"}, NEW v
      PROVE  /\ FormOfNames([dlg[k] EXCEPT !.blanket = b, !.rows = r, !.given = g])
             /\ FormOfNames([dlg[k] EXCEPT !.rows = r, !.given = g])
             /\ FormOfNames([dlg[k] EXCEPT !.typed = v, !.given = g])
             /\ FormOfNames([dlg[k] EXCEPT !.busy = v])
             /\ FormOfNames([dlg[k] EXCEPT !.leaving = v])
    <2> DEFINE o == dlg[k]
    <2>1. o = [y \in FormFields |-> o[y]] /\ FormOfNames(o)
        BY <1>1, <1>2 DEF IsForm
    <2> HIDE DEF o
    <2>2. FormOfNames([o EXCEPT !.blanket = b, !.rows = r, !.given = g])
        BY <2>1 DEF FormOfNames, FormFields
    <2>3. FormOfNames([o EXCEPT !.rows = r, !.given = g])
        BY <2>1 DEF FormOfNames, FormFields
    <2>4. FormOfNames([o EXCEPT !.typed = v, !.given = g])
        BY <2>1 DEF FormOfNames, FormFields
    <2>5. FormOfNames([o EXCEPT !.busy = v]) /\ FormOfNames([o EXCEPT !.leaving = v])
        BY <2>1 DEF FormOfNames, FormFields
    <2>6. QED
        BY <2>2, <2>3, <2>4, <2>5 DEF o
<1>6. CASE TypeToken
    <2> DEFINE f == [dlg["delete"] EXCEPT !.typed = Token(Target("delete").names), !.given = Target("delete")]
    <2>1. "delete" \in Kinds3 /\ Panel("delete", f) /\ Spends /\ UNCHANGED <<posts, posted>>
        BY <1>6 DEF TypeToken, Kinds3
    <2>2. FormOfNames(f)
        BY <1>5, <2>1
    <2> HIDE DEF f
    <2>3. QED
        BY <1>4, <2>1, <2>2
<1>7. CASE \E k \in Kinds3 : Blanket(k)
    <2>1. PICK k \in Kinds3 : Blanket(k)
        BY <1>7
    <2> DEFINE f == [dlg[k] EXCEPT !.blanket = "overwrite", !.rows = {}, !.given = Target(k)]
    <2>2. Panel(k, f) /\ Spends /\ UNCHANGED <<posts, posted>>
        BY <2>1 DEF Blanket
    <2>3. FormOfNames(f)
        BY <1>5
    <2> HIDE DEF f
    <2>4. QED
        BY <1>4, <2>2, <2>3
<1>8. CASE \E k \in Kinds3 : Submit(k)
    <2>1. PICK k \in Kinds3 : Submit(k)
        BY <1>8
    <2> DEFINE f == [dlg[k] EXCEPT !.busy = TRUE]
               r == [k |-> k, of |-> Target(k), form |-> dlg[k], no |-> posted', pane |-> lead, live |-> TRUE,
                     lead |-> lead, at |-> <<side[1].at, side[2].at>>]
    <2>2. /\ dlg' = [dlg EXCEPT ![k] = f] /\ posts' = posts \cup {r} /\ posted < MaxPosts /\ posted' = posted + 1
          /\ acts' = acts /\ UNCHANGED <<tree, listed, side, clip, lookups, toRun, strays>>
        BY <2>1 DEF Submit, Panel
    <2>3. FormOfNames(f)
        BY <1>5
    <2>4. Target(k).names \subseteq DlgNames
        BY <1>2, TypedAims DEF Target
    <2>5. OfNames(posts')
        BY <1>2, <2>2, <2>4 DEF OfNames
    <2>6. posted' \in 0 .. MaxPosts
        BY <1>2, <2>2
    <2> HIDE DEF f, r
    <2>7. QED
        BY <1>1, <1>2, <2>2, <2>3, <2>5, <2>6, TypedPanel
<1>9. CASE \E k \in Kinds3 : Dismiss(k)
    <2>1. PICK k \in Kinds3 : Dismiss(k)
        BY <1>9
    <2> DEFINE f == [dlg[k] EXCEPT !.leaving = TRUE]
    <2>2. Panel(k, f) /\ Spends /\ UNCHANGED <<posts, posted>>
        BY <2>1 DEF Dismiss
    <2>3. FormOfNames(f)
        BY <1>5
    <2> HIDE DEF f
    <2>4. QED
        BY <1>4, <2>2, <2>3
<1>10. CASE \E k \in Kinds3 : Unmount(k)
    <2>1. PICK k \in Kinds3 : Unmount(k)
        BY <1>10
    <2>2. /\ dlg' = [dlg EXCEPT ![k] = Shut] /\ posts' = Frozen(posts, {k})
          /\ UNCHANGED <<tree, listed, side, clip, lookups, toRun, acts, posted, strays>>
        BY <2>1 DEF Unmount, PutAway
    <2>3. FormOfNames(Shut)
        BY DEF FormOfNames, Shut, NoAim
    <2>4. OfNames(posts')
        BY <1>1, <1>2, <2>2, FrozenOfNames
    <2>5. QED
        BY <1>1, <1>2, <2>2, <2>3, <2>4, TypedPanel
<1>11. CASE \E k \in Kinds3, n \in DlgNames : RowAnswer(k, n)
    <2>1. PICK k \in Kinds3, n \in DlgNames : RowAnswer(k, n)
        BY <1>11
    <2> DEFINE o == dlg[k]
               f == [o EXCEPT !.rows = @ \cup {n}, !.given = Target(k)]
               g == [o EXCEPT !.rows = o.rows \cup {n}, !.given = Target(k)]
    <2>2. Panel(k, f) /\ Spends /\ UNCHANGED <<posts, posted>>
        BY <2>1 DEF RowAnswer
    <2>3. o.rows \cup {n} \in SUBSET DlgNames
        BY <1>2 DEF FormOfNames
    <2>4. FormOfNames(g)
        BY <1>5, <2>3
    <2>5. f = g
        OBVIOUS
    <2> HIDE DEF f, g
    <2>6. QED
        BY <1>4, <2>2, <2>4, <2>5
<1>12. QED
    BY <1>6, <1>7, <1>8, <1>9, <1>10, <1>11

LEMMA TypedClip ==
    ASSUME TypedDlg, LateInv,
           \/ LetGo \/ PutDown \/ \E op \in {"copy", "move"} : Take(op)
           \/ \E d \in DlgDirs, n \in DlgNames : Elsewhere(d, n)
           \/ \E k \in Kinds3 : PlanAnswered(k)
           \/ \E look \in lookups : PutFails(look)
           \/ UNCHANGED dlgVars
    PROVE  TypedDlg'
<1>1. acts < MaxActs /\ acts' = acts + 1 => acts' \in 0 .. MaxActs
    BY DialogsAssumption DEF TypedDlg
<1>2. CASE LetGo
    BY <1>1, <1>2 DEF TypedDlg, LetGo, Chord, NoClip
<1>3. CASE PutDown
    BY <1>1, <1>3 DEF TypedDlg, PutDown, Chord
<1>4. CASE \E op \in {"copy", "move"} : Take(op)
    <2>1. PICK op \in {"copy", "move"} : Take(op)
        BY <1>4
    <2> DEFINE p == side[lead]
               names == IF p.sel # {} THEN p.sel ELSE {p.cur} \cap listed[p.at]
    <2>2. PaneOf(p) /\ listed \in Listings
        BY DEF LateInv, TypedDlg
    <2>3. names \subseteq DlgNames
        BY <2>2 DEF PaneOf, Listings
    <2>4. clip'.names = names /\ Chord /\ UNCHANGED <<tree, listed, side, lead, lookups, dlg, plans, posts, sent, toRun, posted, strays>>
        BY <2>1 DEF Take
    <2> HIDE DEF names
    <2>5. QED
        BY <1>1, <2>3, <2>4 DEF TypedDlg, Chord
<1>5. CASE \E d \in DlgDirs, n \in DlgNames : Elsewhere(d, n)
    <2>1. PICK d \in DlgDirs, n \in DlgNames : Elsewhere(d, n)
        BY <1>5
    <2>2. tree' \in Listings
        <3>1. tree' = [tree EXCEPT ![d] = (tree[d] \cup {n}) \ (tree[d] \cap {n})]
            BY <2>1 DEF Elsewhere
        <3>2. (tree[d] \cup {n}) \ (tree[d] \cap {n}) \subseteq DlgNames
            BY DEF TypedDlg, Listings
        <3>3. QED
            BY <3>1, <3>2 DEF TypedDlg, Listings
    <2>3. QED
        BY <1>1, <2>1, <2>2 DEF TypedDlg, Elsewhere
<1>6. CASE \E k \in Kinds3 : PlanAnswered(k)
    BY <1>6 DEF TypedDlg, PlanAnswered
<1>7. CASE \E look \in lookups : PutFails(look)
    BY <1>7 DEF TypedDlg, PutFails
<1>8. CASE UNCHANGED dlgVars
    BY <1>8 DEF TypedDlg, dlgVars
<1>9. QED
    BY <1>2, <1>3, <1>4, <1>5, <1>6, <1>7, <1>8

LEMMA TypedListed ==
    ASSUME TypedDlg, LateInv, NEW look \in lookups, PutListed(look) PROVE TypedDlg'
<1> DEFINE c == look.clip
           here == c.names \cap tree[c.from]
           l == [listed EXCEPT ![c.from] = tree[c.from]]
           aim == [op |-> c.op, from |-> c.from, names |-> here, to |-> Landing(look)]
           o == dlg["paste"]
           f == [[[[[o EXCEPT !.up = TRUE] EXCEPT !.op = c.op] EXCEPT !.cut = c] EXCEPT !.stood = look.to] EXCEPT !.aim = aim]
           d == [dlg EXCEPT !["paste"] = f]
<1>1. /\ ArePanes(side) /\ lead \in 1 .. 2 /\ DlgData /\ (\A r \in posts : IsPost(r)) /\ IsForm(o) /\ "paste" \in Kinds3
    BY DEF LateInv, DlgInv, DlgData, Kinds3
<1>2. /\ tree \in Listings /\ listed \in Listings /\ (\A j \in 1 .. 2 : PaneOf(side[j]))
      /\ (\A k \in Kinds3 : FormOfNames(dlg[k])) /\ OfNames(posts) /\ c.names \subseteq DlgNames
    BY DEF TypedDlg
<1>3. l \in Listings
    BY <1>2 DEF Listings
<1>4. UNCHANGED <<tree, toRun, acts, posted, strays>> /\ lookups' = lookups \ {look}
    BY DEF PutListed
<1>5. [dlg EXCEPT !["paste"].up = TRUE, !["paste"].op = c.op, !["paste"].cut = c, !["paste"].stood = look.to, !["paste"].aim = aim] = d
    BY <1>1 DEF DlgData
<1>6. \/ clip' = NoClip /\ Render(dlg, side, l, lead, posts, FALSE)
      \/ clip' = clip /\ Render(d, side, l, lead, posts, FALSE)
    BY <1>5 DEF PutListed
<1>7. o = [y \in FormFields |-> o[y]] /\ FormOfNames(o)
    BY <1>1, <1>2 DEF IsForm
<1>8. aim.names \subseteq DlgNames
    BY <1>2
<1> HIDE DEF o, aim, l
<1>9. f.blanket = o.blanket /\ f.rows = o.rows /\ f.aim = aim
    BY <1>7 DEF FormFields
<1> HIDE DEF f
<1>10. \A j \in Kinds3 : FormOfNames(d[j])
    <2>1. FormOfNames(f)
        BY <1>7, <1>8, <1>9 DEF FormOfNames
    <2>2. QED
        BY <1>1, <2>1, TypedForm
<1> HIDE DEF d
<1>11. /\ listed' \in Listings /\ \A j \in 1 .. 2 : PaneOf(side'[j])
       /\ \A k \in Kinds3 : FormOfNames(dlg'[k])
       /\ OfNames(posts')
    BY <1>1, <1>2, <1>3, <1>6, <1>10, TypedRender
<1>12. clip'.names \subseteq DlgNames
    <2>1. clip' = NoClip \/ clip' = clip
        BY <1>6
    <2>2. NoClip.names = {}
        BY DEF NoClip
    <2>3. QED
        BY <2>1, <2>2 DEF TypedDlg
<1>13. QED
    BY <1>4, <1>11, <1>12 DEF TypedDlg

LEMMA TypedAnswers ==
    ASSUME TypedDlg, LateInv,
           \/ \E r \in posts : Accepted(r) \/ Denied(r)
           \/ \E r \in toRun : JobRuns(r)
    PROVE  TypedDlg'
<1>1. /\ ArePanes(side) /\ lead \in 1 .. 2 /\ DlgData /\ (\A r \in posts : IsPost(r)) /\ \A k \in Kinds3 : IsForm(dlg[k])
    BY DEF LateInv, DlgInv, DlgData
<1>2. /\ tree \in Listings /\ listed \in Listings /\ (\A j \in 1 .. 2 : PaneOf(side[j]))
      /\ (\A k \in Kinds3 : FormOfNames(dlg[k])) /\ OfNames(posts) /\ OfNames(toRun)
    BY DEF TypedDlg
<1>3. ASSUME NEW r \in posts, NEW b
      PROVE  /\ r.k \in Kinds3
             /\ \A j \in Kinds3 : FormOfNames([dlg EXCEPT ![r.k].busy = FALSE, ![r.k].leaving = b][j])
             /\ \A j \in Kinds3 : FormOfNames([dlg EXCEPT ![r.k].busy = FALSE][j])
    <2> DEFINE k == r.k
               o == dlg[k]
               f == [[o EXCEPT !.busy = FALSE] EXCEPT !.leaving = b]
               g == [o EXCEPT !.busy = FALSE]
    <2>1. k \in Kinds3
        BY <1>1 DEF IsPost
    <2>2. o = [y \in FormFields |-> o[y]] /\ FormOfNames(o)
        BY <1>1, <1>2, <2>1 DEF IsForm
    <2>3. /\ [dlg EXCEPT ![k].busy = FALSE, ![k].leaving = b] = [dlg EXCEPT ![k] = f]
          /\ [dlg EXCEPT ![k].busy = FALSE] = [dlg EXCEPT ![k] = g]
        BY <1>1, <2>1 DEF DlgData
    <2> HIDE DEF o
    <2>4. FormOfNames(f) /\ FormOfNames(g)
        BY <2>2 DEF FormOfNames, FormFields
    <2> HIDE DEF f, g, k
    <2>5. QED
        BY <1>1, <2>1, <2>3, <2>4, TypedForm DEF k
<1>4. ASSUME NEW r \in posts, Accepted(r) PROVE TypedDlg'
    <2> DEFINE s == Dropped(r)
               d == IF r.live THEN [dlg EXCEPT ![r.k].busy = FALSE, ![r.k].leaving = TRUE] ELSE dlg
    <2>1. /\ Render(d, s, listed, lead, posts \ {r}, FALSE)
          /\ clip' \in {NoClip, clip} /\ toRun' \in {toRun, toRun \cup {r}}
          /\ tree' \in {tree, [tree EXCEPT ![r.of.from] = @ \ r.of.names]}
          /\ UNCHANGED <<lookups, acts, posted, strays>>
        BY <1>4 DEF Accepted
    <2>2. tree' \in Listings
        <3>1. [tree EXCEPT ![r.of.from] = @ \ r.of.names] \in Listings
            BY <1>2 DEF Listings
        <3>2. QED
            BY <1>2, <2>1, <3>1
    <2>3. ArePanes(s) /\ \A j \in 1 .. 2 : PaneOf(s[j])
        <3> DEFINE p(j) == [side[j] EXCEPT !.sel = {}, !.cur = NoName]
        <3>1. ASSUME NEW j \in 1 .. 2 PROVE IsPane(p(j)) /\ PaneOf(p(j)) /\ IsPane(side[j]) /\ PaneOf(side[j])
            <4> DEFINE o == side[j]
                       q == [o EXCEPT !.sel = {}, !.cur = NoName]
            <4>1. o = [y \in {"at", "sel", "cur"} |-> o[y]] /\ PaneOf(o) /\ IsPane(o)
                BY <1>1, <1>2 DEF ArePanes, IsPane
            <4> HIDE DEF o
            <4>2. q.at = o.at /\ q.sel = {} /\ q.cur = NoName /\ q = [y \in {"at", "sel", "cur"} |-> q[y]]
                BY <4>1
            <4> HIDE DEF q
            <4>3. IsPane(q) /\ PaneOf(q)
                BY <4>1, <4>2 DEF IsPane, PaneOf
            <4>4. QED
                BY <4>1, <4>3 DEF o, q
        <3> HIDE DEF p
        <3>2. PICK T : s = [j \in 1 .. 2 |-> IF j \in T THEN p(j) ELSE side[j]]
            <4> DEFINE i  == IF r.live THEN lead ELSE r.lead
                       spots == IF r.live THEN <<side[1].at, side[2].at>> ELSE r.at
                       on(j) == IF r.k = "paste" THEN Spent(r) /\ spots[j] = r.of.from ELSE j = i
            <4>1. s = [j \in 1 .. 2 |-> IF on(j) THEN p(j) ELSE side[j]]
                BY DEF Dropped, p
            <4> HIDE DEF on, s
            <4>2. s = [j \in 1 .. 2 |-> IF j \in {m \in 1 .. 2 : on(m)} THEN p(j) ELSE side[j]]
                BY <4>1
            <4>3. QED
                BY <4>2
        <3> HIDE DEF s
        <3>3. s = [j \in 1 .. 2 |-> s[j]] /\ \A j \in 1 .. 2 : IsPane(s[j]) /\ PaneOf(s[j])
            BY <3>1, <3>2
        <3>4. QED
            BY <3>3 DEF ArePanes
    <2>4. \A j \in Kinds3 : FormOfNames(d[j])
        BY <1>2, <1>3
    <2>5. OfNames(posts \ {r}) /\ OfNames(toRun') /\ \A q \in posts \ {r} : IsPost(q)
        BY <1>1, <1>2, <2>1 DEF OfNames
    <2>6. clip'.names \subseteq DlgNames
        BY <2>1 DEF TypedDlg, NoClip
    <2> HIDE DEF s, d
    <2>7. /\ listed' \in Listings /\ \A j \in 1 .. 2 : PaneOf(side'[j])
          /\ \A k \in Kinds3 : FormOfNames(dlg'[k])
          /\ OfNames(posts')
        BY <1>1, <1>2, <2>1, <2>3, <2>4, <2>5, TypedRender
    <2>8. QED
        BY <2>1, <2>2, <2>5, <2>6, <2>7 DEF TypedDlg
<1>5. ASSUME NEW r \in posts, Denied(r) PROVE TypedDlg'
    <2>1. /\ posts' = posts \ {r} /\ dlg' \in {dlg, [dlg EXCEPT ![r.k].busy = FALSE]}
          /\ UNCHANGED <<tree, listed, side, clip, lookups, toRun, acts, posted, strays>>
        BY <1>5 DEF Denied
    <2>2. (\A k \in Kinds3 : FormOfNames(dlg'[k])) /\ OfNames(posts')
        BY <1>2, <1>3, <2>1 DEF OfNames
    <2>3. QED
        BY <2>1, <2>2 DEF TypedDlg
<1>6. ASSUME NEW r \in toRun, JobRuns(r) PROVE TypedDlg'
    <2> DEFINE t == r.of
               moved == t.names \cap tree[t.from]
    <2>1. tree' = [e \in DlgDirs |-> IF e = t.to THEN tree[e] \cup moved
                                     ELSE IF e = t.from /\ t.op = "move" THEN tree[e] \ moved ELSE tree[e]]
        BY <1>6 DEF JobRuns
    <2>2. moved \subseteq DlgNames
        BY <1>2 DEF OfNames
    <2> HIDE DEF t, moved
    <2>3. tree' \in Listings
        BY <1>2, <2>1, <2>2 DEF Listings
    <2>4. QED
        BY <1>6, <2>3 DEF TypedDlg, JobRuns, OfNames
<1>7. QED
    BY <1>4, <1>5, <1>6

LEMMA TypedKeeps == TypedDlg /\ LateInv /\ [DlgNext]_dlgVars => TypedDlg'
BY TypedPanes, TypedPanels, TypedClip, TypedListed, TypedAnswers DEF DlgNext

LEMMA TypedHolds == TypedDlg /\ LateInv => DlgTypeOK
BY DEF TypedDlg, LateInv, DlgTypeOK, Listings, PaneOf, FormOfNames
=============================================================================
