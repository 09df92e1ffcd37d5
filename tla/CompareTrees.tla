---------------------------- MODULE CompareTrees ----------------------------
(***************************************************************************)
(* compareTrees and CompareService.compare: two trees walked together,     *)
(* directory by directory, each pair of names judged by what the listings  *)
(* said, and what only a checksum could tell settled from the digests      *)
(* already cached. Other people write to both trees meanwhile.             *)
(*                                                                         *)
(* What a listing says of a file is one stamp, which stands for its size   *)
(* and its time: whoever writes to a file gives it a new one.              *)
(***************************************************************************)
EXTENDS Naturals, SequencesExt, FiniteSetsExt, Ancestry, Picking

CONSTANTS
    CmpPaths,    \* the relative paths there ever are, in the order of a walk; the first is the root
    PathUnder,   \* PathUnder[p]: the directory that holds p
    AtFirst,     \* AtFirst[p]: what there may be at p, on either side
    CmpDepth,    \* `depth`
    CmpCeiling,  \* MAX_ENTRIES
    CmpWrites    \* a bound on what others do

Sides    == {"a", "b"}
CmpRoot  == Head(CmpPaths)
Relative == ToSet(CmpPaths)
Stamps   == {"old", "kept", "new"}
LinksTo  == {"link1", "link2", "link?"}   \* a target, another, one that could not be read
Facts    == {"none", "dir"} \cup Stamps \cup LinksTo
Kind(f)  == IF f \in Stamps THEN "file" ELSE IF f \in LinksTo THEN "symlink" ELSE f

ASSUME CompareAssumption ==
    /\ CmpPaths \in Seq(Relative) \ {<<>>} /\ IsInjective(CmpPaths)
    /\ PathUnder \in [Relative \ {CmpRoot} -> Relative]
    \* Every path is under the root.
    /\ \A S \in SUBSET Relative :
        CmpRoot \in S /\ (\A p \in Relative \ {CmpRoot} : PathUnder[p] \in S => p \in S) => S = Relative
    /\ AtFirst \in [Relative -> SUBSET Facts]
    /\ {CmpDepth, CmpCeiling, CmpWrites} \subseteq Nat /\ CmpDepth > 0

VARIABLES
    fact,    \* fact[s][p]: what is at p on side s
    bytes,   \* bytes[s][p]: what a file holds
    shut,    \* shut[s]: the directories side s will not list
    cache,   \* cache[s][p]: the row of FileHashes, a stamp and a digest
    writes,  \* how often others have written
    cstep,   \* where compare() stands
    work,    \* the pairs that are still to be judged, as they were listed
    cmpRows, \* `entries`
    cmpCut,  \* `truncated`
    unread,  \* `unreadable`
    still    \* history: the paths nobody touched since the comparison began

cmpVars == <<fact, bytes, shut, cache, writes, cstep, work, cmpRows, cmpCut, unread, still>>
diskVars == <<fact, bytes, shut, cache, writes>>

Up       == Ancestors(Relative, CmpRoot, PathUnder)
Level(p) == Cardinality(Up[p])
NoHash   == [stamp |-> "none", digest |-> "none"]

\* The two trees, what they will not list, and what is cached of them.
CmpTrees ==
    /\ fact \in [Sides -> {f \in [Relative -> Facts] :
                   /\ \A p \in Relative : f[p] \in AtFirst[p] \/ f[p] = "none"
                   /\ f[CmpRoot] = "dir"
                   /\ \A p \in Relative \ {CmpRoot} :
                        IF f[PathUnder[p]] = "dir" THEN f[p] \in AtFirst[p] ELSE f[p] = "none"}]
    /\ bytes \in [Sides -> [Relative -> {"x", "y"}]]
    /\ \A p \in Relative : bytes["a"][p] = "x" /\ (fact["b"][p] # "kept" => bytes["b"][p] = "x")
    /\ shut \in [Sides -> {{}, {p \in Relative : \E q \in Relative \ {CmpRoot} : PathUnder[q] = p} \ {CmpRoot}}]
    /\ \E known \in {"none", "old", "kept"} :
          cache = [s \in Sides |-> [p \in Relative |->
              IF known = "none" THEN NoHash
              ELSE [stamp |-> known, digest |-> IF known = "kept" THEN bytes[s][p] ELSE "x"]]]

CmpFresh ==
    /\ writes = 0 /\ cstep = "idle" /\ work = <<>> /\ cmpRows = {} /\ cmpCut = FALSE
    /\ unread = {} /\ still = {}

CmpInit == CmpTrees /\ CmpFresh
-----------------------------------------------------------------------------
\* Somebody writes a file, removes it or makes one (external).
Scribble ==
    /\ cstep \notin {"idle", "over"} /\ writes < CmpWrites /\ writes' = writes + 1
    /\ \E s \in Sides, p \in Relative \ {CmpRoot} :
        /\ fact[s][PathUnder[p]] = "dir" /\ fact[s][p] \in Stamps \cup {"none"}
        /\ \/ fact' = [fact EXCEPT ![s][p] = "new"] /\ \E c \in {"x", "y"} : bytes' = [bytes EXCEPT ![s][p] = c]
           \/ fact' = [fact EXCEPT ![s][p] = "none"] /\ UNCHANGED bytes
        /\ still' = still \ {p}
    /\ UNCHANGED <<shut, cache, cstep, work, cmpRows, cmpCut, unread>>

\* compare(): both roots are resolved, and the walk begins at them.
CompareBegin ==
    /\ cstep = "idle" /\ cstep' = "walk"
    /\ work' = <<[path |-> CmpRoot, a |-> "dir", b |-> "dir"]>> /\ still' = Relative
    /\ UNCHANGED <<diskVars, cmpRows, cmpCut, unread>>
-----------------------------------------------------------------------------
\* Mutation: two files that agree about everything a listing knows are the same.
Optimistic(x, y) ==
    IF y = "none" THEN [verdict |-> "onlyA", reason |-> "name"]
    ELSE IF x = "none" THEN [verdict |-> "onlyB", reason |-> "name"]
    ELSE IF x = y THEN [verdict |-> "identical", reason |-> "hash"]
    ELSE [verdict |-> "differs", reason |-> "kind"]

\* decide: the two cheap levels.
Decide(x, y) ==
    IF y = "none" THEN [verdict |-> "onlyA", reason |-> "name"]
    ELSE IF x = "none" THEN [verdict |-> "onlyB", reason |-> "name"]
    ELSE IF Kind(x) # Kind(y) THEN [verdict |-> "differs", reason |-> "kind"]
    ELSE IF "link?" \in {x, y} THEN [verdict |-> "inconclusive", reason |-> "link"]
    ELSE IF Kind(x) = "symlink" THEN [verdict |-> IF x = y THEN "identical" ELSE "differs", reason |-> "link"]
    ELSE IF x # y THEN [verdict |-> "differs", reason |-> "stamp"]
    ELSE [verdict |-> "inconclusive", reason |-> "hash"]

IsShared(w) == w.a = "dir" /\ w.b = "dir"

\* push: a row past the ceiling is not kept, and ends the walk.
Push(row) ==
    IF Cardinality(cmpRows) >= CmpCeiling THEN cmpCut' = TRUE /\ UNCHANGED cmpRows
    ELSE cmpRows' = cmpRows \cup {row} /\ UNCHANGED cmpCut

\* A directory of both sides: the two are listed at once, and their names are
\* judged before anything that comes after it. A side that will not list it
\* is named, and counts as empty.
Listed(s, d) == IF d \in shut[s] THEN [q \in Relative |-> "none"]
                ELSE [q \in Relative |-> IF q # CmpRoot /\ PathUnder[q] = d THEN fact[s][q] ELSE "none"]

\* The names either side has, in the order of a walk.
NamesOf(la, lb) == Picked(CmpPaths, {i \in DOMAIN CmpPaths : la[CmpPaths[i]] # "none" \/ lb[CmpPaths[i]] # "none"})

\* Mutation: a side that will not list is an empty one, and not named.
ListQuietly(d) ==
    LET la == Listed("a", d) lb == Listed("b", d)
        names == NamesOf(la, lb)
    IN  /\ work' = [i \in DOMAIN names |-> [path |-> names[i], a |-> la[names[i]], b |-> lb[names[i]]]] \o Tail(work)
        /\ UNCHANGED unread

ListBoth(d) ==
    LET la == Listed("a", d) lb == Listed("b", d)
        names == NamesOf(la, lb)
    IN  /\ work' = [i \in DOMAIN names |-> [path |-> names[i], a |-> la[names[i]], b |-> lb[names[i]]]] \o Tail(work)
        /\ unread' = unread \cup {<<s, d>> : s \in {t \in Sides : d \in shut[t]}}

CompareDescend ==
    /\ cstep = "walk" /\ work # <<>> /\ ~cmpCut
    /\ IsShared(Head(work)) /\ Level(Head(work).path) < CmpDepth
    /\ ListBoth(Head(work).path)
    /\ UNCHANGED <<diskVars, cstep, cmpRows, cmpCut, still>>

\* A directory of both sides that the bound leaves unopened is a row, and
\* sets `truncated`, which ends the walk.
CompareBound ==
    /\ cstep = "walk" /\ work # <<>> /\ ~cmpCut
    /\ IsShared(Head(work)) /\ Level(Head(work).path) >= CmpDepth
    /\ cmpCut' = TRUE /\ work' = Tail(work)
    /\ cmpRows' = IF Cardinality(cmpRows) >= CmpCeiling THEN cmpRows
                  ELSE cmpRows \cup {[path |-> Head(work).path, a |-> "dir", b |-> "dir",
                                       verdict |-> "inconclusive", reason |-> "depth"]}
    /\ UNCHANGED <<diskVars, cstep, unread, still>>

ComparePair ==
    /\ cstep = "walk" /\ work # <<>> /\ ~cmpCut /\ ~IsShared(Head(work))
    /\ LET w == Head(work) d == Decide(w.a, w.b)
       IN  Push([path |-> w.path, a |-> w.a, b |-> w.b, verdict |-> d.verdict, reason |-> d.reason])
    /\ work' = Tail(work)
    /\ UNCHANGED <<diskVars, cstep, unread, still>>

CompareWalked ==
    /\ cstep = "walk" /\ (work = <<>> \/ cmpCut)
    /\ cstep' = "digests" /\ work' = <<>>
    /\ UNCHANGED <<diskVars, cmpRows, cmpCut, unread, still>>

\* Mutation: any digest of that path will do.
AnyDigest(h, f) == h.stamp # "none"

\* usable: a digest of the file as the walk saw it.
Usable(h, f) == h.stamp = f

NeedsHash(r) == r.verdict = "inconclusive" /\ r.reason = "hash"

\* applyDigests: two usable digests settle a pair.
CompareDigests ==
    /\ cstep = "digests" /\ cstep' = "over"
    /\ cmpRows' = {LET ha == cache["a"][r.path] hb == cache["b"][r.path]
                IN  IF NeedsHash(r) /\ Usable(ha, r.a) /\ Usable(hb, r.b)
                    THEN [r EXCEPT !.verdict = IF ha.digest = hb.digest THEN "identical" ELSE "differs"]
                    ELSE r : r \in cmpRows}
    /\ UNCHANGED <<diskVars, work, cmpCut, unread, still>>

CompareNext == Scribble \/ CompareBegin \/ CompareDescend \/ CompareBound \/ ComparePair \/ CompareWalked \/ CompareDigests
-----------------------------------------------------------------------------
CompareTypeOK ==
    /\ fact \in [Sides -> [Relative -> Facts]] /\ bytes \in [Sides -> [Relative -> {"x", "y"}]]
    /\ shut \in [Sides -> SUBSET Relative] /\ writes \in 0..CmpWrites
    /\ cstep \in {"idle", "walk", "digests", "over"}
    /\ \A w \in ToSet(work) : w.path \in Relative /\ {w.a, w.b} \subseteq Facts
    /\ \A r \in cmpRows : r.verdict \in {"onlyA", "onlyB", "differs", "identical", "inconclusive"}
    /\ Cardinality(cmpRows) <= CmpCeiling /\ cmpCut \in BOOLEAN
    /\ unread \subseteq Sides \X Relative /\ still \subseteq Relative

Undisturbed(p) == ({p} \cup Up[p]) \subseteq still

\* Two files that are told identical, and that nobody wrote to since the
\* comparison began, hold the same bytes (compare-tree.ts: identical is never
\* claimed without evidence).
IdenticalIsEvidenced ==
    \A r \in cmpRows : r.verdict = "identical" /\ Kind(r.a) = "file" /\ Undisturbed(r.path)
                        => bytes["a"][r.path] = bytes["b"][r.path]

\* A comparison that says nothing was cut has a row for every name that stayed
\* on either side, unless a directory above it is named as unreadable; and a
\* name told to be on one side only is not on the other, unless that side's
\* directory is named.
NothingIsPassedOver ==
    cstep = "over" =>
        /\ ~cmpCut => \A p \in Relative \ {CmpRoot} :
              /\ Undisturbed(p) /\ \A d \in Up[p] : \A s \in Sides : fact[s][d] = "dir"
              /\ \E s \in Sides : fact[s][p] # "none"
              /\ ~(fact["a"][p] = "dir" /\ fact["b"][p] = "dir")
              => \/ \E r \in cmpRows : r.path = p
                 \/ \E s \in Sides, d \in Up[p] : <<s, d>> \in unread
        /\ \A r \in cmpRows : Undisturbed(r.path) =>
              /\ r.verdict = "onlyA" => fact["b"][r.path] = "none" \/ <<"b", PathUnder[r.path]>> \in unread
              /\ r.verdict = "onlyB" => fact["a"][r.path] = "none" \/ <<"a", PathUnder[r.path]>> \in unread

\* Not a property of the code, and checked by no run: a directory of both
\* sides below the bound is a row nobody compared, as long
\* as there is room for rows (compare-limits.ts, MAX_DEPTH). The first such
\* row ends the walk, and the next directory is in no row.
DepthIsTold ==
    cstep = "over" /\ Cardinality(cmpRows) < CmpCeiling =>
        \A p \in Relative \ {CmpRoot} :
            /\ Undisturbed(p) /\ Level(p) = CmpDepth
            /\ \A s \in Sides : fact[s][p] = "dir" /\ \A d \in Up[p] : d \notin shut[s]
            => \E r \in cmpRows : r.path = p
=============================================================================
