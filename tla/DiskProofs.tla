----------------------------- MODULE DiskProofs -----------------------------
(* Theorems about ScanJobs, for any scans, hosts, slots and faults, about  *)
(* HashJobs, for any jobs and files, about DirSizes, for any listing and   *)
(* workers, about ScanTree, for any tree, sizes and bounds, and about all  *)
(* of them side by side.                                                   *)
EXTENDS MCDisks, FiniteSetTheorems, SequenceTheorems, WellFoundedInduction, TLAPS

-----------------------------------------------------------------------------
(* Lines.                                                                  *)

\* One borrower more at the end of a queue it is not in.
LEMMA JoinsLine ==
    ASSUME NEW S, NEW s \in Seq(S), IsInjective(s), NEW b \in S, b \notin ToSet(s)
    PROVE  /\ Append(s, b) \in Seq(S)
           /\ IsInjective(Append(s, b))
           /\ ToSet(Append(s, b)) = ToSet(s) \cup {b}
<1> DEFINE t == Append(s, b)
<1>1. /\ t \in Seq(S) /\ Len(t) = Len(s) + 1 /\ Len(s) \in Nat
      /\ DOMAIN t = 1 .. Len(s) + 1 /\ DOMAIN s = 1 .. Len(s)
      /\ \A i \in 1 .. Len(s) : t[i] = s[i]
      /\ t[Len(s) + 1] = b
    OBVIOUS
<1>2. \A i \in 1 .. Len(s) : s[i] # b
    BY <1>1 DEF ToSet
<1> HIDE DEF t
<1>3. IsInjective(t)
    <2> SUFFICES ASSUME NEW i \in DOMAIN t, NEW k \in DOMAIN t, t[i] = t[k] PROVE i = k
        BY DEF IsInjective
    <2>1. CASE i \in 1 .. Len(s) /\ k \in 1 .. Len(s)
        BY <1>1, <2>1 DEF IsInjective
    <2>2. CASE i = Len(s) + 1 \/ k = Len(s) + 1
        BY <1>1, <1>2, <2>2
    <2>3. QED
        BY <1>1, <2>1, <2>2
<1>4. ToSet(t) = ToSet(s) \cup {b}
    <2>1. \A x \in ToSet(t) : x \in ToSet(s) \cup {b}
        BY <1>1 DEF ToSet
    <2>2. b \in ToSet(t)
        BY <1>1 DEF ToSet
    <2>3. \A x \in ToSet(s) : x \in ToSet(t)
        BY <1>1 DEF ToSet
    <2>4. QED
        BY <2>1, <2>2, <2>3
<1>5. QED
    BY <1>1, <1>3, <1>4 DEF t

\* One element taken out of a line, wherever it stands there.
LEMMA LeavesLine ==
    ASSUME NEW S, NEW s \in Seq(S), IsInjective(s), NEW n \in DOMAIN s
    PROVE  /\ RemoveAt(s, n) \in Seq(S)
           /\ IsInjective(RemoveAt(s, n))
           /\ ToSet(RemoveAt(s, n)) = ToSet(s) \ {s[n]}
<1> DEFINE t == RemoveAt(s, n)
           From(i) == IF i < n THEN i ELSE i + 1
<1>1. /\ Len(s) \in Nat /\ DOMAIN s = 1 .. Len(s) /\ n \in 1 .. Len(s)
    OBVIOUS
<1>2. /\ t \in Seq(S) /\ Len(t) = Len(s) - 1
      /\ DOMAIN t = 1 .. Len(s) - 1
      /\ \A i \in 1 .. Len(s) - 1 : t[i] = s[From(i)]
    <2> DEFINE u == SubSeq(s, 1, n - 1)
               v == SubSeq(s, n + 1, Len(s))
    <2>1. /\ u \in Seq(S) /\ Len(u) = n - 1
          /\ \A i \in 1 .. n - 1 : u[i] = s[i]
        BY <1>1
    <2>2. /\ v \in Seq(S) /\ Len(v) = Len(s) - n
          /\ \A i \in 1 .. Len(s) - n : v[i] = s[n + i]
        BY <1>1
    <2>3. t = u \o v
        BY DEF RemoveAt
    <2> HIDE DEF u, v, t
    <2>4. /\ t \in Seq(S) /\ Len(t) = Len(s) - 1
          /\ \A i \in 1 .. Len(s) - 1 : t[i] = IF i <= n - 1 THEN u[i] ELSE v[i - (n - 1)]
        <3>1. /\ t \in Seq(S) /\ Len(t) = Len(u) + Len(v)
              /\ \A i \in 1 .. Len(u) + Len(v) :
                    t[i] = IF i <= Len(u) THEN u[i] ELSE v[i - Len(u)]
            BY <2>1, <2>2, <2>3, ConcatProperties
        <3>2. Len(u) + Len(v) = Len(s) - 1
            BY <1>1, <2>1, <2>2
        <3>3. QED
            BY <2>1, <3>1, <3>2
    <2>5. DOMAIN t = 1 .. Len(s) - 1
        BY <2>4
    <2>6. ASSUME NEW i \in 1 .. Len(s) - 1 PROVE t[i] = s[From(i)]
        <3>1. CASE i <= n - 1
            BY <1>1, <2>1, <2>4, <3>1
        <3>2. CASE ~(i <= n - 1)
            <4>1. i - (n - 1) \in 1 .. Len(s) - n /\ n + (i - (n - 1)) = i + 1
                BY <1>1, <3>2
            <4>2. QED
                BY <1>1, <2>2, <2>4, <3>2, <4>1
        <3>3. QED
            BY <3>1, <3>2
    <2>7. QED
        BY <2>4, <2>5, <2>6
<1>3. \A i \in 1 .. Len(s) - 1 : From(i) \in 1 .. Len(s) /\ From(i) # n
    BY <1>1
<1>4. \A i, k \in 1 .. Len(s) - 1 : From(i) = From(k) => i = k
    BY <1>1
<1>5. \A m \in 1 .. Len(s) : m # n => \E i \in 1 .. Len(s) - 1 : From(i) = m
    <2> SUFFICES ASSUME NEW m \in 1 .. Len(s), m # n
                 PROVE  \E i \in 1 .. Len(s) - 1 : From(i) = m
        OBVIOUS
    <2>1. CASE m < n
        <3>1. m \in 1 .. Len(s) - 1 /\ From(m) = m
            BY <1>1, <2>1
        <3>2. QED
            BY <3>1
    <2>2. CASE m > n
        <3>1. m - 1 \in 1 .. Len(s) - 1 /\ From(m - 1) = m
            BY <1>1, <2>2
        <3>2. QED
            BY <3>1
    <2>3. QED
        BY <1>1, <2>1, <2>2
<1> HIDE DEF t, From
<1>6. IsInjective(t)
    BY <1>1, <1>2, <1>3, <1>4 DEF IsInjective
<1>7. ToSet(t) = ToSet(s) \ {s[n]}
    <2>1. ASSUME NEW x \in ToSet(t) PROVE x \in ToSet(s) \ {s[n]}
        BY <1>1, <1>2, <1>3 DEF ToSet, IsInjective
    <2>2. ASSUME NEW x \in ToSet(s) \ {s[n]} PROVE x \in ToSet(t)
        <3>1. PICK m \in 1 .. Len(s) : x = s[m] /\ m # n
            BY <1>1 DEF ToSet
        <3>2. PICK i \in 1 .. Len(s) - 1 : From(i) = m
            BY <1>5, <3>1
        <3>3. QED
            BY <1>2, <3>1, <3>2 DEF ToSet
    <2>3. QED
        BY <2>1, <2>2
<1>8. QED
    BY <1>2, <1>6, <1>7 DEF t

\* A nonempty set of naturals has a least member.
LEMMA LeastPlace ==
    ASSUME NEW S \in SUBSET Nat, S # {}
    PROVE  \E x \in S : \A y \in S : x <= y
<1>1. IsWellFoundedOn(OpToRel(<, Nat), Nat)
    BY NatLessThanWellFounded
<1>2. PICK x \in S : \A y \in S : ~ (<<y, x>> \in OpToRel(<, Nat))
    BY <1>1, WFMin
<1>3. \A y \in S : ~ (y < x)
    BY <1>2 DEF OpToRel
<1>4. QED
    BY <1>3

-----------------------------------------------------------------------------
(* The scans' line and running map.                                        *)

\* What a pump over a line and a running map leaves: a scan goes from the line
\* to a slot, or nobody can: there is no room, or every host in line is busy.
Started(ln, busy, S) ==
    /\ S \in SUBSET ToSet(ln)
    /\ sline' \in Seq(Scans) /\ IsInjective(sline') /\ ToSet(sline') = ToSet(ln) \ S
    /\ srun' = [s \in Scans |-> IF s \in S THEN "walk" ELSE IF s \in busy THEN srun[s] ELSE "off"]
    /\ \/ /\ S = {}
          /\ sproc = "up" /\ Cardinality(busy) < ScansInFlight
                => \A t \in ToSet(ln) : \E s \in busy : HostOf[s] = HostOf[t]
       \/ /\ sproc = "up" /\ Cardinality(busy) < ScansInFlight
          /\ \E t \in ToSet(ln) : S = {t} /\ \A s \in busy : HostOf[s] # HostOf[t]

LEMMA PumpStarts ==
    ASSUME NEW ln \in Seq(Scans), IsInjective(ln), NEW busy \in SUBSET Scans, SPump(ln, busy)
    PROVE  \E S : Started(ln, busy, S)
<1> DEFINE free == {i \in DOMAIN ln : \A s \in busy : HostOf[s] # HostOf[ln[i]]}
<1>0. DOMAIN ln \subseteq Nat /\ \A i \in DOMAIN ln : ln[i] \in Scans
    OBVIOUS
<1>1. CASE sproc # "up" \/ free = {} \/ Cardinality(busy) >= ScansInFlight
    <2>1. sline' = ln /\ srun' = [s \in Scans |-> IF s \in busy THEN srun[s] ELSE "off"]
        BY <1>1 DEF SPump
    <2>2. sproc = "up" /\ Cardinality(busy) < ScansInFlight
            => \A t \in ToSet(ln) : \E s \in busy : HostOf[s] = HostOf[t]
        <3> SUFFICES ASSUME sproc = "up", Cardinality(busy) < ScansInFlight, NEW t \in ToSet(ln)
                     PROVE  \E s \in busy : HostOf[s] = HostOf[t]
            OBVIOUS
        <3>1. Cardinality(busy) \in Nat /\ ScansInFlight \in Nat
            BY ScanAssumption, FS_Subset, FS_CardinalityType
        <3>2. free = {}
            BY <1>1, <3>1
        <3>3. PICK i \in DOMAIN ln : t = ln[i]
            BY DEF ToSet
        <3>4. QED
            BY <3>2, <3>3
    <2>3. Started(ln, busy, {})
        BY <2>1, <2>2 DEF Started
    <2>4. QED
        BY <2>3
<1>2. CASE ~(sproc # "up" \/ free = {} \/ Cardinality(busy) >= ScansInFlight)
    <2> DEFINE m == Min(free)
    <2>1. m \in free
        <3>1. \E x \in free : \A y \in free : x <= y
            BY <1>0, <1>2, LeastPlace
        <3>2. QED
            BY <3>1 DEF Min
    <2>2. /\ sline' = RemoveAt(ln, m)
          /\ srun'  = [s \in Scans |-> IF s = ln[m] THEN "walk"
                                       ELSE IF s \in busy THEN srun[s] ELSE "off"]
        BY <1>2 DEF SPump
    <2> HIDE DEF m
    <2>3. m \in DOMAIN ln /\ \A s \in busy : HostOf[s] # HostOf[ln[m]]
        BY <2>1
    <2>4. ln[m] \in ToSet(ln)
        BY <2>3 DEF ToSet
    <2>5. /\ sline' \in Seq(Scans) /\ IsInjective(sline')
          /\ ToSet(sline') = ToSet(ln) \ {ln[m]}
        BY <2>2, <2>3, LeavesLine
    <2>6. Cardinality(busy) < ScansInFlight
        <3>1. Cardinality(busy) \in Nat /\ ScansInFlight \in Nat
            BY ScanAssumption, FS_Subset, FS_CardinalityType
        <3>2. QED
            BY <1>2, <3>1
    <2>7. srun' = [s \in Scans |-> IF s \in {ln[m]} THEN "walk"
                                   ELSE IF s \in busy THEN srun[s] ELSE "off"]
        BY <2>2
    <2>8. Started(ln, busy, {ln[m]})
        BY <1>2, <2>3, <2>4, <2>5, <2>6, <2>7 DEF Started
    <2>9. QED
        BY <2>8
<1>3. QED
    BY <1>1, <1>2

-----------------------------------------------------------------------------
(* What holds of every scan, wherever its request and its run stand.       *)

\* A scan is in line or runs only after its request, and never both; a row is
\* DONE only after the run saved it, and a run that is past its save has ended
\* the row unless the database refused; nothing is left of a process that ended.
ScanStands(s) ==
    /\ ask[s] \in {"new", "previous", "create", "refused"} => scan[s] = "absent"
    /\ s \in Lined \/ srun[s] # "off" => ask[s] = "done" /\ scan[s] # "absent"
    /\ s \in Lined => srun[s] = "off"
    /\ ask[s] = "enqueue" => scan[s] # "absent"
    /\ ask[s] = "enqueue" \/ s \in Lined \/ srun[s] \in {"walk", "save"} => scan[s] # "DONE"
    /\ srun[s] = "save" => ending[s] # "none"
    /\ sproc = "up" => sabort[s] # "shutdown"
    /\ sproc = "down" => srun[s] = "off" /\ sabort[s] = "none" /\ ask[s] # "enqueue"
    /\ sproc = "up" /\ sused.faults = 0 /\ srun[s] \in {"trim", "leave"} => scan[s] # "RUNNING"

\* A RUNNING row has somebody who will end it.
ScanOwned(s) ==
    sproc = "up" /\ sused.faults = 0 /\ scan[s] = "RUNNING" =>
        \/ ask[s] = "enqueue" \/ srun[s] # "off" \/ s \in Lined
        \/ \E h \in ScanHosts : drop[h] = [step |-> "write", of |-> s]

\* What a scan supersedes and what a cancel names were rows of the same host.
ScanAtHome(s) ==
    older[s] # NoScan =>
        older[s] # s /\ HostOf[older[s]] = HostOf[s] /\ scan[older[s]] # "absent"
DropAtHome(h) ==
    drop[h].step # "idle" =>
        drop[h].of \in Scans /\ HostOf[drop[h].of] = h /\ scan[drop[h].of] # "absent"

ScanData ==
    /\ scan   \in [Scans -> {"absent", "RUNNING", "DONE", "FAILED", "CANCELLED", "gone"}]
    /\ older  \in [Scans -> Scans \cup {NoScan}]
    /\ began  \in [Scans -> 0 .. Cardinality(Scans)]
    /\ ask    \in [Scans -> {"new", "previous", "create", "refused", "enqueue", "done"}]
    /\ srun   \in [Scans -> {"off", "walk", "save", "trim", "leave"}]
    /\ sabort \in [Scans -> {"none", "user", "shutdown"}]
    /\ ending \in [Scans -> {"none", "DONE", "FAILED", "CANCELLED"}]
    /\ drop   \in [ScanHosts -> [step : {"idle", "read", "write"}, of : Scans \cup {NoScan}]]
    /\ sproc  \in {"up", "stopping", "down"}
    /\ sused  \in [cancels : Nat, ends : Nat, faults : Nat]

ScanLine == sline \in Seq(Scans) /\ IsInjective(sline) /\ (sproc # "up" => sline = <<>>)

ScanInv ==
    /\ ScanData
    /\ ScanLine
    /\ \A s \in Scans : ScanStands(s) /\ ScanOwned(s) /\ ScanAtHome(s)
    /\ \A h \in ScanHosts : DropAtHome(h)

LEMMA EmptyLine == <<>> \in Seq(Scans) /\ IsInjective(<<>>) /\ ToSet(<<>>) = {}
BY DEF IsInjective, ToSet

\* The scans of a host with a status, and the newest of them.
LEMMA NewestOf ==
    ASSUME ScanData, NEW S \in SUBSET Scans
    PROVE  /\ S # {} => Newest(S) \in S
           /\ S # {} => \A t \in S : began[t] <= began[Newest(S)]
           /\ S = {} => Newest(S) = NoScan
<1> DEFINE N == Cardinality(Scans)
           P == {N - began[s] : s \in S}
<1>1. N \in Nat
    BY ScanAssumption, FS_CardinalityType
<1>2. \A s \in S : began[s] \in 0 .. N
    BY DEF ScanData
<1>3. CASE S # {}
    <2>1. P \subseteq Nat /\ P # {}
        BY <1>1, <1>2, <1>3
    <2>2. PICK x \in P : \A y \in P : x <= y
        BY <2>1, LeastPlace
    <2>3. PICK s \in S : x = N - began[s]
        BY <2>2
    <2>4. \A t \in S : N - began[s] <= N - began[t]
        BY <2>2, <2>3
    <2>5. \A t \in S : began[t] <= began[s]
        BY <1>1, <1>2, <2>4
    <2>6. Newest(S) = CHOOSE u \in S : \A t \in S : began[t] <= began[u]
        BY <1>3 DEF Newest
    <2>7. QED
        BY <2>5, <2>6, <1>3
<1>4. QED
    BY <1>3 DEF Newest

-----------------------------------------------------------------------------
(* Every step keeps the invariant.                                         *)

\* Reaping ends rows, and only of scans that nobody creates or runs.
LEMMA AskKeeps ==
    ASSUME ScanInv, NEW s \in Scans, ScanAsk(s)
    PROVE  ScanInv'
<1>1. ScanData'
    BY DEF ScanInv, ScanData, ScanAsk, Of, Busy, SRunning, scanDb, scanPool
<1>2. ScanLine' /\ Lined' = Lined
    BY DEF ScanInv, ScanLine, Lined, ScanAsk, Of, Busy, SRunning, scanDb, scanPool
<1>3. ASSUME NEW t \in Scans PROVE ScanStands(t)'
    <2>1. ScanStands(t) /\ ScanData /\ ScanLine 
        BY DEF ScanInv
    <2>2. QED
        BY <1>2, <2>1 DEF ScanStands, ScanData, ScanAsk, Of, Busy, SRunning, scanDb, scanPool
<1>4. ASSUME NEW t \in Scans PROVE ScanOwned(t)'
    <2>1. ScanOwned(t) /\ ScanStands(t) /\ ScanData
        BY DEF ScanInv
    <2>2. QED
        BY <1>2, <2>1 DEF ScanOwned, ScanStands, ScanData, ScanAsk, Of, Busy, SRunning, scanDb, scanPool
<1>5. ASSUME NEW t \in Scans PROVE ScanAtHome(t)'
    <2>1. ScanAtHome(t) /\ ScanStands(t) /\ ScanData
        BY DEF ScanInv
    <2>2. QED
        BY <2>1 DEF ScanAtHome, ScanStands, ScanData, ScanAsk, Of, Busy, SRunning, scanDb, scanPool
<1>6. ASSUME NEW k \in ScanHosts PROVE DropAtHome(k)'
    <2>1. DropAtHome(k) /\ ScanData
        BY DEF ScanInv
    <2>2. QED
        BY <2>1 DEF DropAtHome, ScanData, ScanAsk, Of, Busy, SRunning, scanDb, scanPool
<1>7. QED
    BY <1>1, <1>2, <1>3, <1>4, <1>5, <1>6 DEF ScanInv

\* A row is created for a request, which then owns it.
LEMMA CreateKeeps ==
    ASSUME ScanInv, NEW s \in Scans, ScanCreate(s)
    PROVE  ScanInv'
<1>1. ScanData'
    <2> DEFINE made == {t \in Scans : scan[t] # "absent"}
    <2>1. Cardinality(made) + 1 \in 0 .. Cardinality(Scans)
        <3>1. s \notin made
            BY DEF ScanInv, ScanStands, ScanCreate
        <3>2. /\ IsFiniteSet(Scans) /\ made \subseteq Scans \ {s}
              /\ IsFiniteSet(Scans \ {s}) /\ Cardinality(Scans \ {s}) = Cardinality(Scans) - 1
            BY <3>1, ScanAssumption, FS_RemoveElement
        <3>3. /\ Cardinality(Scans) \in Nat /\ Cardinality(made) \in Nat
              /\ Cardinality(made) <= Cardinality(Scans \ {s})
            BY <3>2, FS_Subset, FS_CardinalityType
        <3>4. QED
            BY <3>2, <3>3
    <2> HIDE DEF made
    <2>2. /\ scan' = scan \/ scan' = [scan EXCEPT ![s] = "RUNNING"]
          /\ began' = began \/ began' = [began EXCEPT ![s] = Cardinality(made) + 1]
          /\ older' = older \/ older' = [older EXCEPT ![s] = NoScan]
          /\ ask' = [ask EXCEPT ![s] = "refused"] \/ ask' = [ask EXCEPT ![s] = "enqueue"]
          /\ UNCHANGED <<scanPool, drop, sproc, sused>>
        BY DEF ScanCreate, made
    <2>3. QED
        BY <2>1, <2>2 DEF ScanInv, ScanData, scanPool
<1>2. ScanLine' /\ Lined' = Lined
    BY DEF ScanInv, ScanLine, Lined, ScanCreate, scanDb, scanPool
<1>3. ASSUME NEW t \in Scans PROVE ScanStands(t)'
    <2>1. ScanStands(t) /\ ScanData /\ ScanLine 
        BY DEF ScanInv
    <2>2. QED
        BY <1>2, <2>1 DEF ScanStands, ScanData, ScanCreate, scanDb, scanPool
<1>4. ASSUME NEW t \in Scans PROVE ScanOwned(t)'
    <2>1. ScanOwned(t) /\ ScanStands(t) /\ ScanData
        BY DEF ScanInv
    <2>2. QED
        BY <1>2, <2>1 DEF ScanOwned, ScanStands, ScanData, ScanCreate, scanDb, scanPool
<1>5. ASSUME NEW t \in Scans PROVE ScanAtHome(t)'
    <2>1. ScanAtHome(t) /\ ScanStands(t) /\ ScanData
        BY DEF ScanInv
    <2>2. QED
        BY <2>1 DEF ScanAtHome, ScanStands, ScanData, ScanCreate, scanDb, scanPool
<1>6. ASSUME NEW k \in ScanHosts PROVE DropAtHome(k)'
    <2>1. DropAtHome(k) /\ ScanData
        BY DEF ScanInv
    <2>2. QED
        BY <2>1 DEF DropAtHome, ScanData, ScanCreate, scanDb, scanPool
<1>7. QED
    BY <1>1, <1>2, <1>3, <1>4, <1>5, <1>6 DEF ScanInv

\* A walk ends with something to save, or because the process stops.
LEMMA WalkKeeps ==
    ASSUME ScanInv, NEW s \in Scans, ScanWalk(s)
    PROVE  ScanInv'
<1>1. ScanData'
    BY DEF ScanInv, ScanData, ScanWalk, SMove, scanDb, scanPool
<1>2. ScanLine' /\ Lined' = Lined
    BY DEF ScanInv, ScanLine, Lined, ScanWalk, SMove, scanDb, scanPool
<1>3. ASSUME NEW t \in Scans PROVE ScanStands(t)'
    <2>1. ScanStands(t) /\ ScanData /\ ScanLine 
        BY DEF ScanInv
    <2>2. QED
        BY <1>2, <2>1 DEF ScanStands, ScanData, ScanWalk, SMove, scanDb, scanPool
<1>4. ASSUME NEW t \in Scans PROVE ScanOwned(t)'
    <2>1. ScanOwned(t) /\ ScanStands(t) /\ ScanData
        BY DEF ScanInv
    <2>2. QED
        BY <1>2, <2>1 DEF ScanOwned, ScanStands, ScanData, ScanWalk, SMove, scanDb, scanPool
<1>5. ASSUME NEW t \in Scans PROVE ScanAtHome(t)'
    <2>1. ScanAtHome(t) /\ ScanStands(t) /\ ScanData
        BY DEF ScanInv
    <2>2. QED
        BY <2>1 DEF ScanAtHome, ScanStands, ScanData, ScanWalk, SMove, scanDb, scanPool
<1>6. ASSUME NEW k \in ScanHosts PROVE DropAtHome(k)'
    <2>1. DropAtHome(k) /\ ScanData
        BY DEF ScanInv
    <2>2. QED
        BY <2>1 DEF DropAtHome, ScanData, ScanWalk, SMove, scanDb, scanPool
<1>7. QED
    BY <1>1, <1>2, <1>3, <1>4, <1>5, <1>6 DEF ScanInv

\* A save ends the row of its scan and removes the one it supersedes.
LEMMA SaveKeeps ==
    ASSUME ScanInv, NEW s \in Scans, ScanSave(s)
    PROVE  ScanInv'
<1>1. ScanData'
    <2>1. ScanData /\ ScanStands(s)
        BY DEF ScanInv
    <2>2. QED
        BY <2>1 DEF ScanData, ScanStands, ScanSave, SMove, Delete, scanDb, scanPool
<1>2. ScanLine' /\ Lined' = Lined
    BY DEF ScanInv, ScanLine, Lined, ScanSave, SMove, Delete, scanDb, scanPool
<1>3. ASSUME NEW t \in Scans PROVE ScanStands(t)'
    <2>1. ScanStands(t) /\ ScanData /\ ScanLine /\ ScanStands(s) /\ ScanAtHome(s)
        BY DEF ScanInv
    <2>2. QED
        BY <1>2, <2>1 DEF ScanStands, ScanData, ScanAtHome, ScanSave, SMove, Delete, scanDb, scanPool
<1>4. ASSUME NEW t \in Scans PROVE ScanOwned(t)'
    <2>1. ScanOwned(t) /\ ScanStands(t) /\ ScanData
        BY DEF ScanInv
    <2>2. QED
        BY <1>2, <2>1 DEF ScanOwned, ScanStands, ScanData, ScanSave, SMove, Delete, scanDb, scanPool
<1>5. ASSUME NEW t \in Scans PROVE ScanAtHome(t)'
    <2>1. ScanAtHome(t) /\ ScanStands(t) /\ ScanData
        BY DEF ScanInv
    <2>2. QED
        BY <2>1 DEF ScanAtHome, ScanStands, ScanData, ScanSave, SMove, Delete, scanDb, scanPool
<1>6. ASSUME NEW k \in ScanHosts PROVE DropAtHome(k)'
    <2>1. DropAtHome(k) /\ ScanData
        BY DEF ScanInv
    <2>2. QED
        BY <2>1 DEF DropAtHome, ScanData, ScanSave, SMove, Delete, scanDb, scanPool
<1>7. QED
    BY <1>1, <1>2, <1>3, <1>4, <1>5, <1>6 DEF ScanInv

\* A refused save is a fault.
LEMMA SaveRefusedKeeps ==
    ASSUME ScanInv, NEW s \in Scans, ScanSaveRefused(s)
    PROVE  ScanInv'
<1>1. ScanData'
    BY DEF ScanInv, ScanData, ScanSaveRefused, SMove, Fault, scanDb, scanPool
<1>2. ScanLine' /\ Lined' = Lined
    BY DEF ScanInv, ScanLine, Lined, ScanSaveRefused, SMove, Fault, scanDb, scanPool
<1>3. ASSUME NEW t \in Scans PROVE ScanStands(t)'
    <2>1. ScanStands(t) /\ ScanData /\ ScanLine 
        BY DEF ScanInv
    <2>2. QED
        BY <1>2, <2>1 DEF ScanStands, ScanData, ScanSaveRefused, SMove, Fault, scanDb, scanPool
<1>4. ASSUME NEW t \in Scans PROVE ScanOwned(t)'
    <2>1. ScanOwned(t) /\ ScanStands(t) /\ ScanData
        BY DEF ScanInv
    <2>2. QED
        BY <1>2, <2>1 DEF ScanOwned, ScanStands, ScanData, ScanSaveRefused, SMove, Fault, scanDb, scanPool
<1>5. ASSUME NEW t \in Scans PROVE ScanAtHome(t)'
    <2>1. ScanAtHome(t) /\ ScanStands(t) /\ ScanData
        BY DEF ScanInv
    <2>2. QED
        BY <2>1 DEF ScanAtHome, ScanStands, ScanData, ScanSaveRefused, SMove, Fault, scanDb, scanPool
<1>6. ASSUME NEW k \in ScanHosts PROVE DropAtHome(k)'
    <2>1. DropAtHome(k) /\ ScanData
        BY DEF ScanInv
    <2>2. QED
        BY <2>1 DEF DropAtHome, ScanData, ScanSaveRefused, SMove, Fault, scanDb, scanPool
<1>7. QED
    BY <1>1, <1>2, <1>3, <1>4, <1>5, <1>6 DEF ScanInv

\* A trim removes rows.
LEMMA TrimKeeps ==
    ASSUME ScanInv, NEW s \in Scans, ScanTrim(s)
    PROVE  ScanInv'
<1>1. ScanData'
    BY DEF ScanInv, ScanData, ScanTrim, SMove, Delete, Of, scanDb, scanPool
<1>2. ScanLine' /\ Lined' = Lined
    BY DEF ScanInv, ScanLine, Lined, ScanTrim, SMove, Delete, Of, scanDb, scanPool
<1>3. ASSUME NEW t \in Scans PROVE ScanStands(t)'
    <2>1. ScanStands(t) /\ ScanData /\ ScanLine 
        BY DEF ScanInv
    <2>2. QED
        BY <1>2, <2>1 DEF ScanStands, ScanData, ScanTrim, SMove, Delete, Of, scanDb, scanPool
<1>4. ASSUME NEW t \in Scans PROVE ScanOwned(t)'
    <2>1. ScanOwned(t) /\ ScanStands(t) /\ ScanData
        BY DEF ScanInv
    <2>2. QED
        BY <1>2, <2>1 DEF ScanOwned, ScanStands, ScanData, ScanTrim, SMove, Delete, Of, scanDb, scanPool
<1>5. ASSUME NEW t \in Scans PROVE ScanAtHome(t)'
    <2>1. ScanAtHome(t) /\ ScanStands(t) /\ ScanData
        BY DEF ScanInv
    <2>2. QED
        BY <2>1 DEF ScanAtHome, ScanStands, ScanData, ScanTrim, SMove, Delete, Of, scanDb, scanPool
<1>6. ASSUME NEW k \in ScanHosts PROVE DropAtHome(k)'
    <2>1. DropAtHome(k) /\ ScanData
        BY DEF ScanInv
    <2>2. QED
        BY <2>1 DEF DropAtHome, ScanData, ScanTrim, SMove, Delete, Of, scanDb, scanPool
<1>7. QED
    BY <1>1, <1>2, <1>3, <1>4, <1>5, <1>6 DEF ScanInv

\* A cancel ends the row it names.
LEMMA CancelWriteKeeps ==
    ASSUME ScanInv, NEW h \in ScanHosts, CancelWrite(h)
    PROVE  ScanInv'
<1>1. ScanData'
    BY DEF ScanInv, ScanData, CancelWrite, scanDb, scanPool
<1>2. ScanLine' /\ Lined' = Lined
    BY DEF ScanInv, ScanLine, Lined, CancelWrite, scanDb, scanPool
<1>3. ASSUME NEW t \in Scans PROVE ScanStands(t)'
    <2>1. ScanStands(t) /\ ScanData /\ ScanLine /\ DropAtHome(h)
        BY DEF ScanInv
    <2>2. QED
        BY <1>2, <2>1 DEF ScanStands, ScanData, DropAtHome, CancelWrite, scanDb, scanPool
<1>4. ASSUME NEW t \in Scans PROVE ScanOwned(t)'
    <2>1. ScanOwned(t) /\ ScanStands(t) /\ ScanData
        BY DEF ScanInv
    <2>2. QED
        BY <1>2, <2>1 DEF ScanOwned, ScanStands, ScanData, CancelWrite, scanDb, scanPool
<1>5. ASSUME NEW t \in Scans PROVE ScanAtHome(t)'
    <2>1. ScanAtHome(t) /\ ScanStands(t) /\ ScanData
        BY DEF ScanInv
    <2>2. QED
        BY <2>1 DEF ScanAtHome, ScanStands, ScanData, CancelWrite, scanDb, scanPool
<1>6. ASSUME NEW k \in ScanHosts PROVE DropAtHome(k)'
    <2>1. DropAtHome(k) /\ ScanData
        BY DEF ScanInv
    <2>2. QED
        BY <2>1 DEF DropAtHome, ScanData, CancelWrite, scanDb, scanPool
<1>7. QED
    BY <1>1, <1>2, <1>3, <1>4, <1>5, <1>6 DEF ScanInv

\* A boot ends every RUNNING row, or the database is at fault.
LEMMA BootKeeps ==
    ASSUME ScanInv, ScanBoot
    PROVE  ScanInv'
<1>1. ScanData'
    BY DEF ScanInv, ScanData, ScanBoot, Fault, scanDb, scanPool
<1>2. ScanLine' /\ Lined' = Lined
    BY DEF ScanInv, ScanLine, Lined, ScanBoot, Fault, scanDb, scanPool
<1>3. ASSUME NEW t \in Scans PROVE ScanStands(t)'
    <2>1. ScanStands(t) /\ ScanData /\ ScanLine 
        BY DEF ScanInv
    <2>2. QED
        BY <1>2, <2>1 DEF ScanStands, ScanData, ScanBoot, Fault, scanDb, scanPool
<1>4. ASSUME NEW t \in Scans PROVE ScanOwned(t)'
    <2>1. ScanOwned(t) /\ ScanStands(t) /\ ScanData
        BY DEF ScanInv
    <2>2. QED
        BY <1>2, <2>1 DEF ScanOwned, ScanStands, ScanData, ScanBoot, Fault, scanDb, scanPool
<1>5. ASSUME NEW t \in Scans PROVE ScanAtHome(t)'
    <2>1. ScanAtHome(t) /\ ScanStands(t) /\ ScanData
        BY DEF ScanInv
    <2>2. QED
        BY <2>1 DEF ScanAtHome, ScanStands, ScanData, ScanBoot, Fault, scanDb, scanPool
<1>6. ASSUME NEW k \in ScanHosts PROVE DropAtHome(k)'
    <2>1. DropAtHome(k) /\ ScanData
        BY DEF ScanInv
    <2>2. QED
        BY <2>1 DEF DropAtHome, ScanData, ScanBoot, Fault, scanDb, scanPool
<1>7. QED
    BY <1>1, <1>2, <1>3, <1>4, <1>5, <1>6 DEF ScanInv

\* A start reads the newest finished scan of its host.
LEMMA PreviousKeeps ==
    ASSUME ScanInv, NEW s \in Scans, ScanPrevious(s)
    PROVE  ScanInv'
<1> DEFINE done == Of(HostOf[s], "DONE")
<1>0. /\ Newest(done) \in Scans \cup {NoScan}
      /\ Newest(done) # NoScan => Newest(done) \in done
    <2>1. done \in SUBSET Scans /\ ScanData
        BY DEF ScanInv, Of
    <2>2. QED
        BY <2>1, NewestOf
<1> HIDE DEF done
<1>1. ScanData'
    BY <1>0 DEF ScanInv, ScanData, ScanPrevious, done, scanDb, scanPool
<1>2. ScanLine' /\ Lined' = Lined
    BY DEF ScanInv, ScanLine, Lined, ScanPrevious, done, scanDb, scanPool
<1>3. ASSUME NEW t \in Scans PROVE ScanStands(t)'
    <2>1. ScanStands(t) /\ ScanData /\ ScanLine 
        BY DEF ScanInv
    <2>2. QED
        BY <1>2, <2>1 DEF ScanStands, ScanData, ScanPrevious, done, scanDb, scanPool
<1>4. ASSUME NEW t \in Scans PROVE ScanOwned(t)'
    <2>1. ScanOwned(t) /\ ScanStands(t) /\ ScanData
        BY DEF ScanInv
    <2>2. QED
        BY <1>2, <2>1 DEF ScanOwned, ScanStands, ScanData, ScanPrevious, done, scanDb, scanPool
<1>5. ASSUME NEW t \in Scans PROVE ScanAtHome(t)'
    <2>1. ScanAtHome(t) /\ ScanStands(t) /\ ScanStands(s) /\ ScanData
        BY DEF ScanInv
    <2>2. QED
        BY <1>0, <2>1 DEF Of, ScanAtHome, ScanStands, ScanData, ScanPrevious, done, scanDb, scanPool
<1>6. ASSUME NEW k \in ScanHosts PROVE DropAtHome(k)'
    <2>1. DropAtHome(k) /\ ScanData
        BY DEF ScanInv
    <2>2. QED
        BY <2>1 DEF DropAtHome, ScanData, ScanPrevious, done, scanDb, scanPool
<1>7. QED
    BY <1>1, <1>2, <1>3, <1>4, <1>5, <1>6 DEF ScanInv

\* A cancel reads the RUNNING row of its host.
LEMMA CancelReadKeeps ==
    ASSUME ScanInv, NEW h \in ScanHosts, CancelRead(h)
    PROVE  ScanInv'
<1> DEFINE open == Of(h, "RUNNING")
<1>0. Newest(open) \in open /\ open \subseteq Scans
    <2>1. open \in SUBSET Scans /\ open # {} /\ ScanData
        BY DEF ScanInv, Of, CancelRead
    <2>2. QED
        BY <2>1, NewestOf
<1> HIDE DEF open
<1>1. ScanData'
    BY <1>0 DEF ScanInv, ScanData, CancelRead, open, scanDb, scanPool
<1>2. ScanLine' /\ Lined' = Lined
    BY DEF ScanInv, ScanLine, Lined, CancelRead, open, scanDb, scanPool
<1>3. ASSUME NEW t \in Scans PROVE ScanStands(t)'
    <2>1. ScanStands(t) /\ ScanData /\ ScanLine 
        BY DEF ScanInv
    <2>2. QED
        BY <1>2, <2>1 DEF ScanStands, ScanData, CancelRead, open, scanDb, scanPool
<1>4. ASSUME NEW t \in Scans PROVE ScanOwned(t)'
    <2>1. ScanOwned(t) /\ ScanStands(t) /\ ScanData
        BY DEF ScanInv
    <2>2. QED
        BY <1>0, <1>2, <2>1 DEF ScanOwned, ScanStands, ScanData, CancelRead, open, scanDb, scanPool
<1>5. ASSUME NEW t \in Scans PROVE ScanAtHome(t)'
    <2>1. ScanAtHome(t) /\ ScanStands(t) /\ ScanData
        BY DEF ScanInv
    <2>2. QED
        BY <2>1 DEF ScanAtHome, ScanStands, ScanData, CancelRead, open, scanDb, scanPool
<1>6. ASSUME NEW k \in ScanHosts PROVE DropAtHome(k)'
    <2>1. DropAtHome(k) /\ ScanData
        BY DEF ScanInv
    <2>2. QED
        BY <1>0, <2>1 DEF Of, DropAtHome, ScanData, CancelRead, open, scanDb, scanPool
<1>7. QED
    BY <1>1, <1>2, <1>3, <1>4, <1>5, <1>6 DEF ScanInv

\* One end or one fault more is counted.
LEMMA OneEndMore ==
    ASSUME ScanData
    PROVE  [sused EXCEPT !.ends = @ + 1] \in [cancels : Nat, ends : Nat, faults : Nat]
<1>1. sused \in [cancels : Nat, ends : Nat, faults : Nat]
    BY DEF ScanData
<1>2. QED
    BY <1>1

\* A shutdown clears the line and aborts the runs.
LEMMA ShutdownKeeps ==
    ASSUME ScanInv, ScanShutdown
    PROVE  ScanInv'
<1>1. ScanData'
    <2>1. sused' \in [cancels : Nat, ends : Nat, faults : Nat]
        BY OneEndMore DEF ScanInv, ScanShutdown
    <2>2. sabort' \in [Scans -> {"none", "user", "shutdown"}]
        BY DEF ScanInv, ScanData, ScanShutdown
    <2>3. QED
        BY <2>1, <2>2 DEF ScanInv, ScanData, ScanShutdown, scanDb, scanPool
<1>2. ScanLine' /\ Lined' = {}
    BY EmptyLine DEF ScanInv, ScanLine, Lined, ScanShutdown, SRunning, scanDb, scanPool
<1>3. ASSUME NEW t \in Scans PROVE ScanStands(t)'
    <2>1. ScanStands(t) /\ ScanData /\ ScanLine 
        BY DEF ScanInv
    <2>2. QED
        BY <1>2, <2>1 DEF ScanStands, ScanData, ScanShutdown, SRunning, scanDb, scanPool
<1>4. ASSUME NEW t \in Scans PROVE ScanOwned(t)'
    <2>1. ScanOwned(t) /\ ScanStands(t) /\ ScanData
        BY DEF ScanInv
    <2>2. QED
        BY <1>2, <2>1 DEF ScanOwned, ScanStands, ScanData, ScanShutdown, SRunning, scanDb, scanPool
<1>5. ASSUME NEW t \in Scans PROVE ScanAtHome(t)'
    <2>1. ScanAtHome(t) /\ ScanStands(t) /\ ScanData
        BY DEF ScanInv
    <2>2. QED
        BY <2>1 DEF ScanAtHome, ScanStands, ScanData, ScanShutdown, SRunning, scanDb, scanPool
<1>6. ASSUME NEW k \in ScanHosts PROVE DropAtHome(k)'
    <2>1. DropAtHome(k) /\ ScanData
        BY DEF ScanInv
    <2>2. QED
        BY <2>1 DEF DropAtHome, ScanData, ScanShutdown, SRunning, scanDb, scanPool
<1>7. QED
    BY <1>1, <1>2, <1>3, <1>4, <1>5, <1>6 DEF ScanInv

\* A process that ends leaves rows and nothing else.
LEMMA ExitKeeps ==
    ASSUME ScanInv, ScanExit
    PROVE  ScanInv'
<1>1. ScanData'
    <2>1. sused' \in [cancels : Nat, ends : Nat, faults : Nat] /\ sproc' = "down"
        BY OneEndMore DEF ScanInv, ScanData, ScanExit
    <2>2. /\ ask' \in [Scans -> {"new", "previous", "create", "refused", "enqueue", "done"}]
          /\ older' \in [Scans -> Scans \cup {NoScan}]
        BY DEF ScanInv, ScanData, ScanExit
    <2>3. /\ srun'   \in [Scans -> {"off", "walk", "save", "trim", "leave"}]
          /\ sabort' \in [Scans -> {"none", "user", "shutdown"}]
          /\ ending' \in [Scans -> {"none", "DONE", "FAILED", "CANCELLED"}]
        BY DEF ScanExit
    <2>4. drop' \in [ScanHosts -> [step : {"idle", "read", "write"}, of : Scans \cup {NoScan}]]
        BY DEF ScanExit
    <2>5. QED
        BY <2>1, <2>2, <2>3, <2>4 DEF ScanInv, ScanData, ScanExit
<1>2. ScanLine' /\ Lined' = {}
    BY EmptyLine DEF ScanInv, ScanLine, Lined, ScanExit, scanDb, scanPool
<1>3. ASSUME NEW t \in Scans PROVE ScanStands(t)'
    <2>1. ScanStands(t) /\ ScanData /\ ScanLine 
        BY DEF ScanInv
    <2>2. QED
        BY <1>2, <2>1 DEF ScanStands, ScanData, ScanExit, scanDb, scanPool
<1>4. ASSUME NEW t \in Scans PROVE ScanOwned(t)'
    <2>1. ScanOwned(t) /\ ScanStands(t) /\ ScanData
        BY DEF ScanInv
    <2>2. QED
        BY <1>2, <2>1 DEF ScanOwned, ScanStands, ScanData, ScanExit, scanDb, scanPool
<1>5. ASSUME NEW t \in Scans PROVE ScanAtHome(t)'
    <2>1. ScanAtHome(t) /\ ScanStands(t) /\ ScanData
        BY DEF ScanInv
    <2>2. QED
        BY <2>1 DEF ScanAtHome, ScanStands, ScanData, ScanExit, scanDb, scanPool
<1>6. ASSUME NEW k \in ScanHosts PROVE DropAtHome(k)'
    <2>1. DropAtHome(k) /\ ScanData
        BY DEF ScanInv
    <2>2. QED
        BY <2>1 DEF DropAtHome, ScanData, ScanExit, scanDb, scanPool
<1>7. QED
    BY <1>1, <1>2, <1>3, <1>4, <1>5, <1>6 DEF ScanInv

\* A cancel aborts the run, or takes the scan out of the line and then owns it.
LEMMA CancelActKeeps ==
    ASSUME ScanInv, NEW h \in ScanHosts, CancelAct(h)
    PROVE  ScanInv'
<1> DEFINE s == drop[h].of
<1>0. /\ s \in Scans /\ ScanData /\ ScanLine /\ drop[h].step = "read" /\ DropAtHome(h)
      /\ UNCHANGED <<scanDb, ask, srun, ending, sproc, sused>>
    BY DEF ScanInv, DropAtHome, CancelAct
<1>1. ScanData'
    BY <1>0 DEF ScanData, CancelAct, scanDb
<1>2. /\ ScanLine' /\ Lined' \subseteq Lined
      /\ \A t \in Lined : t # s => t \in Lined'
      /\ Lined' # Lined => drop'[h] = [step |-> "write", of |-> s]
    <2>1. CASE sline' = sline
        BY <1>0, <2>1 DEF ScanLine, Lined
    <2>2. CASE sline' # sline
        <3>1. PICK i \in DOMAIN sline : sline[i] = s /\ sline' = RemoveAt(sline, i)
            BY <2>2 DEF CancelAct
        <3>2. /\ sline' \in Seq(Scans) /\ IsInjective(sline')
              /\ ToSet(sline') = ToSet(sline) \ {s}
            BY <1>0, <3>1, LeavesLine DEF ScanLine
        <3>3. sproc' = "up"
            BY <1>0, <3>1 DEF ScanLine
        <3>4. drop' = [drop EXCEPT ![h].step = "write"]
            BY <2>2 DEF CancelAct
        <3>5. drop'[h] = [step |-> "write", of |-> s]
            BY <1>0, <3>4 DEF ScanData
        <3>6. QED
            BY <3>2, <3>3, <3>5 DEF ScanLine, Lined
    <2>3. QED
        BY <2>1, <2>2
<1>3. ASSUME NEW t \in Scans PROVE ScanStands(t)'
    <2>1. ScanStands(t)
        BY DEF ScanInv
    <2>2. sabort'[t] = sabort[t] \/ (sabort'[t] = "user" /\ srun[t] # "off")
        <3>1. CASE s \in SRunning
            <4>1. sabort' = [sabort EXCEPT ![s] = IF @ = "none" THEN "user" ELSE @]
                BY <3>1 DEF CancelAct
            <4>2. QED
                BY <1>0, <3>1, <4>1 DEF ScanData, SRunning
        <3>2. CASE s \notin SRunning
            BY <3>2 DEF CancelAct
        <3>3. QED
            BY <3>1, <3>2
    <2>3. QED
        BY <1>0, <1>2, <2>1, <2>2 DEF ScanStands, scanDb
<1>4. ASSUME NEW t \in Scans PROVE ScanOwned(t)'
    <2>1. ScanOwned(t)
        BY DEF ScanInv
    <2>2. \A k \in ScanHosts : k # h => drop'[k] = drop[k]
        BY <1>0 DEF CancelAct, ScanData
    <2>3. CASE t \in Lined
        BY <1>2, <2>3 DEF ScanOwned
    <2>4. CASE t \notin Lined
        <3>1. \A k \in ScanHosts : drop[k] = [step |-> "write", of |-> t] => k # h
            BY <1>0
        <3>2. QED
            BY <1>0, <1>2, <2>1, <2>2, <2>4, <3>1 DEF ScanOwned, scanDb
    <2>5. QED
        BY <2>3, <2>4
<1>5. ASSUME NEW t \in Scans PROVE ScanAtHome(t)'
    BY <1>0 DEF ScanInv, ScanAtHome, scanDb
<1>6. ASSUME NEW k \in ScanHosts PROVE DropAtHome(k)'
    <2>1. DropAtHome(k)
        BY DEF ScanInv
    <2>2. \/ drop'[k].step = "idle"
          \/ drop'[k].of = drop[k].of /\ drop[k].step # "idle"
          \/ drop'[k] = drop[k]
        BY <1>0 DEF CancelAct, ScanData
    <2>3. QED
        BY <1>0, <2>1, <2>2 DEF DropAtHome, scanDb
<1>7. QED
    BY <1>1, <1>2, <1>3, <1>4, <1>5, <1>6 DEF ScanInv

\* What a pump does to the invariant: the scans put in line and those of the
\* running map stay, in line or running, and the others were neither.
LEMMA PumpKeeps ==
    ASSUME ScanInv, NEW ln \in Seq(Scans), NEW busy \in SUBSET SRunning, NEW S,
           Started(ln, busy, S), sproc # "up" => ln = <<>>, sproc # "down",
           ToSet(ln) \cap SRunning = {},
           UNCHANGED <<scanDb, drop, sproc, sused>>,
           sabort' \in [Scans -> {"none", "user", "shutdown"}],
           ending' \in [Scans -> {"none", "DONE", "FAILED", "CANCELLED"}],
           ask' \in [Scans -> {"new", "previous", "create", "refused", "enqueue", "done"}],
           \A t \in Scans :
              /\ sabort'[t] = sabort[t] \/ sabort'[t] = "none"
              /\ ending'[t] = ending[t] \/ t \notin busy
              /\ ask'[t] = ask[t] \/ (ask[t] = "enqueue" /\ ask'[t] = "done" /\ (sproc = "up" => t \in ToSet(ln)))
              /\ t \in ToSet(ln) => ask'[t] = "done" /\ scan[t] \notin {"absent", "DONE"}
              /\ t \in Lined => t \in ToSet(ln)
              /\ t \in SRunning \ busy => srun[t] = "leave"
    PROVE  ScanInv'
<1>0. /\ ScanData /\ ScanLine /\ S \in SUBSET ToSet(ln)
      /\ sline' \in Seq(Scans) /\ IsInjective(sline') /\ Lined' = ToSet(ln) \ S
      /\ srun' = [s \in Scans |-> IF s \in S THEN "walk" ELSE IF s \in busy THEN srun[s] ELSE "off"]
    BY DEF ScanInv, Started, Lined
<1>1. ScanData'
    BY <1>0 DEF ScanData, scanDb
<1>2. ScanLine'
    <2>1. CASE sproc = "up"
        BY <1>0, <2>1 DEF ScanLine
    <2>2. CASE sproc # "up"
        <3>1. ToSet(ln) = {}
            BY <2>2, EmptyLine
        <3>2. sline' = <<>>
            <4>1. ToSet(sline') = {}
                BY <1>0, <3>1 DEF Lined
            <4>2. sline' # <<>> => sline'[1] \in ToSet(sline')
                BY <1>0 DEF ToSet
            <4>3. QED
                BY <4>1, <4>2
        <3>3. QED
            BY <1>0, <3>2 DEF ScanLine
    <2>3. QED
        BY <2>1, <2>2
<1>3. ASSUME NEW t \in Scans PROVE ScanStands(t)'
    <2>1. ScanStands(t)
        BY DEF ScanInv
    <2>2. (t \in busy => srun[t] # "off") /\ (t \in ToSet(ln) => srun[t] = "off")
        BY DEF SRunning
    <2>3. \/ srun'[t] = "walk" /\ t \in S
          \/ srun'[t] = srun[t] /\ t \in busy
          \/ srun'[t] = "off" /\ t \notin busy
        BY <1>0
    <2>4. QED
        BY <1>0, <2>1, <2>2, <2>3 DEF ScanStands, ScanData, scanDb
<1>4. ASSUME NEW t \in Scans PROVE ScanOwned(t)'
    <2>1. ScanOwned(t) /\ ScanStands(t)
        BY DEF ScanInv
    <2>2. CASE t \in ToSet(ln)
        <3>1. t \in Lined' \/ srun'[t] = "walk"
            BY <1>0, <2>2
        <3>2. QED
            BY <3>1 DEF ScanOwned
    <2>3. CASE t \in busy
        <3>1. srun'[t] # "off"
            BY <1>0, <2>3 DEF SRunning
        <3>2. QED
            BY <3>1 DEF ScanOwned
    <2>4. CASE t \notin ToSet(ln) /\ t \notin busy
        <3>1. t \notin Lined /\ (srun[t] = "off" \/ srun[t] = "leave")
            BY <2>4 DEF SRunning
        <3>2. QED
            BY <2>1, <2>4, <3>1 DEF ScanOwned, ScanStands, scanDb
    <2>5. QED
        BY <2>2, <2>3, <2>4
<1>5. ASSUME NEW t \in Scans PROVE ScanAtHome(t)'
    BY DEF ScanInv, ScanAtHome, scanDb
<1>6. ASSUME NEW k \in ScanHosts PROVE DropAtHome(k)'
    BY DEF ScanInv, DropAtHome, scanDb
<1>7. QED
    BY <1>1, <1>2, <1>3, <1>4, <1>5, <1>6 DEF ScanInv

\* A start joins the line, unless the process is stopping.
LEMMA EnqueueKeeps ==
    ASSUME ScanInv, NEW s \in Scans, ScanEnqueue(s)
    PROVE  ScanInv'
<1>0. /\ ScanData /\ ScanLine /\ \A t \in Scans : ScanStands(t)
      /\ sproc # "down" /\ ask[s] = "enqueue" /\ ask' = [ask EXCEPT ![s] = "done"]
      /\ UNCHANGED <<scanDb, sabort, ending, drop, sproc, sused>>
    BY DEF ScanInv, ScanEnqueue
<1>1. \A t \in Scans : (t \in Lined => srun[t] = "off") /\ s \notin Lined /\ srun[s] = "off"
    BY <1>0 DEF ScanStands
<1>2. CASE sproc = "stopping"
    <2>1. UNCHANGED <<sline, srun>> /\ Lined' = Lined
        BY <1>2 DEF ScanEnqueue, Lined
    <2>2. ScanData' /\ ScanLine'
        BY <1>0, <2>1 DEF ScanData, ScanLine, scanDb
    <2>3. ASSUME NEW t \in Scans PROVE ScanStands(t)' /\ ScanOwned(t)' /\ ScanAtHome(t)'
        <3>1. ScanStands(t) /\ ScanAtHome(t)
            BY DEF ScanInv
        <3>2. ScanStands(t)'
            BY <1>0, <2>1, <3>1 DEF ScanStands, ScanData, scanDb
        <3>3. ScanOwned(t)'
            BY <1>0, <1>2 DEF ScanOwned
        <3>4. QED
            BY <1>0, <3>1, <3>2, <3>3 DEF ScanAtHome, scanDb
    <2>4. ASSUME NEW k \in ScanHosts PROVE DropAtHome(k)'
        BY <1>0 DEF ScanInv, DropAtHome, scanDb
    <2>5. QED
        BY <2>2, <2>3, <2>4 DEF ScanInv
<1>3. CASE sproc # "stopping"
    <2> DEFINE ln == Append(sline, s)
    <2>1. sproc = "up" /\ SPump(ln, SRunning)
        BY <1>0, <1>3 DEF ScanData, ScanEnqueue
    <2>2. ln \in Seq(Scans) /\ IsInjective(ln) /\ ToSet(ln) = Lined \cup {s}
        BY <1>0, <1>1, JoinsLine DEF ScanLine, Lined
    <2> HIDE DEF ln
    <2>3. PICK S : Started(ln, SRunning, S)
        BY <2>1, <2>2, PumpStarts DEF SRunning
    <2>4. ToSet(ln) \cap SRunning = {}
        BY <1>1, <2>2 DEF SRunning
    <2>5. \A t \in Scans : /\ ask'[t] = ask[t] \/ t = s
                           /\ t \in ToSet(ln) => ask'[t] = "done" /\ scan[t] \notin {"absent", "DONE"}
        BY <1>0, <2>2 DEF ScanStands, ScanData
    <2>6. ask' \in [Scans -> {"new", "previous", "create", "refused", "enqueue", "done"}]
          /\ ask'[s] = "done"
        BY <1>0 DEF ScanData
    <2>7. sabort' \in [Scans -> {"none", "user", "shutdown"}]
          /\ ending' \in [Scans -> {"none", "DONE", "FAILED", "CANCELLED"}]
        BY <1>0 DEF ScanData
    <2>8. \A t \in Scans :
              /\ sabort'[t] = sabort[t] \/ sabort'[t] = "none"
              /\ ending'[t] = ending[t] \/ t \notin SRunning
              /\ ask'[t] = ask[t] \/ (ask[t] = "enqueue" /\ ask'[t] = "done" /\ (sproc = "up" => t \in ToSet(ln)))
              /\ t \in ToSet(ln) => ask'[t] = "done" /\ scan[t] \notin {"absent", "DONE"}
              /\ t \in Lined => t \in ToSet(ln)
              /\ t \in SRunning \ SRunning => srun[t] = "leave"
        BY <1>0, <2>2, <2>5, <2>6
    <2>9. sproc # "down" /\ (sproc # "up" => ln = <<>>) /\ UNCHANGED <<scanDb, drop, sproc, sused>>
        BY <1>0, <2>1
    <2>10. SRunning \in SUBSET SRunning
        OBVIOUS
    <2>11. QED
        BY <2>2, <2>3, <2>4, <2>6, <2>7, <2>8, <2>9, <2>10, PumpKeeps
<1>4. QED
    BY <1>2, <1>3

\* A scan that has left makes room for another.
LEMMA LeaveKeeps ==
    ASSUME ScanInv, NEW s \in Scans, ScanLeave(s)
    PROVE  ScanInv'
<1>0. /\ ScanData /\ ScanLine /\ \A t \in Scans : ScanStands(t)
      /\ srun[s] = "leave" /\ SPump(sline, SRunning \ {s})
      /\ sabort' = [sabort EXCEPT ![s] = "none"] /\ ending' = [ending EXCEPT ![s] = "none"]
      /\ UNCHANGED <<scanDb, ask, drop, sproc, sused>>
    BY DEF ScanInv, ScanLeave
<1>1. PICK S : Started(sline, SRunning \ {s}, S)
    BY <1>0, PumpStarts DEF SRunning, ScanLine
<1>2. Lined \cap SRunning = {} /\ sproc # "down" /\ sline \in Seq(Scans)
      /\ (sproc # "up" => sline = <<>>)
    BY <1>0 DEF ScanStands, SRunning, ScanLine
<1>3. \A t \in Scans : /\ t \in Lined => ask'[t] = "done" /\ scan[t] \notin {"absent", "DONE"}
                       /\ t \in SRunning \ (SRunning \ {s}) => srun[t] = "leave"
    BY <1>0 DEF ScanStands
<1>4. sabort' \in [Scans -> {"none", "user", "shutdown"}]
      /\ ending' \in [Scans -> {"none", "DONE", "FAILED", "CANCELLED"}]
      /\ ask' \in [Scans -> {"new", "previous", "create", "refused", "enqueue", "done"}]
    BY <1>0 DEF ScanData
<1>5. \A t \in Scans : /\ sabort'[t] = sabort[t] \/ sabort'[t] = "none"
                       /\ ending'[t] = ending[t] \/ t \notin SRunning \ {s}
    BY <1>0 DEF ScanData
<1>6. \A t \in Scans :
          /\ sabort'[t] = sabort[t] \/ sabort'[t] = "none"
          /\ ending'[t] = ending[t] \/ t \notin SRunning \ {s}
          /\ ask'[t] = ask[t] \/ (ask[t] = "enqueue" /\ ask'[t] = "done" /\ (sproc = "up" => t \in ToSet(sline)))
          /\ t \in ToSet(sline) => ask'[t] = "done" /\ scan[t] \notin {"absent", "DONE"}
          /\ t \in Lined => t \in ToSet(sline)
          /\ t \in SRunning \ (SRunning \ {s}) => srun[t] = "leave"
    BY <1>0, <1>3, <1>5 DEF Lined
<1>7. ToSet(sline) \cap SRunning = {} /\ SRunning \ {s} \in SUBSET SRunning
      /\ UNCHANGED <<scanDb, drop, sproc, sused>>
    BY <1>0, <1>2 DEF Lined
<1>8. QED
    BY <1>1, <1>2, <1>4, <1>6, <1>7, PumpKeeps

LEMMA ScanStepKeeps ==
    ASSUME ScanInv, [ScanNext]_scanVars
    PROVE  ScanInv'
<1>1. CASE UNCHANGED scanVars
    BY <1>1 DEF ScanInv, ScanData, ScanLine, ScanStands, ScanOwned, ScanAtHome, DropAtHome, Lined,
                scanVars, scanDb, scanPool
<1>2. CASE ScanNext
    BY <1>2, AskKeeps, PreviousKeeps, CreateKeeps, EnqueueKeeps, WalkKeeps, SaveKeeps,
       SaveRefusedKeeps, TrimKeeps, LeaveKeeps, CancelReadKeeps, CancelActKeeps, CancelWriteKeeps,
       ShutdownKeeps, ExitKeeps, BootKeeps DEF ScanNext
<1>3. QED
    BY <1>1, <1>2

LEMMA ScanStarts == ScanInit => ScanInv
<1> SUFFICES ASSUME ScanInit PROVE ScanInv
    OBVIOUS
<1>1. ScanData
    <2>1. 0 \in 0 .. Cardinality(Scans)
        BY ScanAssumption, FS_CardinalityType
    <2>2. QED
        BY <2>1 DEF ScanInit, ScanData
<1>2. ScanLine /\ Lined = {}
    BY EmptyLine DEF ScanInit, ScanLine, Lined
<1>3. QED
    BY <1>1, <1>2 DEF ScanInit, ScanInv, ScanStands, ScanOwned, ScanAtHome, DropAtHome

LEMMA ScanAlways == ScanSpec => []ScanInv
<1>1. ScanInv /\ [ScanNext]_scanVars => ScanInv'
    BY ScanStepKeeps
<1>2. QED
    BY <1>1, ScanStarts, PTL DEF ScanSpec

LEMMA ScanHolds == ScanInv => ScanTypeOK
BY DEF ScanInv, ScanData, ScanLine, ScanTypeOK

\* With a database that answers, a RUNNING row of any scan of any host always
\* has somebody who will end it: its start request, the line, its run, or a
\* cancel that has yet to write.
THEOREM RunningScanAlwaysOwned == ScanSpec => []RunningScanHasOwner
<1>1. ScanInv => RunningScanHasOwner
    BY DEF ScanInv, ScanOwned, RunningScanHasOwner, SRunning, Lined, ToSet
<1>2. QED
    BY <1>1, ScanAlways, PTL

\* The scans' state is of its types, and no scan is twice in line.
THEOREM ScanTypes == ScanSpec => []ScanTypeOK
BY ScanHolds, ScanAlways, PTL

\* The newest finished scan of a host is not among those a trim deletes.
LEMMA TrimKeepsOne ==
    ASSUME ScanData, NEW s \in Scans, ScanTrim(s), Of(HostOf[s], "DONE") # {}
    PROVE  \E t \in Scans : HostOf[t] = HostOf[s] /\ scan'[t] = "DONE"
<1> DEFINE done == Of(HostOf[s], "DONE")
           Later(t) == {u \in done : began[u] > began[t]}
           n == Newest(done)
<1>1. done \in SUBSET Scans
    BY DEF Of
<1>2. n \in done /\ \A t \in done : began[t] <= began[n]
    BY <1>1, NewestOf
<1>3. Later(n) = {}
    <2>1. \A t \in done : began[t] \in Nat
        BY <1>1, ScanAssumption, FS_CardinalityType DEF ScanData
    <2>2. QED
        BY <1>2, <2>1
<1>4. Cardinality(Later(n)) = 0 /\ KeepPerRoot \in Nat \ {0}
    BY <1>3, FS_EmptySet, ScanAssumption
<1>5. scan'[n] = scan[n]
    <2>1. scan' = [t \in Scans |-> IF t \in {u \in done : Cardinality(Later(u)) >= KeepPerRoot}
                                   THEN "gone" ELSE scan[t]]
        BY DEF ScanTrim
    <2>2. n \notin {u \in done : Cardinality(Later(u)) >= KeepPerRoot}
        BY <1>4
    <2> HIDE DEF n, Later, done
    <2>3. QED
        BY <1>1, <1>2, <2>1, <2>2
<1>6. QED
    BY <1>1, <1>2, <1>5 DEF Of

\* A finished scan of a host goes only when another is left, or by a cancel.
LEMMA PanelStep ==
    ASSUME ScanInv, ScanNext, NEW h \in ScanHosts, NEW d \in Of(h, "DONE"),
           \A s \in Scans : HostOf[s] = h => scan'[s] # "DONE"
    PROVE  drop[h].step = "write" /\ drop'[h].step = "idle"
<1>0. /\ ScanData /\ d \in Scans /\ HostOf[d] = h /\ scan[d] = "DONE" /\ scan'[d] # "DONE"
      /\ \A t \in Scans : ScanStands(t) /\ ScanAtHome(t)
    BY DEF ScanInv, Of
<1>1. ASSUME NEW k \in ScanHosts, CancelWrite(k)
      PROVE  drop[h].step = "write" /\ drop'[h].step = "idle"
    <2>1. DropAtHome(k) /\ drop[k].step = "write" /\ drop' = [drop EXCEPT ![k] = [step |-> "idle", of |-> NoScan]]
        BY <1>1 DEF ScanInv, CancelWrite
    <2>2. d = drop[k].of
        BY <1>0, <1>1 DEF CancelWrite, ScanData
    <2>3. k = h
        BY <1>0, <2>1, <2>2 DEF DropAtHome
    <2>4. QED
        BY <1>0, <2>1, <2>3 DEF ScanData
<1>2. ASSUME NEW s \in Scans, ScanSave(s) PROVE FALSE
    <2>1. d # s
        BY <1>0, <1>2 DEF ScanStands, ScanSave
    <2>2. ending[s] = "DONE" /\ d = older[s] /\ d # NoScan
        BY <1>0, <1>2, <2>1, ScanAssumption DEF ScanSave, ScanData
    <2>3. HostOf[s] = h /\ older[s] # s
        BY <1>0, <2>2 DEF ScanAtHome
    <2>4. scan'[s] = "DONE"
        BY <1>0, <1>2, <2>2, <2>3 DEF ScanSave, ScanData
    <2>5. QED
        BY <1>0, <2>3, <2>4
<1>3. ASSUME NEW s \in Scans, ScanSaveRefused(s) PROVE FALSE
    BY <1>0, <1>3 DEF ScanSaveRefused, ScanStands, ScanData
<1>4. ASSUME NEW s \in Scans, ScanTrim(s) PROVE FALSE
    <2>1. HostOf[d] = HostOf[s]
        BY <1>0, <1>4 DEF ScanTrim, Of, ScanData
    <2>2. Of(HostOf[s], "DONE") # {}
        BY <1>0, <2>1 DEF Of
    <2>3. PICK t \in Scans : HostOf[t] = HostOf[s] /\ scan'[t] = "DONE"
        BY <1>0, <1>4, <2>2, TrimKeepsOne
    <2>4. QED
        BY <1>0, <2>1, <2>3
<1>5. ASSUME NEW s \in Scans, ScanAsk(s) PROVE FALSE
    BY <1>0, <1>5 DEF ScanAsk, ScanData, Of
<1>6. ASSUME NEW s \in Scans, ScanCreate(s) PROVE FALSE
    BY <1>0, <1>6 DEF ScanCreate, ScanData, ScanStands
<1>7. ASSUME ScanBoot PROVE FALSE
    BY <1>0, <1>7 DEF ScanBoot, ScanData
<1>8. ASSUME NEW s \in Scans,
             ScanPrevious(s) \/ ScanEnqueue(s) \/ ScanWalk(s) \/ ScanLeave(s)
      PROVE  FALSE
    BY <1>0, <1>8 DEF ScanPrevious, ScanEnqueue, ScanWalk, ScanLeave, scanDb
<1>9. ASSUME NEW k \in ScanHosts, CancelRead(k) \/ CancelAct(k) PROVE FALSE
    BY <1>0, <1>9 DEF CancelRead, CancelAct, scanDb
<1>10. ASSUME ScanShutdown \/ ScanExit PROVE FALSE
    BY <1>0, <1>10 DEF ScanShutdown, ScanExit, scanDb
<1>11. QED
    BY <1>1, <1>2, <1>3, <1>4, <1>5, <1>6, <1>7, <1>8, <1>9, <1>10 DEF ScanNext

\* A host that has a finished scan keeps one, through every start, save, trim,
\* refusal, stop, crash and boot; only a cancel that read its row too early
\* takes the last one.
THEOREM PanelAlwaysKeepsAScan == ScanSpec => PanelKeepsAScan
<1>1. ScanInv /\ [ScanNext]_scanVars
        => [\A h \in ScanHosts :
               Of(h, "DONE") # {} /\ (\A s \in Scans : HostOf[s] = h => scan'[s] # "DONE")
                   => drop[h].step = "write" /\ drop'[h].step = "idle"]_scan
    <2> SUFFICES ASSUME ScanInv, [ScanNext]_scanVars, scan' # scan,
                        NEW h \in ScanHosts, Of(h, "DONE") # {},
                        \A s \in Scans : HostOf[s] = h => scan'[s] # "DONE"
                 PROVE  drop[h].step = "write" /\ drop'[h].step = "idle"
        OBVIOUS
    <2>1. ScanNext
        BY DEF scanVars, scanDb
    <2>2. PICK d \in Of(h, "DONE") : TRUE
        OBVIOUS
    <2>3. QED
        BY <2>1, <2>2, PanelStep
<1>2. QED
    BY <1>1, ScanAlways, PTL DEF ScanSpec, PanelKeepsAScan

-----------------------------------------------------------------------------
(* The scans' queue implements SlotPool.                                   *)

\* No more runs than slots, one of a host, and nobody in line who would fit.
ScanCaps ==
    /\ Cardinality(SRunning) <= ScansInFlight
    /\ \A s, t \in SRunning : HostOf[s] = HostOf[t] => s = t
    /\ \A t \in Lined : Cardinality(SRunning) < ScansInFlight
                            => \E s \in SRunning : HostOf[s] = HostOf[t]

\* SlotPool's Cardinality, which the instance renames, is the one used here.
LEMMA ScanCardinality == ASSUME NEW S PROVE ScanSlots!Cardinality(S) = Cardinality(S)
BY DEF ScanSlots!Cardinality, Cardinality

\* SlotPool's admission, of the scans' own state.
Admitted(ln, busy, where) ==
    /\ \E T \in SUBSET ln : Lined' = ln \ T /\ SRunning' = busy \cup T
    /\ ScanOn' = [t \in Scans |-> IF t \in ln \cup busy THEN where[t] ELSE {}]
    /\ Cardinality(SRunning') <= ScansInFlight
    /\ \A h \in ScanHosts : Cardinality({t \in SRunning' : h \in ScanOn'[t]}) <= 1
    /\ \A t \in Lined' : ~ScanSlots!Room(t, SRunning', ScanOn')

\* What a set of runs is to SlotPool: the machine of each is its host.
ScansOn(T) == [s \in Scans |-> IF s \in T THEN {HostOf[s]} ELSE {}]

RunsAt(T, where, h) == {k \in T : h \in where[k]}

LEMMA ScanSets ==
    ASSUME NEW T \in SUBSET Scans
    PROVE  /\ IsFiniteSet(T) /\ Cardinality(T) \in Nat
           /\ \A u \in Scans : u \notin T => Cardinality(T \cup {u}) = Cardinality(T) + 1
           /\ \A u \in T : Cardinality(T \ {u}) = Cardinality(T) - 1
BY ScanAssumption, FS_Subset, FS_CardinalityType, FS_AddElement, FS_RemoveElement

\* Of the runs of a set, at most one per host: what SlotPool counts on a host.
LEMMA OnePerHost ==
    ASSUME NEW T \in SUBSET Scans, NEW W \in SUBSET Scans, T \subseteq W, NEW h,
           \A s, t \in T : HostOf[s] = HostOf[t] => s = t
    PROVE  /\ Cardinality(RunsAt(T, ScansOn(W), h)) <= 1
           /\ Cardinality(RunsAt(T, ScansOn(W), h)) < 1
                 <=> \A k \in T : HostOf[k] # h
<1> DEFINE at == RunsAt(T, ScansOn(W), h)
<1>1. at = {k \in T : HostOf[k] = h}
    BY DEF ScansOn, RunsAt
<1>2. CASE at = {}
    <2>1. Cardinality(at) = 0
        BY <1>2, FS_EmptySet
    <2>2. QED
        BY <1>1, <1>2, <2>1
<1>3. CASE at # {}
    <2>1. PICK k \in at : TRUE
        BY <1>3
    <2>2. at = {k}
        BY <1>1, <2>1
    <2>3. Cardinality(at) = 1
        BY <2>2, FS_Singleton
    <2>4. QED
        BY <1>1, <2>1, <2>3
<1>4. QED
    BY <1>2, <1>3

\* A pump after which nobody in line fits is an admission of SlotPool, and
\* keeps the caps.
LEMMA PumpAdmitsScan ==
    ASSUME ScanInv, ScanCaps, NEW ln \in Seq(Scans), NEW busy \in SUBSET SRunning, NEW S,
           Started(ln, busy, S), ToSet(ln) \cap SRunning = {},
           \A t \in ToSet(ln) \ S : Cardinality(busy \cup S) < ScansInFlight
                                        => \E k \in busy \cup S : HostOf[k] = HostOf[t],
           NEW where, \A t \in ToSet(ln) \cup busy : where[t] = {HostOf[t]}
    PROVE  /\ ScanCaps'
           /\ Admitted(ToSet(ln), busy, where)
<1> DEFINE run2 == busy \cup S
           W == ToSet(ln) \cup busy
<1>1. /\ busy \in SUBSET Scans /\ S \in SUBSET Scans /\ run2 \in SUBSET Scans
      /\ W \in SUBSET Scans /\ run2 \subseteq W
    BY DEF SRunning, Started, ToSet
<1>2. SRunning' = run2 /\ Lined' = ToSet(ln) \ S
    <2>1. \A t \in Scans : srun'[t] # "off" <=> t \in run2
        BY <1>1 DEF Started, SRunning
    <2>2. QED
        BY <1>1, <2>1 DEF SRunning, Lined, Started
<1>3. Cardinality(run2) <= ScansInFlight
    <2>0. ScansInFlight \in Nat
        BY ScanAssumption
    <2>1. CASE S = {}
        <3>1. SRunning \in SUBSET Scans /\ run2 \subseteq SRunning
            BY <2>1 DEF SRunning
        <3>2. Cardinality(run2) <= Cardinality(SRunning) /\ Cardinality(SRunning) \in Nat
              /\ Cardinality(run2) \in Nat
            BY <3>1, <1>1, ScanSets, FS_Subset
        <3>3. QED
            BY <2>0, <3>2 DEF ScanCaps
    <2>2. CASE S # {}
        <3>1. PICK t \in ToSet(ln) : S = {t} /\ Cardinality(busy) < ScansInFlight
            BY <2>2 DEF Started
        <3>2. t \in Scans /\ t \notin busy
            BY <1>1, <3>1
        <3>3. Cardinality(busy \cup {t}) = Cardinality(busy) + 1 /\ Cardinality(busy) \in Nat
            BY <1>1, <3>2, ScanSets
        <3>4. QED
            BY <2>0, <3>1, <3>3
    <2>3. QED
        BY <2>1, <2>2
<1>4. \A s, t \in run2 : HostOf[s] = HostOf[t] => s = t
    BY DEF ScanCaps, Started
<1>5. ScanCaps'
    <2>1. Lined' = ToSet(ln) \ S
        BY <1>2
    <2>2. ASSUME NEW t \in Lined', Cardinality(SRunning') < ScansInFlight
          PROVE  \E s \in SRunning' : HostOf[s] = HostOf[t]
        BY <1>2, <2>2
    <2> HIDE DEF run2
    <2>3. \A s, t \in SRunning' : HostOf[s] = HostOf[t] => s = t
        BY <1>2, <1>4
    <2>4. QED
        BY <1>2, <1>3, <2>2, <2>3 DEF ScanCaps
<1>6. ScanOn' = ScansOn(W)
    <2>1. \A t \in Scans : t \in SRunning' \/ t \in Lined' <=> t \in W
        BY <1>2, <1>1 DEF Started
    <2>2. QED
        BY <2>1 DEF ScanOn, ScansOn
<1>7. ScansOn(W) = [t \in Scans |-> IF t \in ToSet(ln) \cup busy THEN where[t] ELSE {}]
    BY DEF ScansOn
<1>9. ASSUME NEW h
      PROVE  /\ Cardinality(RunsAt(run2, ScansOn(W), h)) <= 1
             /\ Cardinality(RunsAt(run2, ScansOn(W), h)) < 1
                   <=> \A k \in run2 : HostOf[k] # h
    <2> HIDE DEF run2, W
    <2>1. QED
        BY <1>1, <1>4, OnePerHost
<1>10. ASSUME NEW t \in ToSet(ln) \ S
      PROVE  ~ScanSlots!Room(t, run2, ScansOn(W))
    <2>1. CASE ~(Cardinality(run2) < ScansInFlight)
        BY <2>1, ScanCardinality DEF ScanSlots!Room
    <2>2. CASE Cardinality(run2) < ScansInFlight
        <3>1. PICK k \in run2 : HostOf[k] = HostOf[t]
            BY <2>2
        <3>2. ~(Cardinality(RunsAt(run2, ScansOn(W), HostOf[t])) < 1)
            BY <1>9, <3>1
        <3>3. HostOf[t] \in ScansOn(W)[t]
            BY <1>1 DEF ScansOn
        <3>4. QED
            BY <3>2, <3>3, ScanCardinality DEF ScanSlots!Room, RunsAt
    <2>3. QED
        BY <2>1, <2>2
<1>11. S \in SUBSET ToSet(ln)
    BY DEF Started
<1>12. Admitted(ToSet(ln), busy, where)
    <2> HIDE DEF W, run2
    <2>1. \A t \in Lined' : ~ScanSlots!Room(t, SRunning', ScanOn')
        BY <1>2, <1>6, <1>10
    <2>2. ASSUME NEW h \in ScanHosts
          PROVE  Cardinality({t \in SRunning' : h \in ScanOn'[t]}) <= 1
        <3>1. Cardinality(RunsAt(SRunning', ScanOn', h)) <= 1
            BY <1>2, <1>6, <1>9
        <3>2. QED
            BY <3>1 DEF RunsAt
    <2>3. ScanOn' = [t \in Scans |-> IF t \in ToSet(ln) \cup busy THEN where[t] ELSE {}]
        BY <1>6, <1>7
    <2>4. \E T \in SUBSET ToSet(ln) : Lined' = ToSet(ln) \ T /\ SRunning' = busy \cup T
        BY <1>2, <1>11 DEF run2
    <2>5. Cardinality(SRunning') <= ScansInFlight
        BY <1>2, <1>3
    <2>6. QED
        BY <2>1, <2>2, <2>3, <2>4, <2>5 DEF Admitted
<1>13. QED
    BY <1>5, <1>12
\* A step of the scans is a step of SlotPool, or none.
ScanSlotStep == ScanCaps' /\ [ScanSlots!Next]_(ScanSlots!slotVars)

LEMMA SlotsKeptStep ==
    ASSUME ScanCaps, Lined' = Lined, SRunning' = SRunning
    PROVE  ScanSlotStep
<1>1. ScanOn' = ScanOn
    BY DEF ScanOn
<1>2. UNCHANGED ScanSlots!slotVars
    BY <1>1 DEF ScanSlots!slotVars
<1>3. QED
    BY <1>2 DEF ScanSlotStep, ScanCaps

\* Somebody leaves the line, or the line is cleared, or everything is.
LEMMA WithdrawStep ==
    ASSUME ScanCaps, NEW s \in Scans \ SRunning, Lined' = Lined \ {s}, SRunning' = SRunning
    PROVE  ScanSlotStep
<1>1. ScanOn' = [ScanOn EXCEPT ![s] = {}]
    BY DEF ScanOn
<1>2. ScanSlots!Withdraw(s)
    BY <1>1 DEF ScanSlots!Withdraw
<1>3. QED
    BY <1>2 DEF ScanSlotStep, ScanCaps, ScanSlots!Next

LEMMA CloseStep ==
    ASSUME ScanCaps, Lined' = {}, SRunning' = SRunning
    PROVE  ScanSlotStep
<1>1. ScanOn' = [t \in Scans |-> IF t \in SRunning THEN ScanOn[t] ELSE {}]
    BY DEF ScanOn
<1>2. ScanSlots!Close
    BY <1>1 DEF ScanSlots!Close
<1>3. QED
    BY <1>2 DEF ScanSlotStep, ScanCaps, ScanSlots!Next

LEMMA NoScanCaps == SRunning = {} /\ Lined = {} => ScanCaps
BY ScanAssumption, FS_EmptySet DEF ScanCaps

LEMMA DieStep ==
    ASSUME Lined' = {}, SRunning' = {}
    PROVE  ScanSlotStep
<1>1. ScanOn' = [t \in Scans |-> {}]
    BY DEF ScanOn
<1>2. ScanSlots!Die
    BY <1>1 DEF ScanSlots!Die
<1>3. ScanCaps'
    BY ScanAssumption, FS_EmptySet DEF ScanCaps
<1>4. QED
    BY <1>2, <1>3 DEF ScanSlotStep, ScanSlots!Next

\* A start is an arrival: nobody who was in line fitted, so nobody but the new
\* one can be started, and one that is started leaves less room for the others.
LEMMA EnqueueIsArrival ==
    ASSUME ScanInv, ScanCaps, NEW s \in Scans, ScanEnqueue(s)
    PROVE  ScanSlotStep
<1>0. /\ ScanData /\ ScanLine /\ \A t \in Scans : ScanStands(t)
      /\ sproc # "down" /\ ask[s] = "enqueue"
    BY DEF ScanInv, ScanEnqueue
<1>1. Lined \cap SRunning = {} /\ s \notin Lined /\ s \notin SRunning /\ SRunning \in SUBSET Scans
      /\ Lined \in SUBSET Scans
    BY <1>0 DEF ScanStands, SRunning, ScanLine, Lined, ToSet
<1>2. CASE sproc = "stopping"
    <2>1. UNCHANGED <<sline, srun>>
        BY <1>2 DEF ScanEnqueue
    <2>2. QED
        BY <2>1, SlotsKeptStep DEF Lined, SRunning
<1>3. CASE sproc # "stopping"
    <2> DEFINE ln == Append(sline, s)
               hh == [ScanOn EXCEPT ![s] = {HostOf[s]}]
    <2>1. sproc = "up" /\ SPump(ln, SRunning)
        BY <1>0, <1>3 DEF ScanData, ScanEnqueue
    <2>2. ln \in Seq(Scans) /\ IsInjective(ln) /\ ToSet(ln) = Lined \cup {s}
        BY <1>0, <1>1, JoinsLine DEF ScanLine, Lined
    <2> HIDE DEF ln
    <2>3. PICK S : Started(ln, SRunning, S)
        BY <1>1, <2>1, <2>2, PumpStarts
    <2>4. ASSUME NEW t \in ToSet(ln) \ S, Cardinality(SRunning \cup S) < ScansInFlight
          PROVE  \E k \in SRunning \cup S : HostOf[k] = HostOf[t]
        <3>1. CASE S = {}
            <4>1. SRunning \cup S = SRunning
                BY <3>1
            <4>2. sproc = "up" /\ Cardinality(SRunning) < ScansInFlight
                BY <2>1, <2>4, <4>1
            <4>3. \A u \in ToSet(ln) : \E k \in SRunning : HostOf[k] = HostOf[u]
                BY <2>3, <3>1, <4>2 DEF Started
            <4>4. QED
                BY <4>3
        <3>2. CASE S # {}
            <4>1. PICK u \in ToSet(ln) : /\ S = {u} /\ Cardinality(SRunning) < ScansInFlight
                                         /\ \A k \in SRunning : HostOf[k] # HostOf[u]
                BY <2>3, <3>2 DEF Started
            <4>2. u = s
                BY <2>2, <4>1 DEF ScanCaps
            <4>3. t \in Lined
                BY <2>2, <4>1, <4>2
            <4>4. QED
                BY <4>1, <4>3 DEF ScanCaps
        <3>3. QED
            BY <3>1, <3>2
    <2>5. \A t \in ToSet(ln) \cup SRunning : hh[t] = {HostOf[t]}
        BY <1>1, <2>2 DEF ScanOn
    <2>6. ToSet(ln) \cap SRunning = {} /\ SRunning \in SUBSET SRunning
        BY <1>1, <2>2
    <2> HIDE DEF hh
    <2>7. ScanCaps' /\ Admitted(ToSet(ln), SRunning, hh)
        <3>1. \A t \in ToSet(ln) \ S : Cardinality(SRunning \cup S) < ScansInFlight
                  => \E k \in SRunning \cup S : HostOf[k] = HostOf[t]
            BY <2>4
        <3>2. QED
            BY <2>2, <2>3, <2>5, <2>6, <3>1, PumpAdmitsScan
    <2>8. ScanSlots!Arrive(s)
        <3>1. HostOf[s] \in ScanHosts
            BY ScanAssumption
        <3>2. \E ms \in SUBSET ScanHosts :
                Admitted(Lined \cup {s}, SRunning, [ScanOn EXCEPT ![s] = ms])
            BY <2>2, <2>7, <3>1 DEF hh
        <3>3. s \notin Lined \cup SRunning
            BY <1>1
        <3>4. QED
            BY <3>2, <3>3, ScanCardinality DEF ScanSlots!Arrive, ScanSlots!Admit, Admitted
    <2>9. QED
        BY <2>7, <2>8 DEF ScanSlotStep, ScanSlots!Next
<1>4. QED
    BY <1>2, <1>3

\* A scan that left makes room for one: either the slots were all taken and are
\* again, or only its host became free and is busy again.
LEMMA LeaveIsLeave ==
    ASSUME ScanInv, ScanCaps, NEW s \in Scans, ScanLeave(s)
    PROVE  ScanSlotStep
<1> DEFINE busy == SRunning \ {s}
<1>0. /\ ScanData /\ ScanLine /\ \A t \in Scans : ScanStands(t)
      /\ srun[s] = "leave" /\ SPump(sline, busy)
    BY DEF ScanInv, ScanLeave
<1>1. /\ Lined \cap SRunning = {} /\ s \in SRunning /\ SRunning \in SUBSET Scans
      /\ Lined \in SUBSET Scans /\ Lined = ToSet(sline) /\ busy \in SUBSET SRunning
    BY <1>0 DEF ScanStands, SRunning, ScanLine, Lined, ToSet
<1>2. Cardinality(busy) = Cardinality(SRunning) - 1 /\ Cardinality(SRunning) \in Nat
      /\ ScansInFlight \in Nat
    BY <1>1, ScanSets, ScanAssumption
<1>3. \A k \in SRunning : k \in busy \/ k = s
    OBVIOUS
<1> HIDE DEF busy
<1>4. PICK S : Started(sline, busy, S)
    BY <1>0, <1>1, PumpStarts DEF ScanLine
<1>5. ASSUME NEW t \in ToSet(sline) \ S, Cardinality(busy \cup S) < ScansInFlight
      PROVE  \E k \in busy \cup S : HostOf[k] = HostOf[t]
    <2>1. CASE S = {}
        <3>1. busy \cup S = busy
            BY <2>1
        <3>2. sproc = "up"
            <4>1. sline # <<>>
                BY EmptyLine
            <4>2. QED
                BY <1>0, <4>1 DEF ScanLine
        <3>3. \A u \in ToSet(sline) : \E k \in busy : HostOf[k] = HostOf[u]
            BY <1>4, <1>5, <2>1, <3>1, <3>2 DEF Started
        <3>4. QED
            BY <3>3
    <2>2. CASE S # {}
        <3>1. PICK u \in Lined : S = {u} /\ \A k \in busy : HostOf[k] # HostOf[u]
            BY <1>1, <1>4, <2>2 DEF Started
        <3>2. Cardinality(busy \cup {u}) = Cardinality(busy) + 1
            <4>1. u \in Scans /\ u \notin busy /\ busy \in SUBSET Scans
                BY <1>1, <3>1
            <4>2. QED
                BY <4>1, ScanSets
        <3>3. Cardinality(SRunning) < ScansInFlight
            BY <1>2, <1>5, <3>1, <3>2
        <3>4. PICK j \in SRunning : HostOf[j] = HostOf[u]
            BY <3>1, <3>3 DEF ScanCaps
        <3>5. HostOf[s] = HostOf[u]
            BY <1>3, <3>1, <3>4
        <3>6. PICK k \in SRunning : HostOf[k] = HostOf[t]
            BY <1>1, <1>5, <3>3 DEF ScanCaps
        <3>7. QED
            BY <1>3, <3>1, <3>5, <3>6
    <2>3. QED
        BY <2>1, <2>2
<1>6. \A t \in ToSet(sline) \cup busy : ScanOn[t] = {HostOf[t]}
    BY <1>1 DEF ScanOn
<1>7. ToSet(sline) \cap SRunning = {} /\ sline \in Seq(Scans)
    BY <1>0, <1>1 DEF ScanLine
<1>8. ScanCaps' /\ Admitted(ToSet(sline), busy, ScanOn)
    <2>1. \A t \in ToSet(sline) \ S : Cardinality(busy \cup S) < ScansInFlight
              => \E k \in busy \cup S : HostOf[k] = HostOf[t]
        BY <1>5
    <2>2. QED
        BY <1>1, <1>4, <1>6, <1>7, <2>1, PumpAdmitsScan
<1>9. ScanSlots!Leave(s)
    <2>1. Admitted(Lined, SRunning \ {s}, ScanOn)
        BY <1>1, <1>8 DEF busy
    <2>2. QED
        BY <1>1, <2>1, ScanCardinality DEF ScanSlots!Leave, ScanSlots!Admit, Admitted
<1>10. QED
    BY <1>8, <1>9 DEF ScanSlotStep, ScanSlots!Next

\* Every step of the scans.
LEMMA ScanStepIsSlotStep ==
    ASSUME ScanInv, ScanCaps, [ScanNext]_scanVars
    PROVE  ScanSlotStep
<1>1. ASSUME NEW s \in Scans,
             ScanAsk(s) \/ ScanPrevious(s) \/ ScanCreate(s)
      PROVE  ScanSlotStep
    BY <1>1, SlotsKeptStep DEF ScanAsk, ScanPrevious, ScanCreate, scanPool, Lined, SRunning
<1>2. ASSUME NEW s \in Scans,
             ScanWalk(s) \/ ScanSave(s) \/ ScanSaveRefused(s) \/ ScanTrim(s)
      PROVE  ScanSlotStep
    <2>1. PICK to \in {"save", "trim", "leave"} : SMove(s, to) /\ srun[s] # "off"
        BY <1>2 DEF ScanWalk, ScanSave, ScanSaveRefused, ScanTrim
    <2>2. SRunning' = SRunning
        <3>1. ScanData
            BY DEF ScanInv
        <3>2. QED
            BY <2>1, <3>1 DEF ScanData, SMove, SRunning
    <2>3. QED
        BY <2>1, <2>2, SlotsKeptStep DEF SMove, Lined
<1>3. ASSUME NEW h \in ScanHosts, CancelRead(h) \/ CancelWrite(h)
      PROVE  ScanSlotStep
    BY <1>3, SlotsKeptStep DEF CancelRead, CancelWrite, scanPool, Lined, SRunning
<1>4. ASSUME NEW h \in ScanHosts, CancelAct(h)
      PROVE  ScanSlotStep
    <2> DEFINE s == drop[h].of
    <2>1. s \in Scans /\ ScanLine /\ SRunning' = SRunning
        BY <1>4 DEF ScanInv, DropAtHome, CancelAct, SRunning
    <2>2. CASE sline' = sline
        BY <2>1, <2>2, SlotsKeptStep DEF Lined
    <2>3. CASE sline' # sline
        <3>1. s \notin SRunning
            BY <1>4, <2>3 DEF CancelAct
        <3>2. PICK i \in DOMAIN sline : sline[i] = s /\ sline' = RemoveAt(sline, i)
            BY <1>4, <2>3 DEF CancelAct
        <3>3. Lined' = Lined \ {s}
            BY <2>1, <3>2, LeavesLine DEF ScanLine, Lined
        <3>4. QED
            BY <2>1, <3>1, <3>3, WithdrawStep
    <2>4. QED
        BY <2>2, <2>3
<1>5. ASSUME ScanShutdown PROVE ScanSlotStep
    BY <1>5, EmptyLine, CloseStep DEF ScanShutdown, Lined, SRunning
<1>6. ASSUME ScanExit PROVE ScanSlotStep
    BY <1>6, EmptyLine, DieStep DEF ScanExit, Lined, SRunning
<1>7. ASSUME ScanBoot \/ UNCHANGED scanVars PROVE ScanSlotStep
    BY <1>7, SlotsKeptStep DEF ScanBoot, scanVars, scanPool, Lined, SRunning
<1>8. QED
    BY <1>1, <1>2, <1>3, <1>4, <1>5, <1>6, <1>7, EnqueueIsArrival, LeaveIsLeave DEF ScanNext

\* The scans' queue implements SlotPool, for any scans, hosts and slots: it
\* starts one scan of a host at a time, no more than its slots, and never
\* leaves a scan in line that would fit.
THEOREM ScanQueueRefinesSlotPool == ScanSpec => ScanQueueRefines
<1>1. ScanInit => ScanCaps /\ ScanSlots!Init
    <2> SUFFICES ASSUME ScanInit PROVE ScanCaps /\ ScanSlots!Init
        OBVIOUS
    <2>1. Lined = {} /\ SRunning = {}
        BY EmptyLine DEF ScanInit, Lined, SRunning
    <2>2. ScanOn = [t \in Scans |-> {}]
        BY <2>1 DEF ScanOn
    <2>3. QED
        BY <2>1, <2>2, NoScanCaps DEF ScanSlots!Init
<1>2. ScanInv /\ ScanCaps /\ [ScanNext]_scanVars
        => ScanCaps' /\ [ScanSlots!Next]_(ScanSlots!slotVars)
    BY ScanStepIsSlotStep DEF ScanSlotStep
<1>3. QED
    BY <1>1, <1>2, ScanAlways, PTL DEF ScanSpec, ScanQueueRefines, ScanSlots!Spec

-----------------------------------------------------------------------------
(* Checksum jobs: what holds in every reachable state.                     *)

HashData ==
    /\ text     \in [HashFiles -> 1 .. MaxFileWrites + 1]
    /\ digestOf \in [HashFiles -> [at : Nat, of : Nat]]
    /\ post     \in [HashIds -> {"new", "walked", "done"}]
    /\ seen     \in [HashIds -> [HashFiles -> Nat]]
    /\ hrun     \in [HashIds -> {"off", "lookup", "chunk", "sum", "stream", "keep", "leave"}]
    /\ habort   \in [HashIds -> {"none", "user", "shutdown"}]
    /\ counts   \in [HashIds -> [done : Nat, failed : Nat]]
    /\ frame    \in [HashIds -> {"none", "DONE", "FAILED", "CANCELLED"}]
    /\ hstop    \in BOOLEAN

\* What a job has in hand are files of its selection.
HashSets ==
    /\ \A v \in {todoOn, chunk, rest} : v \in [HashIds -> SUBSET HashFiles]
    /\ \A j \in HashIds : todoOn[j] \cup chunk[j] \cup rest[j] \subseteq TargetsOf[j]

HashLined ==
    /\ hline \in Seq(HashIds) /\ IsInjective(hline)
    /\ hstop => hline = <<>>

\* A job is put in line once, leaves the line when it is started, and has a
\* terminal frame only when its run is over.
HashStands(j) ==
    /\ hrun[j] # "off" \/ j \in HLined \/ frame[j] # "none" => post[j] = "done"
    /\ hrun[j] # "off" => j \notin HLined
    /\ frame[j] # "none" => hrun[j] \in {"leave", "off"} /\ j \notin HLined

\* Times only grow: what was read of a file is no older than the time the walk
\* had, and no newer than the file.
ReadFits(j) ==
    /\ DOMAIN fresh[j] \subseteq TargetsOf[j]
    /\ fresh[j] = [f \in DOMAIN fresh[j] |-> fresh[j][f]]
    /\ \A f \in HashFiles : seen[j][f] <= text[f]
    /\ \A f \in DOMAIN fresh[j] :
        fresh[j][f] \in Nat /\ seen[j][f] <= fresh[j][f] /\ fresh[j][f] <= text[f]
    /\ post[j] = "new" => DOMAIN fresh[j] = {}
HashReads == fresh = [j \in HashIds |-> fresh[j]] /\ \A j \in HashIds : ReadFits(j)
HashRows == \A f \in HashFiles :
    digestOf[f].at <= digestOf[f].of /\ digestOf[f].of <= text[f]

\* Nothing of a job is lost: what is counted and what is still in hand, on the
\* route it is on or on the stream it may yet be sent to, is all of it.
Counted(j, n) == counts[j].done + counts[j].failed + n >= Cardinality(TargetsOf[j])
HashCounted(j) ==
    /\ hrun[j] = "chunk" => Counted(j, Cardinality(rest[j]))
    /\ hrun[j] = "sum"   => Counted(j, Cardinality(rest[j]) + Cardinality(chunk[j] \ DOMAIN fresh[j]))
    /\ hrun[j] \in {"chunk", "sum", "stream"} => Counted(j, Cardinality(todoOn[j]))
    /\ hrun[j] = "keep" => Counted(j, Cardinality(todoOn[j]) + 1)
    /\ frame[j] = "DONE" => Counted(j, 0)

HashInv ==
    /\ HashData /\ HashSets /\ HashLined /\ HashReads /\ HashRows
    /\ \A j \in HashIds : HashStands(j) /\ HashCounted(j)

\* The head of a line leaves it.
LEMMA HeadLeaves ==
    ASSUME NEW S, NEW s \in Seq(S), IsInjective(s), s # <<>>
    PROVE  /\ Tail(s) \in Seq(S) /\ IsInjective(Tail(s))
           /\ Head(s) \in ToSet(s)
           /\ ToSet(Tail(s)) = ToSet(s) \ {Head(s)}
<1> DEFINE t == Tail(s)
<1>1. /\ Len(s) \in Nat /\ Len(s) >= 1 /\ DOMAIN s = 1 .. Len(s)
      /\ Head(s) = s[1] /\ 1 \in DOMAIN s
    OBVIOUS
<1>2. /\ t \in Seq(S) /\ Len(t) = Len(s) - 1 /\ DOMAIN t = 1 .. Len(s) - 1
      /\ \A i \in 1 .. Len(s) - 1 : t[i] = s[i + 1]
    BY <1>1
<1> HIDE DEF t
<1>3. \A i \in 1 .. Len(s) - 1 : i + 1 \in 1 .. Len(s) /\ i + 1 # 1
    BY <1>1
<1>4. \A i, k \in 1 .. Len(s) - 1 : i + 1 = k + 1 => i = k
    BY <1>1
<1>5. \A m \in 1 .. Len(s) : m # 1 => m - 1 \in 1 .. Len(s) - 1 /\ (m - 1) + 1 = m
    BY <1>1
<1>6. IsInjective(t)
    BY <1>1, <1>2, <1>3, <1>4 DEF IsInjective
<1>7. Head(s) \in ToSet(s)
    BY <1>1 DEF ToSet
<1>8. ToSet(t) = ToSet(s) \ {Head(s)}
    <2>1. ASSUME NEW x \in ToSet(t) PROVE x \in ToSet(s) \ {s[1]}
        BY <1>1, <1>2, <1>3 DEF ToSet, IsInjective
    <2>2. ASSUME NEW x \in ToSet(s) \ {s[1]} PROVE x \in ToSet(t)
        <3>1. PICK m \in 1 .. Len(s) : x = s[m] /\ m # 1
            BY <1>1 DEF ToSet
        <3>2. m - 1 \in 1 .. Len(s) - 1 /\ (m - 1) + 1 = m
            BY <1>5, <3>1
        <3>3. m - 1 \in DOMAIN t /\ t[m - 1] = x
            BY <1>2, <3>1, <3>2
        <3>4. QED
            BY <3>3 DEF ToSet
    <2>3. QED
        BY <1>1, <2>1, <2>2
<1>9. QED
    BY <1>2, <1>6, <1>7, <1>8 DEF t

LEMMA EmptyHashLine == <<>> \in Seq(HashIds) /\ IsInjective(<<>>) /\ ToSet(<<>>) = {}
BY DEF IsInjective, ToSet

\* What a pump over the jobs' line leaves: the head has a slot, or there is none.
JobStarted(ln, busy, S) ==
    /\ S \in SUBSET ToSet(ln)
    /\ hline' \in Seq(HashIds) /\ IsInjective(hline') /\ ToSet(hline') = ToSet(ln) \ S
    /\ hrun' = [j \in HashIds |-> IF j \in S THEN "lookup" ELSE IF j \in busy THEN hrun[j] ELSE "off"]
    /\ \/ /\ S = {} /\ hline' = ln
          /\ hstop \/ ToSet(ln) = {} \/ Cardinality(busy) >= HashInFlight
       \/ /\ ~hstop /\ ~(Cardinality(busy) >= HashInFlight)
          /\ \E j \in ToSet(ln) : S = {j}

LEMMA JobPumps ==
    ASSUME NEW ln \in Seq(HashIds), IsInjective(ln), NEW busy, HPump(ln, busy)
    PROVE  \E S : JobStarted(ln, busy, S)
<1>1. CASE hstop \/ ln = <<>> \/ Cardinality(busy) >= HashInFlight
    <2>1. hline' = ln /\ hrun' = [j \in HashIds |-> IF j \in busy THEN hrun[j] ELSE "off"]
        BY <1>1 DEF HPump
    <2>2. JobStarted(ln, busy, {})
        BY <1>1, <2>1, EmptyHashLine DEF JobStarted
    <2>3. QED
        BY <2>2
<1>2. CASE ~(hstop \/ ln = <<>> \/ Cardinality(busy) >= HashInFlight)
    <2>1. /\ hline' = Tail(ln)
          /\ hrun' = [j \in HashIds |-> IF j = Head(ln) THEN "lookup"
                                        ELSE IF j \in busy THEN hrun[j] ELSE "off"]
        BY <1>2 DEF HPump
    <2>2. /\ Tail(ln) \in Seq(HashIds) /\ IsInjective(Tail(ln)) /\ Head(ln) \in ToSet(ln)
          /\ ToSet(Tail(ln)) = ToSet(ln) \ {Head(ln)}
        BY <1>2, HeadLeaves
    <2>3. hrun' = [j \in HashIds |-> IF j \in {Head(ln)} THEN "lookup"
                                     ELSE IF j \in busy THEN hrun[j] ELSE "off"]
        BY <2>1
    <2>4. JobStarted(ln, busy, {Head(ln)})
        BY <1>2, <2>1, <2>2, <2>3 DEF JobStarted
    <2>5. QED
        BY <2>4
<1>3. QED
    BY <1>1, <1>2

\* Where a job is put in line, and where one leaves the running map.
LEMMA JobEntered ==
    ASSUME HashInv, NEW j \in HashIds, HashEnqueue(j), ~hstop
    PROVE  \E S : JobStarted(Append(hline, j), HRunning, S)
<1>1. j \notin HLined /\ hline \in Seq(HashIds) /\ IsInjective(hline)
    BY DEF HashInv, HashStands, HashLined, HashEnqueue
<1>2. Append(hline, j) \in Seq(HashIds) /\ IsInjective(Append(hline, j))
    BY <1>1, JoinsLine DEF HLined
<1>3. HPump(Append(hline, j), HRunning)
    BY DEF HashEnqueue
<1>4. QED
    BY <1>2, <1>3, JobPumps

LEMMA JobLeft ==
    ASSUME HashInv, NEW j \in HashIds, HashLeave(j)
    PROVE  \E S : JobStarted(hline, HRunning \ {j}, S)
<1>1. hline \in Seq(HashIds) /\ IsInjective(hline) /\ HPump(hline, HRunning \ {j})
    BY DEF HashInv, HashLined, HashLeave
<1>2. QED
    BY <1>1, JobPumps

\* The jobs a pump starts were in line; the others stand where they stood.
LEMMA JobMoves ==
    ASSUME HashData, NEW ln, ToSet(ln) \in SUBSET HashIds, NEW busy \in SUBSET HRunning,
           NEW S, JobStarted(ln, busy, S)
    PROVE  /\ hrun' \in [HashIds -> {"off", "lookup", "chunk", "sum", "stream", "keep", "leave"}]
           /\ HRunning' = busy \cup S
           /\ HLined' = ToSet(ln) \ S
           /\ \A j \in HashIds \ S : hrun'[j] = IF j \in busy THEN hrun[j] ELSE "off"
           /\ \A j \in S : j \in HashIds /\ hrun'[j] = "lookup"
<1>1. S \in SUBSET HashIds
    BY DEF JobStarted
<1>2. hrun' \in [HashIds -> {"off", "lookup", "chunk", "sum", "stream", "keep", "leave"}]
    BY DEF JobStarted, HashData
<1>3. \A j \in HashIds : hrun'[j] # "off" <=> j \in busy \cup S
    BY DEF JobStarted, HRunning
<1>4. HRunning' = busy \cup S
    BY <1>1, <1>3 DEF HRunning
<1>5. HLined' = ToSet(ln) \ S
    BY DEF JobStarted, HLined
<1>6. \A j \in HashIds \ S : hrun'[j] = IF j \in busy THEN hrun[j] ELSE "off"
    BY DEF JobStarted
<1>7. \A j \in S : j \in HashIds /\ hrun'[j] = "lookup"
    BY <1>1 DEF JobStarted
<1>8. QED
    BY <1>2, <1>4, <1>5, <1>6, <1>7

\* The line after each step, and who is in it.
LEMMA HashLineStep ==
    ASSUME HashInv, [HashNext]_hashVars
    PROVE  HashLined'
<1>1. CASE UNCHANGED <<hline, hstop>>
    BY <1>1 DEF HashInv, HashLined
<1>2. CASE HashShutdown
    BY <1>2, EmptyHashLine DEF HashShutdown, HashLined
<1>3. ASSUME NEW j \in HashIds, HashEnqueue(j), ~hstop PROVE HashLined'
    <2>1. PICK S : JobStarted(Append(hline, j), HRunning, S)
        BY <1>3, JobEntered
    <2>2. QED
        BY <1>3, <2>1 DEF JobStarted, HashLined, HashEnqueue
<1>4. ASSUME NEW j \in HashIds, HashLeave(j) PROVE HashLined'
    <2>1. PICK S : JobStarted(hline, HRunning \ {j}, S)
        BY <1>4, JobLeft
    <2>2. hstop => hline' = <<>>
        BY <2>1 DEF JobStarted, HashInv, HashLined
    <2>3. QED
        BY <1>4, <2>1, <2>2 DEF JobStarted, HashLined, HashLeave
<1>5. ASSUME NEW j \in HashIds, HashCancel(j) PROVE HashLined'
    <2>1. CASE hline' = hline
        BY <1>5, <2>1 DEF HashInv, HashLined, HashCancel
    <2>2. CASE hline' # hline
        <3>1. PICK i \in DOMAIN hline : hline' = RemoveAt(hline, i)
            BY <1>5, <2>2 DEF HashCancel
        <3>2. ~hstop
            BY <3>1 DEF HashInv, HashLined
        <3>3. QED
            BY <1>5, <3>1, <3>2, LeavesLine DEF HashInv, HashLined, HashCancel
    <2>3. QED
        BY <2>1, <2>2
<1>6. ASSUME NEW j \in HashIds, HashEnqueue(j), hstop PROVE UNCHANGED <<hline, hstop>>
    BY <1>6 DEF HashEnqueue
<1>7. ASSUME NEW j \in HashIds, HashRun(j), ~HashLeave(j) PROVE UNCHANGED <<hline, hstop>>
    BY <1>7 DEF HashRun, HashLookup, HashThrow, HashNextChunk, HashDigest, HashSave, HashChunkFails,
                HashAbsent, HashStream, HashKeep, HashEmit, HMove, hashLine
<1>8. ASSUME NEW j \in HashIds, HashWalk(j) PROVE UNCHANGED <<hline, hstop>>
    BY <1>8 DEF HashWalk, hashLine
<1>9. ASSUME NEW f \in HashFiles, HashTouch(f) PROVE UNCHANGED <<hline, hstop>>
    BY <1>9 DEF HashTouch, hashLine
<1>10. CASE UNCHANGED hashVars
    BY <1>1, <1>10 DEF hashVars, hashLine
<1>11. QED
    BY <1>1, <1>2, <1>3, <1>4, <1>5, <1>6, <1>7, <1>8, <1>9, <1>10 DEF HashNext

\* A counter counts on.
LEMMA CountsCount ==
    ASSUME HashInv
    PROVE  \A j \in HashIds, n \in Nat :
               /\ [counts EXCEPT ![j].failed = @ + n] \in [HashIds -> [done : Nat, failed : Nat]]
               /\ [counts EXCEPT ![j].failed = @ + 1] \in [HashIds -> [done : Nat, failed : Nat]]
               /\ [counts EXCEPT ![j].done = @ + 1] \in [HashIds -> [done : Nat, failed : Nat]]
<1>1. counts \in [HashIds -> [done : Nat, failed : Nat]]
    BY DEF HashInv, HashData
<1>2. QED
    BY <1>1

\* What a runner may set.
LEMMA HashDataStep ==
    ASSUME HashInv, [HashNext]_hashVars
    PROVE  HashData'
<1>0. HashData /\ HashSets /\ HashReads /\ HashAssumption
    BY HashAssumption DEF HashInv, HashAssumption
<1>1. ASSUME NEW j \in HashIds, HashWalk(j) PROVE HashData'
    <2>1. text \in [HashFiles -> Nat]
        BY <1>0 DEF HashData
    <2>2. seen' \in [HashIds -> [HashFiles -> Nat]]
        BY <1>0, <1>1, <2>1 DEF HashData, HashWalk
    <2>3. QED
        BY <1>0, <1>1, <2>2 DEF HashData, HashWalk, hashLine, hashJob
<1>2. ASSUME NEW j \in HashIds, HashEnqueue(j) PROVE HashData'
    <2>1. hrun' \in [HashIds -> {"off", "lookup", "chunk", "sum", "stream", "keep", "leave"}]
        <3>1. CASE hstop
            BY <1>0, <1>2, <3>1 DEF HashEnqueue, HashData
        <3>2. CASE ~hstop
            <4>1. PICK S : JobStarted(Append(hline, j), HRunning, S)
                BY <1>2, <3>2, JobEntered
            <4>2. QED
                BY <1>0, <4>1 DEF JobStarted, HashData
        <3>3. QED
            BY <3>1, <3>2
    <2>2. QED
        BY <1>0, <1>2, <2>1 DEF HashData, HashEnqueue, hashJob
<1>3. ASSUME NEW j \in HashIds, HashCancel(j) PROVE HashData'
    BY <1>0, <1>3 DEF HashData, HashCancel, hashJob
<1>4. ASSUME HashShutdown PROVE HashData'
    <2>1. habort' \in [HashIds -> {"none", "user", "shutdown"}]
        BY <1>0, <1>4 DEF HashData, HashShutdown
    <2>2. QED
        BY <1>0, <1>4, <2>1 DEF HashData, HashShutdown, hashJob
<1>5. ASSUME NEW f \in HashFiles, HashTouch(f) PROVE HashData'
    <2>1. text' \in [HashFiles -> 1 .. MaxFileWrites + 1]
        BY <1>0, <1>5 DEF HashData, HashTouch, HashAssumption
    <2>2. QED
        BY <1>0, <1>5, <2>1 DEF HashData, HashTouch, hashJob, hashLine
<1>6. ASSUME NEW j \in HashIds, HashLookup(j) PROVE HashData'
    <2> DEFINE cached == {f \in TargetsOf[j] : digestOf[f].at = seen[j][f]}
    <2>1. IsFiniteSet(cached) /\ Cardinality(cached) \in Nat
        <3>1. TargetsOf[j] \in SUBSET HashFiles /\ IsFiniteSet(HashFiles)
            BY <1>0 DEF HashAssumption
        <3>2. cached \in SUBSET HashFiles
            BY <3>1
        <3>3. QED
            BY <3>1, <3>2, FS_Subset, FS_CardinalityType
    <2>2. counts' = [counts EXCEPT ![j].done = Cardinality(cached)]
        BY <1>6 DEF HashLookup
    <2> HIDE DEF cached
    <2>3. counts' \in [HashIds -> [done : Nat, failed : Nat]]
        BY <1>0, <2>1, <2>2 DEF HashData
    <2>4. hrun' = [hrun EXCEPT ![j] = "chunk"]
        BY <1>6 DEF HashLookup, HMove
    <2>5. QED
        BY <1>0, <1>6, <2>3, <2>4 DEF HashData, HashLookup, HMove
<1>7. ASSUME NEW j \in HashIds, HashThrow(j) PROVE HashData'
    BY <1>0, <1>7 DEF HashData, HashThrow, HMove
<1>8. ASSUME NEW j \in HashIds, HashNextChunk(j) PROVE HashData'
    BY <1>0, <1>8 DEF HashData, HashNextChunk, HMove
<1>9. ASSUME NEW j \in HashIds, HashDigest(j) PROVE HashData'
    <2>1. counts' \in [HashIds -> [done : Nat, failed : Nat]]
        BY <1>9, CountsCount DEF HashDigest
    <2>2. QED
        BY <1>0, <1>9, <2>1 DEF HashData, HashDigest, hashLine
<1>10. ASSUME NEW j \in HashIds, HashEmit(j) \/ HashAbsent(j) PROVE HashData'
    BY <1>0, <1>10 DEF HashData, HashEmit, HashAbsent, HMove, hashJob
<1>11. ASSUME NEW j \in HashIds, HashStream(j) PROVE HashData'
    <2>1. counts' \in [HashIds -> [done : Nat, failed : Nat]]
        <3>1. counts' = counts \/ counts' = [counts EXCEPT ![j].failed = @ + 1]
            BY <1>11 DEF HashStream
        <3>2. [counts EXCEPT ![j].failed = @ + 1] \in [HashIds -> [done : Nat, failed : Nat]]
            BY CountsCount
        <3>3. counts \in [HashIds -> [done : Nat, failed : Nat]]
            BY <1>0 DEF HashData
        <3>4. QED
            BY <3>1, <3>2, <3>3
    <2>2. hrun' \in [HashIds -> {"off", "lookup", "chunk", "sum", "stream", "keep", "leave"}]
        BY <1>0, <1>11 DEF HashData, HashStream, HMove, hashLine
    <2>3. QED
        BY <1>0, <1>11, <2>1, <2>2 DEF HashData, HashStream, HMove, hashLine
<1>12. ASSUME NEW j \in HashIds, HashSave(j) \/ HashKeep(j) PROVE digestOf' \in [HashFiles -> [at : Nat, of : Nat]]
    <2>1. PICK taken \in SUBSET DOMAIN fresh[j] :
            digestOf' = [f \in HashFiles |->
                IF f \in taken THEN [at |-> seen[j][f], of |-> fresh[j][f]] ELSE digestOf[f]]
        BY <1>12 DEF HashSave, HashKeep
    <2>2. \A f \in taken : seen[j][f] \in Nat /\ fresh[j][f] \in Nat
        <3>1. TargetsOf[j] \subseteq HashFiles /\ DOMAIN fresh[j] \subseteq TargetsOf[j]
            BY <1>0 DEF HashAssumption, HashReads, ReadFits
        <3>2. QED
            BY <1>0, <3>1 DEF HashData, HashReads, ReadFits
    <2>3. QED
        BY <1>0, <2>1, <2>2 DEF HashData
<1>14. ASSUME NEW j \in HashIds
       PROVE  Cardinality(chunk[j]) \in Nat /\ Cardinality(chunk[j] \ DOMAIN fresh[j]) \in Nat
    <2>1. chunk[j] \in SUBSET HashFiles /\ chunk[j] \ DOMAIN fresh[j] \in SUBSET HashFiles
          /\ IsFiniteSet(HashFiles)
        BY <1>0 DEF HashSets, HashAssumption
    <2>2. QED
        BY <2>1, FS_Subset, FS_CardinalityType
<1>15. ASSUME NEW j \in HashIds, HashSave(j) PROVE HashData'
    <2>1. counts' \in [HashIds -> [done : Nat, failed : Nat]]
        BY <1>0, <1>14, <1>15, CountsCount DEF HashSave
    <2>2. QED
        BY <1>0, <1>12, <1>15, <2>1 DEF HashData, HashSave, HMove
<1>16. ASSUME NEW j \in HashIds, HashKeep(j) PROVE HashData'
    <2>1. counts' \in [HashIds -> [done : Nat, failed : Nat]]
        BY <1>0, <1>16, CountsCount DEF HashKeep
    <2>2. QED
        BY <1>0, <1>12, <1>16, <2>1 DEF HashData, HashKeep, HMove
<1>17. ASSUME NEW j \in HashIds, HashChunkFails(j) PROVE HashData'
    <2>1. counts' \in [HashIds -> [done : Nat, failed : Nat]]
        BY <1>0, <1>14, <1>17, CountsCount DEF HashChunkFails
    <2>2. QED
        BY <1>0, <1>17, <2>1 DEF HashData, HashChunkFails, HMove
<1>18. ASSUME NEW j \in HashIds, HashLeave(j) PROVE HashData'
    <2>1. PICK S : JobStarted(hline, HRunning \ {j}, S)
        BY <1>18, JobLeft
    <2>2. hrun' \in [HashIds -> {"off", "lookup", "chunk", "sum", "stream", "keep", "leave"}]
        BY <1>0, <2>1 DEF JobStarted, HashData
    <2>3. QED
        BY <1>0, <1>18, <2>2 DEF HashData, HashLeave, hashJob
<1>19. CASE UNCHANGED hashVars
    BY <1>0, <1>19 DEF HashData, hashVars, hashJob, hashLine
<1>20. QED
    BY <1>1, <1>2, <1>3, <1>4, <1>5, <1>6, <1>7, <1>8, <1>9, <1>10, <1>11, <1>15, <1>16, <1>17,
       <1>18, <1>19 DEF HashNext, HashRun

LEMMA HashSetsStep ==
    ASSUME HashInv, [HashNext]_hashVars
    PROVE  HashSets'
<1>0. HashSets /\ \A j \in HashIds : TargetsOf[j] \in SUBSET HashFiles
    BY HashAssumption DEF HashInv, HashAssumption
<1>1. CASE UNCHANGED <<todoOn, chunk, rest>>
    BY <1>0, <1>1 DEF HashSets
<1>2. ASSUME NEW j \in HashIds, HashLookup(j) PROVE HashSets'
    <2>1. PICK T \in SUBSET TargetsOf[j] :
            todoOn' = [todoOn EXCEPT ![j] = T] /\ rest' = [rest EXCEPT ![j] = T] /\ chunk' = chunk
        <3>1. TargetsOf[j] \ {f \in TargetsOf[j] : digestOf[f].at = seen[j][f]} \in SUBSET TargetsOf[j]
            OBVIOUS
        <3>2. QED
            BY <1>2, <3>1 DEF HashLookup
    <2>2. QED
        BY <1>0, <2>1 DEF HashSets
<1>3. ASSUME NEW j \in HashIds, HashNextChunk(j) PROVE HashSets'
    <2>1. PICK c \in SUBSET rest[j] : /\ chunk' = [chunk EXCEPT ![j] = c]
                                      /\ rest' = [rest EXCEPT ![j] = @ \ c] /\ todoOn' = todoOn
        BY <1>3 DEF HashNextChunk
    <2>2. c \in SUBSET TargetsOf[j] /\ c \in SUBSET HashFiles
        BY <1>0, <2>1 DEF HashSets
    <2>3. QED
        BY <1>0, <2>1, <2>2 DEF HashSets
<1>4. ASSUME NEW j \in HashIds, HashStream(j) PROVE HashSets'
    <2>1. PICK f : todoOn' = [todoOn EXCEPT ![j] = @ \ {f}] /\ chunk' = chunk /\ rest' = rest
        BY <1>4 DEF HashStream
    <2>2. QED
        BY <1>0, <2>1 DEF HashSets
<1>5. ASSUME NEW j \in HashIds, HashRun(j), ~HashLookup(j), ~HashNextChunk(j), ~HashStream(j)
      PROVE  UNCHANGED <<todoOn, chunk, rest>>
    BY <1>5 DEF HashRun, HashThrow, HashDigest, HashSave, HashChunkFails, HashAbsent, HashKeep,
                HashEmit, HashLeave, hashJob
<1>6. ASSUME NEW j \in HashIds, HashWalk(j) \/ HashEnqueue(j) \/ HashCancel(j)
      PROVE  UNCHANGED <<todoOn, chunk, rest>>
    BY <1>6 DEF HashWalk, HashEnqueue, HashCancel, hashJob
<1>7. ASSUME NEW f \in HashFiles, HashTouch(f) PROVE UNCHANGED <<todoOn, chunk, rest>>
    BY <1>7 DEF HashTouch, hashJob
<1>8. ASSUME HashShutdown \/ UNCHANGED hashVars PROVE UNCHANGED <<todoOn, chunk, rest>>
    BY <1>8 DEF HashShutdown, hashVars, hashJob
<1>9. QED
    BY <1>1, <1>2, <1>3, <1>4, <1>5, <1>6, <1>7, <1>8 DEF HashNext

\* A write makes a file newer, and nothing makes one older.
LEMMA TimesGrow ==
    ASSUME HashData, [HashNext]_hashVars
    PROVE  \A f \in HashFiles : text[f] \in Nat /\ text'[f] \in Nat /\ text[f] <= text'[f]
<1>0. text \in [HashFiles -> Nat]
    BY DEF HashData
<1>1. CASE text' = text
    BY <1>0, <1>1
<1>2. ASSUME NEW f \in HashFiles, HashTouch(f)
      PROVE  \A g \in HashFiles : text[g] \in Nat /\ text'[g] \in Nat /\ text[g] <= text'[g]
    <2>1. text' = [text EXCEPT ![f] = @ + 1]
        BY <1>2 DEF HashTouch
    <2>2. QED
        BY <1>0, <2>1
<1>3. ASSUME NEW j \in HashIds, HashRun(j) PROVE text' = text
    BY <1>3 DEF HashRun, HashLookup, HashThrow, HashNextChunk, HashDigest, HashSave, HashChunkFails,
                HashAbsent, HashStream, HashKeep, HashEmit, HashLeave
<1>4. ASSUME NEW j \in HashIds, HashWalk(j) \/ HashEnqueue(j) \/ HashCancel(j) PROVE text' = text
    BY <1>4 DEF HashWalk, HashEnqueue, HashCancel
<1>5. ASSUME HashShutdown \/ UNCHANGED hashVars PROVE text' = text
    BY <1>5 DEF HashShutdown, hashVars
<1>6. QED
    BY <1>1, <1>2, <1>3, <1>4, <1>5 DEF HashNext

LEMMA ReadFitsStep ==
    ASSUME HashInv, [HashNext]_hashVars, NEW j \in HashIds
    PROVE  ReadFits(j)'
<1>0. /\ ReadFits(j) /\ HashData /\ TargetsOf[j] \in SUBSET HashFiles
      /\ chunk[j] \subseteq TargetsOf[j] /\ todoOn[j] \subseteq TargetsOf[j]
      /\ DOMAIN fresh = HashIds
      /\ hrun[j] # "off" => post[j] = "done"
    BY HashAssumption DEF HashInv, HashAssumption, HashReads, HashSets, HashStands, ReadFits
<1>1. \A f \in HashFiles : text[f] \in Nat /\ text'[f] \in Nat /\ text[f] <= text'[f]
                           /\ seen[j][f] \in Nat
    BY <1>0, TimesGrow DEF HashData
<1>2. CASE fresh'[j] = fresh[j] /\ seen'[j] = seen[j] /\ (post'[j] = "new" => post[j] = "new")
    BY <1>0, <1>1, <1>2 DEF ReadFits
<1>3. CASE fresh'[j] = fresh[j] /\ seen'[j] = text /\ text' = text /\ post[j] = "new"
    BY <1>0, <1>1, <1>3 DEF ReadFits
<1>4. CASE /\ seen' = seen /\ text' = text /\ post' = post /\ post[j] = "done"
           /\ \E D \in SUBSET TargetsOf[j] :
                /\ fresh'[j] = [f \in D |-> fresh'[j][f]]
                /\ \A f \in D : (f \in DOMAIN fresh[j] /\ fresh'[j][f] = fresh[j][f]) \/ fresh'[j][f] = text[f]
    BY <1>0, <1>1, <1>4 DEF ReadFits
<1>5. ASSUME NEW i \in HashIds, HashWalk(i) PROVE ReadFits(j)'
    <2>1. CASE i = j
        BY <1>0, <1>3, <1>5, <2>1 DEF HashWalk, HashData, hashJob
    <2>2. CASE i # j
        BY <1>0, <1>2, <1>5, <2>2 DEF HashWalk, HashData, hashJob
    <2>3. QED
        BY <2>1, <2>2
<1>6. ASSUME NEW i \in HashIds, HashEnqueue(i) PROVE ReadFits(j)'
    <2>1. post' = [post EXCEPT ![i] = "done"] /\ fresh' = fresh /\ seen' = seen
        BY <1>6 DEF HashEnqueue, hashJob
    <2>2. QED
        BY <1>0, <1>2, <2>1 DEF HashData
<1>7. ASSUME NEW i \in HashIds, HashNextChunk(i) PROVE ReadFits(j)'
    <2>1. /\ fresh' = [fresh EXCEPT ![i] = [f \in {} |-> 0]]
          /\ seen' = seen /\ text' = text /\ post' = post /\ hrun[i] # "off"
        BY <1>7 DEF HashNextChunk
    <2>2. CASE i = j
        <3>1. fresh'[j] = [f \in {} |-> 0]
            BY <1>0, <2>1, <2>2
        <3>2. {} \in SUBSET TargetsOf[j] /\ fresh'[j] = [f \in {} |-> fresh'[j][f]]
            BY <3>1
        <3>3. \A f \in {} : (f \in DOMAIN fresh[j] /\ fresh'[j][f] = fresh[j][f]) \/ fresh'[j][f] = text[f]
            OBVIOUS
        <3>4. QED
            BY <1>0, <1>4, <2>1, <2>2, <3>2, <3>3
    <2>3. CASE i # j
        BY <1>0, <1>2, <2>1, <2>3
    <2>4. QED
        BY <2>2, <2>3
<1>8. ASSUME NEW i \in HashIds, HashDigest(i) PROVE ReadFits(j)'
    <2>1. PICK f \in chunk[i] \ DOMAIN fresh[i] :
            fresh' = [fresh EXCEPT ![i] = [g \in DOMAIN @ \cup {f} |-> IF g = f THEN text[f] ELSE @[g]]]
        BY <1>8 DEF HashDigest
    <2>2. seen' = seen /\ text' = text /\ post' = post /\ hrun[i] # "off"
        BY <1>8 DEF HashDigest
    <2>3. CASE i = j
        <3> DEFINE D == DOMAIN fresh[j] \cup {f}
        <3>1. fresh'[j] = [g \in D |-> IF g = f THEN text[f] ELSE fresh[j][g]]
            BY <1>0, <2>1, <2>3
        <3>2. D \in SUBSET TargetsOf[j]
            BY <1>0, <2>1, <2>3 DEF ReadFits
        <3>3. fresh'[j] = [g \in D |-> fresh'[j][g]]
            BY <3>1
        <3>4. \A g \in D : (g \in DOMAIN fresh[j] /\ fresh'[j][g] = fresh[j][g]) \/ fresh'[j][g] = text[g]
            BY <3>1
        <3> HIDE DEF D
        <3>5. QED
            BY <1>0, <1>4, <2>2, <2>3, <3>2, <3>3, <3>4
    <2>4. CASE i # j
        BY <1>0, <1>2, <2>1, <2>2, <2>4
    <2>5. QED
        BY <2>3, <2>4
<1>9. ASSUME NEW i \in HashIds, HashStream(i) PROVE ReadFits(j)'
    <2>1. PICK f \in todoOn[i] : fresh' = fresh \/ fresh' = [fresh EXCEPT ![i] = [g \in {f} |-> text[f]]]
        BY <1>9 DEF HashStream
    <2>2. seen' = seen /\ text' = text /\ post' = post /\ hrun[i] # "off"
        BY <1>9 DEF HashStream
    <2>3. CASE i = j /\ fresh' # fresh
        <3>1. fresh'[j] = [g \in {f} |-> text[f]]
            BY <1>0, <2>1, <2>3
        <3>2. {f} \in SUBSET TargetsOf[j] /\ fresh'[j] = [g \in {f} |-> fresh'[j][g]]
            BY <1>0, <2>1, <2>3, <3>1
        <3>3. \A g \in {f} : (g \in DOMAIN fresh[j] /\ fresh'[j][g] = fresh[j][g]) \/ fresh'[j][g] = text[g]
            BY <3>1
        <3>4. QED
            BY <1>0, <1>4, <2>2, <2>3, <3>2, <3>3
    <2>4. CASE i # j \/ fresh' = fresh
        BY <1>0, <1>2, <2>1, <2>2, <2>4
    <2>5. QED
        BY <2>3, <2>4
<1>10. ASSUME NEW i \in HashIds, HashRun(i), ~HashNextChunk(i), ~HashDigest(i), ~HashStream(i)
       PROVE  UNCHANGED <<fresh, seen, post>>
    BY <1>10 DEF HashRun, HashLookup, HashThrow, HashSave, HashChunkFails, HashAbsent, HashKeep,
                 HashEmit, HashLeave, hashJob
<1>11. ASSUME NEW i \in HashIds, HashCancel(i) PROVE UNCHANGED <<fresh, seen, post>>
    BY <1>11 DEF HashCancel, hashJob
<1>12. ASSUME NEW f \in HashFiles, HashTouch(f) PROVE UNCHANGED <<fresh, seen, post>>
    BY <1>12 DEF HashTouch, hashJob
<1>13. ASSUME HashShutdown \/ UNCHANGED hashVars PROVE UNCHANGED <<fresh, seen, post>>
    BY <1>13 DEF HashShutdown, hashVars, hashJob
<1>14. UNCHANGED <<fresh, seen, post>> => ReadFits(j)'
    BY <1>2
<1>15. QED
    BY <1>5, <1>6, <1>7, <1>8, <1>9, <1>10, <1>11, <1>12, <1>13, <1>14 DEF HashNext

LEMMA HashReadsStep ==
    ASSUME HashInv, [HashNext]_hashVars
    PROVE  HashReads'
<1>0. fresh = [j \in HashIds |-> fresh[j]]
    BY DEF HashInv, HashReads
<1>1. fresh' = fresh \/ \E j \in HashIds : \E x : fresh' = [fresh EXCEPT ![j] = x]
    <2>1. ASSUME NEW j \in HashIds, HashRun(j)
          PROVE  fresh' = fresh \/ \E i \in HashIds : \E x : fresh' = [fresh EXCEPT ![i] = x]
        BY <2>1 DEF HashRun, HashLookup, HashThrow, HashNextChunk, HashDigest, HashSave, HashChunkFails,
                    HashAbsent, HashStream, HashKeep, HashEmit, HashLeave, hashJob
    <2>2. ASSUME NEW j \in HashIds, HashWalk(j) \/ HashEnqueue(j) \/ HashCancel(j) PROVE fresh' = fresh
        BY <2>2 DEF HashWalk, HashEnqueue, HashCancel, hashJob
    <2>3. ASSUME NEW f \in HashFiles, HashTouch(f) PROVE fresh' = fresh
        BY <2>3 DEF HashTouch, hashJob
    <2>4. ASSUME HashShutdown \/ UNCHANGED hashVars PROVE fresh' = fresh
        BY <2>4 DEF HashShutdown, hashVars, hashJob
    <2>5. QED
        BY <2>1, <2>2, <2>3, <2>4 DEF HashNext
<1>2. fresh' = [j \in HashIds |-> fresh'[j]]
    BY <1>0, <1>1
<1>3. \A j \in HashIds : ReadFits(j)'
    BY ReadFitsStep
<1>4. QED
    BY <1>2, <1>3 DEF HashReads

\* A row is keyed on the time of the walk, and holds what was read after it.
LEMMA HashRowsStep ==
    ASSUME HashInv, [HashNext]_hashVars
    PROVE  HashRows'
<1>0. /\ HashData /\ HashRows
      /\ \A f \in HashFiles : digestOf[f].at \in Nat /\ digestOf[f].of \in Nat
    BY DEF HashInv, HashData
<1>1. \A f \in HashFiles : text[f] \in Nat /\ text'[f] \in Nat /\ text[f] <= text'[f]
    BY <1>0, TimesGrow
<1>2. CASE digestOf' = digestOf
    BY <1>0, <1>1, <1>2 DEF HashRows
<1>3. ASSUME NEW j \in HashIds, HashSave(j) \/ HashKeep(j) PROVE HashRows'
    <2>1. PICK taken \in SUBSET DOMAIN fresh[j] :
            digestOf' = [f \in HashFiles |->
                IF f \in taken THEN [at |-> seen[j][f], of |-> fresh[j][f]] ELSE digestOf[f]]
        BY <1>3 DEF HashSave, HashKeep
    <2>2. text' = text
        BY <1>3 DEF HashSave, HashKeep
    <2>3. \A f \in taken : seen[j][f] <= fresh[j][f] /\ fresh[j][f] <= text[f]
        BY DEF HashInv, HashReads, ReadFits
    <2>4. QED
        BY <1>0, <2>1, <2>2, <2>3 DEF HashRows
<1>4. ASSUME NEW j \in HashIds, HashRun(j), ~HashSave(j), ~HashKeep(j) PROVE digestOf' = digestOf
    BY <1>4 DEF HashRun, HashLookup, HashThrow, HashNextChunk, HashDigest, HashChunkFails, HashAbsent,
                HashStream, HashEmit, HashLeave
<1>5. ASSUME NEW j \in HashIds, HashWalk(j) \/ HashEnqueue(j) \/ HashCancel(j) PROVE digestOf' = digestOf
    BY <1>5 DEF HashWalk, HashEnqueue, HashCancel
<1>6. ASSUME NEW f \in HashFiles, HashTouch(f) PROVE digestOf' = digestOf
    BY <1>6 DEF HashTouch
<1>7. ASSUME HashShutdown \/ UNCHANGED hashVars PROVE digestOf' = digestOf
    BY <1>7 DEF HashShutdown, hashVars
<1>8. QED
    BY <1>2, <1>3, <1>4, <1>5, <1>6, <1>7 DEF HashNext

\* Where a job stands.
LEMMA HashStandsStep ==
    ASSUME HashInv, [HashNext]_hashVars, NEW j \in HashIds
    PROVE  HashStands(j)'
<1>0. HashStands(j) /\ HashData /\ HashLined
    BY DEF HashInv
<1>1. CASE UNCHANGED <<post, hrun, frame>> /\ HLined' \subseteq HLined
    BY <1>0, <1>1 DEF HashStands
<1>2. ASSUME NEW i \in HashIds, hrun[i] \notin {"off", "leave"}, hrun'[i] # "off",
             \A k \in HashIds \ {i} : hrun'[k] = hrun[k] /\ frame'[k] = frame[k],
             frame'[i] # frame[i] => hrun'[i] = "leave",
             UNCHANGED <<post, hline>>
      PROVE  HashStands(j)'
    BY <1>0, <1>2 DEF HashStands, HLined
<1>3. ASSUME NEW i \in HashIds, HashWalk(i) PROVE HashStands(j)'
    BY <1>0, <1>3 DEF HashStands, HLined, HashWalk, HashData, hashJob, hashLine
<1>4. ASSUME NEW i \in HashIds, HashEnqueue(i) PROVE HashStands(j)'
    <2>1. /\ post' = [post EXCEPT ![i] = "done"] /\ post[i] = "walked" /\ frame' = frame
        BY <1>4 DEF HashEnqueue, hashJob
    <2>2. CASE hstop
        <3>1. UNCHANGED <<hline, hrun>>
            BY <1>4, <2>2 DEF HashEnqueue
        <3>2. QED
            BY <1>0, <2>1, <3>1 DEF HashStands, HLined, HashData
    <2>3. CASE ~hstop
        <3>1. PICK S : JobStarted(Append(hline, i), HRunning, S)
            BY <1>4, <2>3, JobEntered
        <3>2. ToSet(Append(hline, i)) = HLined \cup {i} /\ HLined \in SUBSET HashIds
            <4>1. i \notin ToSet(hline)
                BY <2>1 DEF HashInv, HashStands, HLined
            <4>2. ToSet(Append(hline, i)) = ToSet(hline) \cup {i}
                BY <1>0, <4>1, JoinsLine DEF HashLined
            <4>3. ToSet(hline) \in SUBSET HashIds
                BY <1>0 DEF HashLined, ToSet
            <4>4. QED
                BY <4>2, <4>3 DEF HLined
        <3>3. /\ HLined' = (HLined \cup {i}) \ S
              /\ \A k \in HashIds \ S : hrun'[k] = IF k \in HRunning THEN hrun[k] ELSE "off"
              /\ \A k \in S : k \in HashIds /\ hrun'[k] = "lookup"
            <4>1. ToSet(Append(hline, i)) \in SUBSET HashIds /\ HRunning \in SUBSET HRunning
                BY <3>2
            <4>2. HLined' = ToSet(Append(hline, i)) \ S
                BY <1>0, <3>1, <4>1, JobMoves
            <4>3. /\ \A k \in HashIds \ S : hrun'[k] = IF k \in HRunning THEN hrun[k] ELSE "off"
                  /\ \A k \in S : k \in HashIds /\ hrun'[k] = "lookup"
                BY <1>0, <3>1, <4>1, JobMoves
            <4>4. QED
                BY <3>2, <4>2, <4>3
        <3>4. S \subseteq HLined \cup {i}
            BY <3>1, <3>2 DEF JobStarted
        <3>5. \A k \in HashIds \ S : hrun'[k] = hrun[k]
            BY <3>3 DEF HRunning
        <3>6. frame[i] = "none" /\ hrun[i] = "off"
            BY <2>1 DEF HashInv, HashStands
        <3>7. \A k \in S : frame[k] = "none"
            BY <3>4, <3>2, <3>6 DEF HashInv, HashStands
        <3>8. post' \in [HashIds -> {"new", "walked", "done"}] /\ post'[i] = "done"
              /\ \A k \in HashIds \ {i} : post'[k] = post[k]
            BY <1>0, <2>1 DEF HashData
        <3>9. \A k \in S : post'[k] = "done"
            BY <3>2, <3>4, <3>8 DEF HashInv, HashStands
        <3>10. CASE j \in S
            BY <2>1, <3>3, <3>7, <3>9, <3>10 DEF HashStands
        <3>11. CASE j \notin S
            BY <1>0, <2>1, <3>3, <3>5, <3>6, <3>8, <3>11 DEF HashStands
        <3>12. QED
            BY <3>10, <3>11
    <2>4. QED
        BY <2>2, <2>3
<1>5. ASSUME NEW i \in HashIds, HashLeave(i) PROVE HashStands(j)'
    <2>1. PICK S : JobStarted(hline, HRunning \ {i}, S)
        BY <1>5, JobLeft
    <2>2. HLined \in SUBSET HashIds
        BY <1>0 DEF HashLined, HLined, ToSet
    <2>3. /\ HLined' = HLined \ S /\ S \subseteq HLined
          /\ \A k \in HashIds \ S : hrun'[k] = IF k \in HRunning \ {i} THEN hrun[k] ELSE "off"
          /\ \A k \in S : k \in HashIds /\ hrun'[k] = "lookup"
        BY <1>0, <2>1, <2>2, JobMoves DEF JobStarted, HLined
    <2>4. UNCHANGED <<post, frame>> /\ hrun[i] = "leave"
        BY <1>5 DEF HashLeave, hashJob
    <2>5. \A k \in HashIds \ S : hrun'[k] = hrun[k] \/ (k = i /\ hrun'[k] = "off")
        BY <2>3 DEF HRunning
    <2>6. \A k \in S : post[k] = "done" /\ frame[k] = "none"
        BY <2>2, <2>3 DEF HashInv, HashStands
    <2>7. CASE j \in S
        BY <2>3, <2>4, <2>6, <2>7 DEF HashStands
    <2>8. CASE j \notin S
        BY <1>0, <2>3, <2>4, <2>5, <2>8 DEF HashStands
    <2>9. QED
        BY <2>7, <2>8
<1>6. ASSUME NEW i \in HashIds, HashCancel(i) PROVE HashStands(j)'
    <2>1. HLined' \subseteq HLined
        <3>1. CASE hline' = hline
            BY <3>1 DEF HLined
        <3>2. CASE hline' # hline
            <4>1. PICK n \in DOMAIN hline : hline' = RemoveAt(hline, n)
                BY <1>6, <3>2 DEF HashCancel
            <4>2. QED
                BY <1>0, <4>1, LeavesLine DEF HashLined, HLined
        <3>3. QED
            BY <3>1, <3>2
    <2>2. QED
        BY <1>1, <1>6, <2>1 DEF HashCancel, hashJob
<1>7. ASSUME HashShutdown PROVE HashStands(j)'
    <2>1. HLined' = {}
        BY <1>7, EmptyHashLine DEF HashShutdown, HLined
    <2>2. QED
        BY <1>1, <1>7, <2>1 DEF HashShutdown, hashJob
<1>8. ASSUME NEW f \in HashFiles, HashTouch(f) PROVE HashStands(j)'
    BY <1>1, <1>8 DEF HashTouch, hashJob, hashLine, HLined
<1>9. ASSUME UNCHANGED hashVars PROVE HashStands(j)'
    BY <1>1, <1>9 DEF hashVars, hashJob, hashLine, HLined
<1>10. ASSUME NEW i \in HashIds, HashDigest(i) PROVE HashStands(j)'
    BY <1>1, <1>10 DEF HashDigest, hashLine, HLined
<1>11. ASSUME NEW i \in HashIds, HashRun(i), ~HashLeave(i), ~HashDigest(i) PROVE HashStands(j)'
    <2>1. /\ hrun[i] \notin {"off", "leave"} /\ UNCHANGED <<post, hline>>
          /\ hrun' = hrun \/ \E to \in {"chunk", "sum", "stream", "keep", "leave"} : hrun' = [hrun EXCEPT ![i] = to]
          /\ \/ frame' = frame
             \/ \E x : frame' = [frame EXCEPT ![i] = x] /\ hrun' = [hrun EXCEPT ![i] = "leave"]
        BY <1>11 DEF HashRun, HashLookup, HashThrow, HashNextChunk, HashSave, HashChunkFails,
                     HashAbsent, HashStream, HashKeep, HashEmit, HMove, hashJob, hashLine
    <2>2. DOMAIN hrun = HashIds /\ DOMAIN frame = HashIds
        BY <1>0 DEF HashData
    <2>3. QED
        BY <1>2, <2>1, <2>2
<1>12. QED
    BY <1>3, <1>4, <1>5, <1>6, <1>7, <1>8, <1>9, <1>10, <1>11 DEF HashNext, HashRun

LEMMA FileSets ==
    ASSUME NEW T \in SUBSET HashFiles
    PROVE  /\ IsFiniteSet(T) /\ Cardinality(T) \in Nat
           /\ \A U \in SUBSET T : /\ Cardinality(U) \in Nat /\ Cardinality(T \ U) \in Nat
                                  /\ Cardinality(U) + Cardinality(T \ U) = Cardinality(T)
           /\ \A f : Cardinality(T \ {f}) \in Nat /\ Cardinality(T) <= Cardinality(T \ {f}) + 1
<1>1. IsFiniteSet(HashFiles)
    BY HashAssumption DEF HashAssumption
<1>2. \A U \in SUBSET HashFiles : IsFiniteSet(U) /\ Cardinality(U) \in Nat
    BY <1>1, FS_Subset, FS_CardinalityType
<1>3. ASSUME NEW U \in SUBSET T
      PROVE  /\ Cardinality(U) \in Nat /\ Cardinality(T \ U) \in Nat
             /\ Cardinality(U) + Cardinality(T \ U) = Cardinality(T)
    <2>1. U \in SUBSET HashFiles /\ T \ U \in SUBSET HashFiles /\ U \cap (T \ U) = {}
          /\ U \cup (T \ U) = T
        OBVIOUS
    <2>2. IsFiniteSet(U) /\ IsFiniteSet(T \ U)
        BY <1>2, <2>1
    <2>3. Cardinality(U \cup (T \ U)) =
            Cardinality(U) + Cardinality(T \ U) - Cardinality(U \cap (T \ U))
        BY <2>2, FS_Union
    <2>4. Cardinality({}) = 0
        BY FS_EmptySet
    <2>5. Cardinality(U) \in Nat /\ Cardinality(T \ U) \in Nat
        BY <1>2, <2>1
    <2>6. Cardinality(T) = Cardinality(U) + Cardinality(T \ U) - 0
        BY <2>1, <2>3, <2>4
    <2>7. QED
        BY <2>5, <2>6
<1>4. ASSUME NEW f
      PROVE  Cardinality(T \ {f}) \in Nat /\ Cardinality(T) <= Cardinality(T \ {f}) + 1
    <2>1. CASE f \in T
        <3>1. Cardinality(T \ {f}) = Cardinality(T) - 1
            BY <1>2, <2>1, FS_RemoveElement
        <3>2. QED
            BY <1>2, <3>1
    <2>2. CASE f \notin T
        <3>1. T \ {f} = T
            BY <2>2
        <3>2. QED
            BY <1>2, <3>1
    <2>3. QED
        BY <2>1, <2>2
<1>5. QED
    BY <1>2, <1>3, <1>4

\* What is in hand of a job is a set of files.
LEMMA HandSets ==
    ASSUME HashSets, NEW j \in HashIds
    PROVE  /\ TargetsOf[j] \in SUBSET HashFiles /\ todoOn[j] \in SUBSET TargetsOf[j]
           /\ chunk[j] \in SUBSET TargetsOf[j] /\ rest[j] \in SUBSET TargetsOf[j]
           /\ \A T \in SUBSET TargetsOf[j] : Cardinality(T) \in Nat
<1>1. TargetsOf[j] \in SUBSET HashFiles
    BY HashAssumption DEF HashAssumption
<1>2. QED
    BY <1>1, FileSets DEF HashSets

\* Nothing of a job is lost, whatever its run comes to.
LEMMA HashCountedStep ==
    ASSUME HashInv, [HashNext]_hashVars, NEW j \in HashIds
    PROVE  HashCounted(j)'
<1>0. /\ HashCounted(j) /\ HashStands(j) /\ HashData
      /\ DOMAIN fresh = HashIds /\ DOMAIN todoOn = HashIds /\ DOMAIN rest = HashIds
      /\ DOMAIN chunk = HashIds /\ DOMAIN frame = HashIds /\ DOMAIN hrun = HashIds
      /\ DOMAIN counts = HashIds
      /\ counts[j].done \in Nat /\ counts[j].failed \in Nat
    BY DEF HashInv, HashData, HashReads, HashSets
<1>00. /\ TargetsOf[j] \in SUBSET HashFiles /\ todoOn[j] \in SUBSET TargetsOf[j]
       /\ chunk[j] \in SUBSET TargetsOf[j] /\ rest[j] \in SUBSET TargetsOf[j]
       /\ \A T \in SUBSET TargetsOf[j] : Cardinality(T) \in Nat
    BY HandSets DEF HashInv
<1>1. CASE /\ todoOn'[j] = todoOn[j] /\ chunk'[j] = chunk[j] /\ fresh'[j] = fresh[j]
           /\ rest'[j] = rest[j] /\ counts'[j] = counts[j]
           /\ frame'[j] = frame[j] \/ frame'[j] # "DONE"
           /\ \/ hrun'[j] = hrun[j] \/ hrun'[j] \in {"off", "lookup", "leave"}
              \/ hrun'[j] = "stream" /\ hrun[j] = "sum"
    BY <1>0, <1>1 DEF HashCounted, Counted
<1>2. CASE HashLookup(j)
    <2> DEFINE cached == {f \in TargetsOf[j] : digestOf[f].at = seen[j][f]}
    <2>1. /\ counts' = [counts EXCEPT ![j].done = Cardinality(cached)]
          /\ rest' = [rest EXCEPT ![j] = TargetsOf[j] \ cached]
          /\ todoOn' = [todoOn EXCEPT ![j] = TargetsOf[j] \ cached]
          /\ hrun' = [hrun EXCEPT ![j] = "chunk"] /\ frame' = frame /\ hrun[j] = "lookup"
        BY <1>2 DEF HashLookup, HMove
    <2>2. cached \in SUBSET TargetsOf[j]
        OBVIOUS
    <2> HIDE DEF cached
    <2>3. /\ Cardinality(cached) + Cardinality(TargetsOf[j] \ cached) = Cardinality(TargetsOf[j])
          /\ Cardinality(cached) \in Nat /\ Cardinality(TargetsOf[j] \ cached) \in Nat
        BY <1>00, <2>2, FileSets
    <2>4. /\ counts'[j].done = Cardinality(cached) /\ counts'[j].failed = counts[j].failed
          /\ rest'[j] = TargetsOf[j] \ cached /\ todoOn'[j] = TargetsOf[j] \ cached
          /\ hrun'[j] = "chunk" /\ frame'[j] = "none"
        BY <1>0, <2>1 DEF HashData, HashStands
    <2>5. QED
        BY <1>0, <2>3, <2>4 DEF HashCounted, Counted
<1>3. CASE HashNextChunk(j)
    <2>1. PICK c \in SUBSET rest[j] : chunk' = [chunk EXCEPT ![j] = c] /\ rest' = [rest EXCEPT ![j] = @ \ c]
        BY <1>3 DEF HashNextChunk
    <2>2. /\ fresh'[j] = [f \in {} |-> 0] /\ hrun'[j] = "sum" /\ hrun[j] = "chunk"
          /\ counts' = counts /\ todoOn' = todoOn /\ frame' = frame
        BY <1>0, <1>3 DEF HashNextChunk, HMove
    <2>3. chunk'[j] = c /\ rest'[j] = rest[j] \ c /\ chunk'[j] \ DOMAIN fresh'[j] = c
        BY <1>0, <2>1, <2>2
    <2>4. /\ Cardinality(c) + Cardinality(rest[j] \ c) = Cardinality(rest[j])
          /\ Cardinality(c) \in Nat /\ Cardinality(rest[j] \ c) \in Nat
        BY <1>00, FileSets
    <2>5. QED
        BY <1>0, <1>00, <2>2, <2>3, <2>4 DEF HashCounted, Counted, HashStands
<1>4. CASE HashDigest(j)
    <2>1. PICK f \in chunk[j] \ DOMAIN fresh[j] :
            fresh' = [fresh EXCEPT ![j] = [g \in DOMAIN @ \cup {f} |-> IF g = f THEN text[f] ELSE @[g]]]
        BY <1>4 DEF HashDigest
    <2> DEFINE open == chunk[j] \ DOMAIN fresh[j]
    <2>2. chunk'[j] \ DOMAIN fresh'[j] = open \ {f}
        BY <1>0, <1>4, <2>1 DEF HashDigest
    <2>3. open \in SUBSET TargetsOf[j]
        BY <1>00
    <2> HIDE DEF open
    <2>4. Cardinality(open \ {f}) \in Nat /\ Cardinality(open) <= Cardinality(open \ {f}) + 1
          /\ Cardinality(open) \in Nat
        BY <1>00, <2>3, FileSets
    <2>5. /\ counts'[j].done = counts[j].done + 1 /\ counts'[j].failed = counts[j].failed
          /\ hrun[j] = "sum" /\ hrun'[j] = "sum" /\ rest' = rest /\ todoOn' = todoOn /\ frame' = frame
        BY <1>0, <1>4 DEF HashDigest, hashLine, HashData
    <2>6. /\ Counted(j, Cardinality(rest[j]) + Cardinality(open))
          /\ Counted(j, Cardinality(todoOn[j])) /\ frame[j] = "none"
        BY <1>0, <2>5 DEF HashCounted, HashStands, open, HashData
    <2>7. /\ Cardinality(rest[j]) \in Nat /\ Cardinality(todoOn[j]) \in Nat
          /\ Cardinality(TargetsOf[j]) \in Nat
        BY <1>00
    <2>8. /\ Counted(j, Cardinality(rest[j]) + Cardinality(chunk[j] \ DOMAIN fresh[j]))'
          /\ Counted(j, Cardinality(todoOn[j]))'
        BY <1>0, <2>2, <2>4, <2>5, <2>6, <2>7 DEF Counted
    <2>9. hrun'[j] = "sum" /\ frame'[j] = "none"
        BY <2>5, <2>6
    <2>10. QED
        BY <2>8, <2>9 DEF HashCounted
<1>5. CASE HashSave(j) \/ HashChunkFails(j)
    <2>1. PICK n \in Nat : /\ counts'[j].done = counts[j].done
                           /\ counts'[j].failed = counts[j].failed + n
                           /\ Cardinality(chunk[j] \ DOMAIN fresh[j]) <= n
        <3>1. /\ Cardinality(chunk[j] \ DOMAIN fresh[j]) \in Nat /\ Cardinality(chunk[j]) \in Nat
              /\ Cardinality(chunk[j] \ DOMAIN fresh[j]) <= Cardinality(chunk[j])
            <4> DEFINE U == chunk[j] \ DOMAIN fresh[j]
            <4>1. U \in SUBSET chunk[j] /\ chunk[j] \in SUBSET HashFiles
                BY <1>00
            <4> HIDE DEF U
            <4>2. /\ Cardinality(U) \in Nat /\ Cardinality(chunk[j] \ U) \in Nat
                  /\ Cardinality(U) + Cardinality(chunk[j] \ U) = Cardinality(chunk[j])
                  /\ Cardinality(chunk[j]) \in Nat
                BY <4>1, FileSets
            <4>3. Cardinality(U) <= Cardinality(chunk[j])
                BY <4>2
            <4>4. QED
                BY <4>2, <4>3 DEF U
        <3>2. CASE HashSave(j)
            BY <1>0, <3>1, <3>2 DEF HashSave, HashData
        <3>3. CASE HashChunkFails(j)
            BY <1>0, <3>1, <3>3 DEF HashChunkFails, HashData
        <3>4. QED
            BY <1>5, <3>2, <3>3
    <2>2. hrun[j] = "sum" /\ hrun'[j] = "chunk" /\ rest' = rest /\ todoOn' = todoOn /\ frame' = frame
        BY <1>0, <1>5 DEF HashSave, HashChunkFails, HMove
    <2>3. Cardinality(rest[j]) \in Nat /\ Cardinality(todoOn[j]) \in Nat
          /\ Cardinality(TargetsOf[j]) \in Nat /\ Cardinality(chunk[j] \ DOMAIN fresh[j]) \in Nat
        BY <1>00
    <2>4. QED
        BY <1>0, <2>1, <2>2, <2>3 DEF HashCounted, Counted, HashStands
<1>6. CASE HashStream(j)
    <2>1. PICK f \in todoOn[j] : todoOn' = [todoOn EXCEPT ![j] = @ \ {f}]
        BY <1>6 DEF HashStream
    <2>2. /\ hrun[j] = "stream" /\ frame' = frame
          /\ \/ hrun'[j] = "keep" /\ counts' = counts
             \/ /\ hrun'[j] = "stream" /\ counts'[j].done = counts[j].done
                /\ counts'[j].failed = counts[j].failed + 1
        BY <1>0, <1>6 DEF HashStream, HMove, hashLine, HashData
    <2>3. /\ Cardinality(todoOn[j] \ {f}) \in Nat /\ Cardinality(todoOn[j]) \in Nat
          /\ Cardinality(todoOn[j]) <= Cardinality(todoOn[j] \ {f}) + 1
          /\ Cardinality(TargetsOf[j]) \in Nat
        BY <1>00, FileSets
    <2>4. todoOn'[j] = todoOn[j] \ {f}
        BY <1>0, <2>1
    <2>5. QED
        BY <1>0, <2>2, <2>3, <2>4 DEF HashCounted, Counted, HashStands
<1>7. CASE HashKeep(j)
    <2>1. /\ counts'[j].done = counts[j].done + 1 /\ counts'[j].failed = counts[j].failed
          /\ hrun[j] = "keep" /\ hrun'[j] = "stream" /\ todoOn' = todoOn /\ frame' = frame
        BY <1>0, <1>7 DEF HashKeep, HMove, HashData
    <2>2. Cardinality(todoOn[j]) \in Nat /\ Cardinality(TargetsOf[j]) \in Nat
        BY <1>00
    <2>3. QED
        BY <1>0, <2>1, <2>2 DEF HashCounted, Counted, HashStands
<1>8. CASE HashEmit(j)
    <2>1. /\ hrun'[j] = "leave" /\ counts' = counts
          /\ frame'[j] = "DONE" => (hrun[j] = "chunk" /\ rest[j] = {}) \/ (hrun[j] = "stream" /\ todoOn[j] = {})
        BY <1>0, <1>8 DEF HashEmit, HMove
    <2>2. Cardinality({}) = 0
        BY FS_EmptySet
    <2>3. QED
        BY <1>0, <2>1, <2>2 DEF HashCounted, Counted
<1>9. CASE HashThrow(j)
    BY <1>0, <1>1, <1>9 DEF HashThrow, HMove
<1>10. CASE HashAbsent(j)
    BY <1>0, <1>1, <1>10 DEF HashAbsent, HMove, hashJob
<1>11. ASSUME NEW i \in HashIds, i # j, HashRun(i), ~HashLeave(i) PROVE HashCounted(j)'
    BY <1>0, <1>1, <1>11 DEF HashRun, HashLookup, HashThrow, HashNextChunk, HashDigest, HashSave,
        HashChunkFails, HashAbsent, HashStream, HashKeep, HashEmit, HMove, hashJob, hashLine
<1>12. ASSUME NEW i \in HashIds, HashLeave(i) PROVE HashCounted(j)'
    <2>1. hrun'[j] = hrun[j] \/ hrun'[j] \in {"off", "lookup"}
        <3>1. PICK S : JobStarted(hline, HRunning \ {i}, S)
            BY <1>12, JobLeft
        <3>2. QED
            BY <3>1 DEF JobStarted
    <2>2. QED
        BY <1>1, <1>12, <2>1 DEF HashLeave, hashJob
<1>13. ASSUME NEW i \in HashIds, HashEnqueue(i) PROVE HashCounted(j)'
    <2>1. hrun'[j] = hrun[j] \/ hrun'[j] \in {"off", "lookup"}
        <3>1. CASE hstop
            BY <1>13, <3>1 DEF HashEnqueue
        <3>2. CASE ~hstop
            <4>1. PICK S : JobStarted(Append(hline, i), HRunning, S)
                BY <1>13, <3>2, JobEntered
            <4>2. QED
                BY <4>1 DEF JobStarted
        <3>3. QED
            BY <3>1, <3>2
    <2>2. QED
        BY <1>1, <1>13, <2>1 DEF HashEnqueue, hashJob
<1>14. ASSUME NEW i \in HashIds, HashWalk(i) \/ HashCancel(i) PROVE HashCounted(j)'
    BY <1>1, <1>14 DEF HashWalk, HashCancel, hashJob, hashLine
<1>15. ASSUME NEW f \in HashFiles, HashTouch(f) PROVE HashCounted(j)'
    BY <1>1, <1>15 DEF HashTouch, hashJob, hashLine
<1>16. ASSUME HashShutdown \/ UNCHANGED hashVars PROVE HashCounted(j)'
    BY <1>1, <1>16 DEF HashShutdown, hashVars, hashJob, hashLine
<1>17. ASSUME HashRun(j), ~HashLeave(j) PROVE HashCounted(j)'
    BY <1>2, <1>3, <1>4, <1>5, <1>6, <1>7, <1>8, <1>9, <1>10, <1>17 DEF HashRun
<1>18. QED
    BY <1>11, <1>12, <1>13, <1>14, <1>15, <1>16, <1>17 DEF HashNext

LEMMA HashStarts == HashInit => HashInv
<1> SUFFICES ASSUME HashInit PROVE HashInv
    OBVIOUS
<1>1. HashData /\ HashSets
    <2>1. text \in [HashFiles -> 1 .. MaxFileWrites + 1] /\ text \in [HashFiles -> Nat]
        BY HashAssumption DEF HashInit, HashAssumption
    <2>2. seen \in [HashIds -> [HashFiles -> Nat]]
        BY <2>1 DEF HashInit
    <2>3. HashData
        BY <2>1, <2>2 DEF HashInit, HashData, NoRow
    <2>4. HashSets
        BY DEF HashInit, HashSets
    <2>5. QED
        BY <2>3, <2>4
<1>2. HashLined /\ HLined = {}
    BY EmptyHashLine DEF HashInit, HashLined, HLined
<1>3. HashReads
    BY DEF HashInit, HashReads, ReadFits
<1>4. HashRows
    BY DEF HashInit, HashRows, NoRow
<1>5. \A j \in HashIds : HashStands(j) /\ HashCounted(j)
    BY <1>2 DEF HashInit, HashStands, HashCounted
<1>6. QED
    BY <1>1, <1>2, <1>3, <1>4, <1>5 DEF HashInv

LEMMA HashStepKeeps == HashInv /\ [HashNext]_hashVars => HashInv'
<1> SUFFICES ASSUME HashInv, [HashNext]_hashVars PROVE HashInv'
    OBVIOUS
<1>1. \A j \in HashIds : HashStands(j)' /\ HashCounted(j)'
    BY HashStandsStep, HashCountedStep
<1>2. QED
    BY <1>1, HashDataStep, HashSetsStep, HashLineStep, HashReadsStep, HashRowsStep DEF HashInv

LEMMA HashAlways == HashSpec => []HashInv
BY HashStarts, HashStepKeeps, PTL DEF HashSpec

LEMMA HashHolds == HashInv => HashTypeOK /\ ShownDigestIsCurrent /\ DoneFrameCovers
<1>1. HashInv => HashTypeOK
    <2> SUFFICES ASSUME HashInv PROVE HashTypeOK
        OBVIOUS
    <2>1. digestOf \in [HashFiles -> [at : 0 .. MaxFileWrites + 1, of : 0 .. MaxFileWrites + 1]]
        <3>1. /\ digestOf \in [HashFiles -> [at : Nat, of : Nat]] /\ text \in [HashFiles -> 1 .. MaxFileWrites + 1]
              /\ MaxFileWrites \in Nat
            BY HashAssumption DEF HashInv, HashData, HashAssumption
        <3>2. \A f \in HashFiles : /\ digestOf[f].at \in 0 .. MaxFileWrites + 1
                                   /\ digestOf[f].of \in 0 .. MaxFileWrites + 1
            BY <3>1 DEF HashInv, HashRows
        <3>3. QED
            BY <3>1, <3>2
    <2>2. \A j \in HashIds : /\ todoOn[j] \cup chunk[j] \cup rest[j] \subseteq TargetsOf[j]
                             /\ DOMAIN fresh[j] \subseteq TargetsOf[j]
        BY DEF HashInv, HashSets, HashReads, ReadFits
    <2>3. QED
        BY <2>1, <2>2 DEF HashInv, HashData, HashLined, HashTypeOK
<1>2. HashInv => ShownDigestIsCurrent
    <2> SUFFICES ASSUME HashInv, NEW f \in HashFiles, digestOf[f].at = text[f]
                 PROVE  digestOf[f].of = text[f]
        BY DEF ShownDigestIsCurrent
    <2>1. digestOf[f].of \in Nat /\ text[f] \in Nat /\ text[f] <= digestOf[f].of /\ digestOf[f].of <= text[f]
        BY DEF HashInv, HashData, HashRows
    <2>2. QED
        BY <2>1
<1>3. HashInv => DoneFrameCovers
    <2> SUFFICES ASSUME HashInv, NEW j \in HashIds, frame[j] = "DONE"
                 PROVE  counts[j].done + counts[j].failed >= Cardinality(TargetsOf[j])
        BY DEF DoneFrameCovers
    <2>1. Counted(j, 0)
        BY DEF HashInv, HashCounted
    <2>2. counts[j].done \in Nat /\ counts[j].failed \in Nat
        BY DEF HashInv, HashData
    <2>3. QED
        BY <2>1, <2>2 DEF Counted
<1>4. QED
    BY <1>1, <1>2, <1>3

\* The type invariant of the checksum jobs: no row is keyed on a time that is
\* still to come.
THEOREM HashTypes == HashSpec => []HashTypeOK
BY HashHolds, HashAlways, PTL

\* HashRunnerService.save and the inspector's look-up: whoever writes a file, and
\* however jobs over it interleave, a digest shown for the time the file has is
\* the digest of what it holds; and a job that says DONE has accounted for every
\* file of its selection, as done or as failed.
THEOREM DigestsAlwaysCurrent == HashSpec => [](ShownDigestIsCurrent /\ DoneFrameCovers)
<1>1. HashInv => ShownDigestIsCurrent /\ DoneFrameCovers
    BY HashHolds
<1>2. QED
    BY <1>1, HashAlways, PTL

-----------------------------------------------------------------------------
(* The jobs' line implements SlotPool, with no machines.                   *)

\* No more runs than slots, and nobody in line while there is one.
HashCaps ==
    /\ Cardinality(HRunning) <= HashInFlight
    /\ HLined # {} => Cardinality(HRunning) = HashInFlight

LEMMA HashCardinality == ASSUME NEW S PROVE HashSlots!Cardinality(S) = Cardinality(S)
BY DEF HashSlots!Cardinality, Cardinality

LEMMA JobSets ==
    ASSUME NEW T \in SUBSET HashIds
    PROVE  /\ IsFiniteSet(T) /\ Cardinality(T) \in Nat
           /\ \A j \in HashIds : j \notin T => Cardinality(T \cup {j}) = Cardinality(T) + 1
           /\ \A j \in T : Cardinality(T \ {j}) = Cardinality(T) - 1
BY HashAssumption, FS_Subset, FS_CardinalityType, FS_AddElement, FS_RemoveElement DEF HashAssumption

NoMachines == [j \in HashIds |-> {}]

\* SlotPool's admission, where a job is on no machine.
JobsAdmitted(ln, busy) ==
    /\ \E S \in SUBSET ln : HLined' = ln \ S /\ HRunning' = busy \cup S
    /\ Cardinality(HRunning') <= HashInFlight
    /\ \A t \in HLined' : ~(Cardinality(HRunning') < HashInFlight)

\* A step of the jobs is a step of SlotPool, or none.
HashSlotStep == HashCaps' /\ [HashSlots!Next]_(HashSlots!slotVars)

LEMMA JobsKeptStep ==
    ASSUME HashCaps, HLined' = HLined, HRunning' = HRunning
    PROVE  HashSlotStep
<1>1. UNCHANGED HashSlots!slotVars
    BY DEF HashSlots!slotVars
<1>2. QED
    BY <1>1 DEF HashSlotStep, HashCaps

\* A pump after a change of the line or of the running map.
LEMMA JobsPumpAdmits ==
    ASSUME HashInv, NEW ln, ToSet(ln) \in SUBSET HashIds, NEW busy \in SUBSET HRunning,
           ToSet(ln) \cap busy = {}, NEW S, JobStarted(ln, busy, S), Cardinality(busy) <= HashInFlight,
           hstop => ToSet(ln) = {},
           ~(Cardinality(busy) >= HashInFlight) => Cardinality(ToSet(ln)) <= 1
               \/ Cardinality(busy) = HashInFlight - 1
    PROVE  HashCaps' /\ JobsAdmitted(ToSet(ln), busy)
<1>1. busy \in SUBSET HashIds /\ S \in SUBSET ToSet(ln)
    BY DEF HRunning, JobStarted
<1>2. HLined' = ToSet(ln) \ S /\ HRunning' = busy \cup S
    <2>1. HLined' = ToSet(ln) \ S
        BY DEF JobStarted, HLined
    <2>2. \A j \in HashIds : hrun'[j] # "off" <=> j \in busy \cup S
        BY DEF JobStarted, HRunning
    <2>3. HRunning' = busy \cup S
        BY <1>1, <2>2 DEF HRunning
    <2>4. QED
        BY <2>1, <2>3
<1>3. Cardinality(busy) \in Nat /\ HashInFlight \in Nat
    BY <1>1, JobSets, HashAssumption DEF HashAssumption
<1>4. CASE S = {} /\ (ToSet(ln) = {} \/ Cardinality(busy) >= HashInFlight)
    <2>1. HLined' = ToSet(ln) /\ HRunning' = busy
        BY <1>2, <1>4
    <2>2. \A t \in HLined' : ~(Cardinality(HRunning') < HashInFlight)
        BY <1>3, <1>4, <2>1
    <2>3. QED
        BY <1>3, <1>4, <2>1, <2>2 DEF HashCaps, JobsAdmitted
<1>5. ASSUME NEW j \in ToSet(ln), S = {j}, ~(Cardinality(busy) >= HashInFlight)
      PROVE  HashCaps' /\ JobsAdmitted(ToSet(ln), busy)
    <2>1. Cardinality(HRunning') = Cardinality(busy) + 1
        <3>1. j \in HashIds /\ j \notin busy
            BY <1>5
        <3>2. Cardinality(busy \cup {j}) = Cardinality(busy) + 1
            BY <1>1, <3>1, JobSets
        <3>3. QED
            BY <1>2, <1>5, <3>2
    <2>2. HLined' # {} => Cardinality(HRunning') = HashInFlight
        <3>1. ASSUME Cardinality(ToSet(ln)) <= 1 PROVE HLined' = {}
            <4>1. Cardinality(ToSet(ln) \ {j}) = Cardinality(ToSet(ln)) - 1
                  /\ Cardinality(ToSet(ln)) \in Nat
                BY <1>5, JobSets
            <4>2. Cardinality(ToSet(ln) \ {j}) = 0 /\ IsFiniteSet(ToSet(ln) \ {j})
                <5>1. ToSet(ln) \ {j} \in SUBSET HashIds
                    OBVIOUS
                <5>2. Cardinality(ToSet(ln) \ {j}) \in Nat /\ IsFiniteSet(ToSet(ln) \ {j})
                    BY <5>1, JobSets
                <5>3. QED
                    BY <3>1, <4>1, <5>2
            <4>3. ToSet(ln) \ {j} = {}
                BY <4>2, FS_EmptySet
            <4>4. QED
                BY <1>2, <1>5, <4>3
        <3>2. QED
            BY <1>3, <1>5, <2>1, <3>1
    <2>3. Cardinality(HRunning') <= HashInFlight
        BY <1>3, <1>5, <2>1
    <2>4. \A t \in HLined' : ~(Cardinality(HRunning') < HashInFlight)
        BY <1>3, <2>1, <2>2
    <2>5. QED
        BY <1>1, <1>2, <2>2, <2>3, <2>4 DEF HashCaps, JobsAdmitted
<1>6. QED
    BY <1>4, <1>5 DEF JobStarted

LEMMA HashEnqueueIsArrival ==
    ASSUME HashInv, HashCaps, NEW j \in HashIds, HashEnqueue(j)
    PROVE  HashSlotStep
<1>0. /\ hline \in Seq(HashIds) /\ IsInjective(hline) /\ HLined \in SUBSET HashIds
      /\ HRunning \in SUBSET HashIds /\ j \notin HLined /\ j \notin HRunning
      /\ HLined \cap HRunning = {}
    <2>1. HLined \in SUBSET HashIds /\ HRunning \in SUBSET HashIds
        BY DEF HashInv, HashLined, HLined, ToSet, HRunning
    <2>2. QED
        BY <2>1 DEF HashInv, HashLined, HashStands, HRunning, HashEnqueue
<1>1. CASE hstop
    BY <1>1, JobsKeptStep DEF HashEnqueue, HLined, HRunning
<1>2. CASE ~hstop
    <2> DEFINE ln == Append(hline, j)
    <2>1. PICK S : JobStarted(ln, HRunning, S)
        BY <1>2, JobEntered
    <2>2. ToSet(ln) = HLined \cup {j}
        BY <1>0, JoinsLine DEF HLined
    <2> HIDE DEF ln
    <2>3. ToSet(ln) \in SUBSET HashIds /\ ToSet(ln) \cap HRunning = {} /\ HRunning \in SUBSET HRunning
        BY <1>0, <2>2
    <2>4. Cardinality(HRunning) <= HashInFlight /\ Cardinality(HRunning) \in Nat /\ HashInFlight \in Nat
        BY <1>0, JobSets, HashAssumption DEF HashCaps, HashAssumption
    <2>5. ~(Cardinality(HRunning) >= HashInFlight) => Cardinality(ToSet(ln)) <= 1
        <3>1. ASSUME ~(Cardinality(HRunning) >= HashInFlight) PROVE Cardinality(ToSet(ln)) <= 1
            <4>1. ToSet(ln) = {j}
                BY <2>2, <2>4, <3>1 DEF HashCaps
            <4>2. Cardinality({j}) = 1
                BY FS_Singleton
            <4>3. QED
                BY <4>1, <4>2
        <3>2. QED
            BY <3>1
    <2>6. HashCaps' /\ JobsAdmitted(ToSet(ln), HRunning)
        BY <1>2, <2>1, <2>3, <2>4, <2>5, JobsPumpAdmits
    <2>7. HashSlots!Admit(HLined \cup {j}, HRunning, [NoMachines EXCEPT ![j] = {}])
        <3>1. [NoMachines EXCEPT ![j] = {}] = NoMachines
            BY DEF NoMachines
        <3>2. \A t \in HLined' : ~HashSlots!Room(t, HRunning', NoMachines)
            BY <2>6, HashCardinality DEF HashSlots!Room, JobsAdmitted
        <3>3. QED
            BY <2>2, <2>6, <3>1, <3>2, HashCardinality DEF HashSlots!Admit, JobsAdmitted, NoMachines
    <2>8. HashSlots!Arrive(j)
        BY <1>0, <2>7 DEF HashSlots!Arrive, NoMachines
    <2>9. QED
        BY <2>6, <2>8 DEF HashSlotStep, HashSlots!Next
<1>3. QED
    BY <1>1, <1>2

LEMMA HashLeaveIsLeave ==
    ASSUME HashInv, HashCaps, NEW j \in HashIds, HashLeave(j)
    PROVE  HashSlotStep
<1> DEFINE busy == HRunning \ {j}
<1>0. /\ HLined \in SUBSET HashIds /\ HRunning \in SUBSET HashIds /\ j \in HRunning
      /\ HLined \cap HRunning = {} /\ HLined = ToSet(hline)
    <2>1. HLined \in SUBSET HashIds /\ HRunning \in SUBSET HashIds
        BY DEF HashInv, HashLined, HLined, ToSet, HRunning
    <2>2. QED
        BY <2>1 DEF HashInv, HashStands, HRunning, HashLeave, HLined
<1>1. PICK S : JobStarted(hline, busy, S)
    BY JobLeft
<1>2. Cardinality(busy) = Cardinality(HRunning) - 1 /\ Cardinality(HRunning) \in Nat
      /\ HashInFlight \in Nat /\ Cardinality(busy) \in Nat /\ busy \in SUBSET HRunning
    <2>1. busy \in SUBSET HashIds
        BY <1>0
    <2>2. QED
        BY <1>0, <2>1, JobSets, HashAssumption DEF HashAssumption
<1>3. hstop => ToSet(hline) = {}
    BY EmptyHashLine DEF HashInv, HashLined
<1>4. ToSet(hline) \cap busy = {} /\ ToSet(hline) \in SUBSET HashIds
    BY <1>0
<1> HIDE DEF busy
<1>5. Cardinality(busy) <= HashInFlight
    BY <1>2 DEF HashCaps
<1>6. Cardinality(ToSet(hline)) <= 1 \/ Cardinality(busy) = HashInFlight - 1
    <2>1. CASE HLined = {}
        <3>1. Cardinality(ToSet(hline)) = 0
            BY <1>0, <2>1, FS_EmptySet
        <3>2. QED
            BY <3>1
    <2>2. CASE HLined # {}
        BY <1>2, <2>2 DEF HashCaps
    <2>3. QED
        BY <2>1, <2>2
<1>7. HashCaps' /\ JobsAdmitted(ToSet(hline), busy)
    BY <1>1, <1>2, <1>3, <1>4, <1>5, <1>6, JobsPumpAdmits
<1>8. HashSlots!Admit(HLined, HRunning \ {j}, NoMachines)
    <2>1. \A t \in HLined' : ~HashSlots!Room(t, HRunning', NoMachines)
        BY <1>7, HashCardinality DEF HashSlots!Room, JobsAdmitted
    <2>2. QED
        BY <1>0, <1>7, <2>1, HashCardinality DEF HashSlots!Admit, JobsAdmitted, NoMachines, busy
<1>9. HashSlots!Leave(j)
    BY <1>0, <1>8 DEF HashSlots!Leave, NoMachines
<1>10. QED
    BY <1>7, <1>9 DEF HashSlotStep, HashSlots!Next

LEMMA HashStepIsSlotStep ==
    ASSUME HashInv, HashCaps, [HashNext]_hashVars
    PROVE  HashSlotStep
<1>1. ASSUME NEW j \in HashIds, HashRun(j), ~HashLeave(j) PROVE HashSlotStep
    <2>1. hline' = hline /\ (hrun' = hrun \/ (hrun[j] # "off" /\ \E to \in {"chunk", "sum", "stream", "keep", "leave"} :
                                                                  hrun' = [hrun EXCEPT ![j] = to]))
        BY <1>1 DEF HashRun, HashLookup, HashThrow, HashNextChunk, HashDigest, HashSave, HashChunkFails,
                    HashAbsent, HashStream, HashKeep, HashEmit, HMove, hashLine
    <2>2. HRunning' = HRunning
        BY <2>1 DEF HashInv, HashData, HRunning
    <2>3. QED
        BY <2>1, <2>2, JobsKeptStep DEF HLined
<1>2. ASSUME NEW j \in HashIds, HashCancel(j) PROVE HashSlotStep
    <2>1. HRunning' = HRunning
        BY <1>2 DEF HashCancel, HRunning
    <2>2. CASE hline' = hline
        BY <2>1, <2>2, JobsKeptStep DEF HLined
    <2>3. CASE hline' # hline
        <3>1. PICK i \in DOMAIN hline : hline[i] = j /\ hline' = RemoveAt(hline, i)
            BY <1>2, <2>3 DEF HashCancel
        <3>2. HLined' = HLined \ {j} /\ j \in HLined
            BY <3>1, LeavesLine DEF HashInv, HashLined, HLined, ToSet
        <3>3. j \notin HRunning
            BY <3>2 DEF HashInv, HashStands, HRunning
        <3>4. HashSlots!Withdraw(j)
            BY <2>1, <3>2, <3>3 DEF HashSlots!Withdraw
        <3>5. HashCaps'
            BY <2>1, <3>2 DEF HashCaps
        <3>6. QED
            BY <3>4, <3>5 DEF HashSlotStep, HashSlots!Next
    <2>4. QED
        BY <2>2, <2>3
<1>3. ASSUME HashShutdown PROVE HashSlotStep
    <2>1. HLined' = {} /\ HRunning' = HRunning
        BY <1>3, EmptyHashLine DEF HashShutdown, HLined, HRunning
    <2>2. HashSlots!Close
        BY <2>1 DEF HashSlots!Close
    <2>3. QED
        BY <2>1, <2>2 DEF HashSlotStep, HashCaps, HashSlots!Next
<1>4. ASSUME NEW j \in HashIds, HashWalk(j) PROVE HashSlotStep
    BY <1>4, JobsKeptStep DEF HashWalk, hashLine, HLined, HRunning
<1>5. ASSUME NEW f \in HashFiles, HashTouch(f) PROVE HashSlotStep
    BY <1>5, JobsKeptStep DEF HashTouch, hashLine, HLined, HRunning
<1>6. ASSUME UNCHANGED hashVars PROVE HashSlotStep
    BY <1>6, JobsKeptStep DEF hashVars, hashLine, HLined, HRunning
<1>7. QED
    BY <1>1, <1>2, <1>3, <1>4, <1>5, <1>6, HashEnqueueIsArrival, HashLeaveIsLeave DEF HashNext, HashRun

\* The checksum jobs' queue implements SlotPool, for any jobs and slots: no more
\* jobs than slots run at once, and none waits while there is a slot.
THEOREM HashQueueRefinesSlotPool == HashSpec => HashQueueRefines
<1>1. HashInit => HashCaps /\ HashSlots!Init
    <2> SUFFICES ASSUME HashInit PROVE HashCaps /\ HashSlots!Init
        OBVIOUS
    <2>1. HLined = {} /\ HRunning = {}
        BY EmptyHashLine DEF HashInit, HLined, HRunning
    <2>2. Cardinality({}) = 0 /\ HashInFlight \in Nat
        BY FS_EmptySet, HashAssumption DEF HashAssumption
    <2>3. QED
        BY <2>1, <2>2 DEF HashCaps, HashSlots!Init
<1>2. HashInv /\ HashCaps /\ [HashNext]_hashVars
        => HashCaps' /\ [HashSlots!Next]_(HashSlots!slotVars)
    BY HashStepIsSlotStep DEF HashSlotStep
<1>3. QED
    BY <1>1, <1>2, HashAlways, PTL DEF HashSpec, HashQueueRefines, HashSlots!Spec

-----------------------------------------------------------------------------
(* The sizes of a listing.                                                 *)

Walks == [dir : Dirs, rung : Rungs, niced : BOOLEAN, elevated : BOOLEAN]

\* What a walk may come to is told as it is.
TrueFrame(f) ==
    /\ f.answer \in {"whole", "floor"} /\ f.unit = 1 => remote.flags
    /\ f.answer = "whole" => Readable[f.dir] = "whole" \/ remote.sudo

\* A directory the cursor has passed is walked or told, once.
SizeInv ==
    /\ SizeTypeOK
    /\ frames \in Seq([dir : Dirs, answer : {"whole", "floor", "error", "thrown"}, unit : Nat])
    /\ rungs.index = 2 => \A w \in Workers : walk[w] = NoWalk
    /\ \A w \in Workers : walk[w] # NoWalk => walk[w].dir <= cursor
    /\ \A i \in DOMAIN frames : frames[i].dir <= cursor /\ TrueFrame(frames[i])
    /\ \A i, j \in DOMAIN frames : frames[i].dir = frames[j].dir => i = j
    /\ \A v, w \in Workers : walk[v] # NoWalk /\ walk[w] # NoWalk /\ walk[v].dir = walk[w].dir => v = w
    /\ \A i \in DOMAIN frames, w \in Workers : walk[w] # NoWalk => walk[w].dir # frames[i].dir
    /\ ~aborted => \A d \in 1 .. cursor : \/ \E i \in DOMAIN frames : frames[i].dir = d
                                          \/ \E w \in Workers : walk[w] # NoWalk /\ walk[w].dir = d

LEMMA SizeConsts ==
    /\ Cardinality(Dirs) \in Nat /\ Dirs = 1 .. Cardinality(Dirs) /\ Dirs \subseteq Nat /\ 0 \notin Dirs
    /\ \A d \in Dirs : Readable[d] \in Sight
<1>1. IsFiniteSet(Dirs) /\ Dirs = 1 .. Cardinality(Dirs) /\ Readable \in [Dirs -> Sight]
    BY SizeAssumption
<1>2. Cardinality(Dirs) \in Nat
    BY <1>1, FS_CardinalityType
<1> DEFINE n == Cardinality(Dirs)
<1>3. n \in Nat /\ Dirs = 1 .. n
    BY <1>1, <1>2
<1> HIDE DEF n
<1>4. Dirs \subseteq Nat /\ 0 \notin Dirs
    BY <1>3
<1>5. QED
    BY <1>1, <1>2, <1>4

\* A walk is no NoWalk.
LEMMA WalksWalk == \A k \in Walks : k # NoWalk
<1> SUFFICES ASSUME NEW k \in Walks, k = NoWalk PROVE FALSE
    OBVIOUS
<1>1. k.dir \in Dirs /\ NoWalk.dir = 0
    BY DEF Walks, NoWalk
<1>2. QED
    BY <1>1, SizeConsts

LEMMA SizeStart == SizeInit => SizeInv
<1> SUFFICES ASSUME SizeInit PROVE SizeInv
    OBVIOUS
<1>1. SizeTypeOK
    <2>1. rungs \in [index : 0 .. 2, niced : BOOLEAN, elevate : BOOLEAN]
        BY DEF SizeInit
    <2>2. 0 \in 0 .. Cardinality(Dirs)
        BY SizeConsts
    <2>3. QED
        BY <2>1, <2>2 DEF SizeInit, SizeTypeOK
<1>2. frames = <<>> /\ cursor = 0 /\ walk = [w \in Workers |-> NoWalk]
    BY DEF SizeInit
<1>3. QED
    BY <1>1, <1>2 DEF SizeInv

\* A walk is over, with a frame or without.
LEMMA WalkEnds ==
    ASSUME SizeInv, NEW w \in Workers, walk[w] # NoWalk, walk' = [walk EXCEPT ![w] = NoWalk],
           UNCHANGED <<remote, probed, window, rungs, cursor, aborted>>,
           \/ aborted /\ left' = left \cup {w} /\ frames' = frames
           \/ /\ left' = left
              /\ \E a \in {"whole", "floor", "error", "thrown"}, u \in Nat :
                    LET f == [dir |-> walk[w].dir, answer |-> a, unit |-> u]
                    IN  frames' = Append(frames, f) /\ TrueFrame(f)
    PROVE  SizeInv'
<1>1. /\ walk \in [Workers -> {NoWalk} \cup Walks] /\ left \subseteq Workers
      /\ cursor \in 0 .. Cardinality(Dirs)
    BY DEF SizeInv, SizeTypeOK, Walks
<1>2. walk[w] \in Walks /\ walk[w].dir \in Dirs
    BY <1>1 DEF Walks
<1>3. SizeTypeOK'
    <2>1. walk' \in [Workers -> {NoWalk} \cup Walks] /\ left' \subseteq Workers
        BY <1>1
    <2>2. QED
        BY <2>1 DEF SizeInv, SizeTypeOK, Walks
<1>4. /\ \A v \in Workers : walk'[v] = IF v = w THEN NoWalk ELSE walk[v]
    BY <1>1
<1>5. CASE aborted /\ frames' = frames
    BY <1>3, <1>4, <1>5 DEF SizeInv, TrueFrame
<1>6. CASE \E a \in {"whole", "floor", "error", "thrown"}, u \in Nat :
              LET f == [dir |-> walk[w].dir, answer |-> a, unit |-> u]
              IN  frames' = Append(frames, f) /\ TrueFrame(f)
    <2>1. PICK a \in {"whole", "floor", "error", "thrown"}, u \in Nat :
              LET f == [dir |-> walk[w].dir, answer |-> a, unit |-> u]
              IN  frames' = Append(frames, f) /\ TrueFrame(f)
        BY <1>6
    <2> DEFINE F == [dir : Dirs, answer : {"whole", "floor", "error", "thrown"}, unit : Nat]
               f == [dir |-> walk[w].dir, answer |-> a, unit |-> u]
               n == Len(frames)
    <2>2. f \in F /\ f.dir = walk[w].dir /\ frames' = Append(frames, f) /\ TrueFrame(f)
        BY <1>2, <2>1
    <2>3. frames \in Seq(F) /\ n \in Nat /\ DOMAIN frames = 1 .. n
        BY DEF SizeInv
    <2> HIDE DEF F, f, n
    <2>4. /\ frames' \in Seq(F) /\ DOMAIN frames' = 1 .. n + 1
          /\ \A i \in 1 .. n : frames'[i] = frames[i]
          /\ frames'[n + 1] = f
        <3>1. frames' = Append(frames, f) /\ f \in F /\ frames \in Seq(F) /\ n = Len(frames)
            BY <2>2, <2>3 DEF n
        <3>2. frames' \in Seq(F) /\ Len(frames') = Len(frames) + 1
            BY ONLY <3>1
        <3>3. DOMAIN frames' = 1 .. n + 1
            BY ONLY <3>1, <3>2
        <3>4. \A i \in 1 .. n : frames'[i] = frames[i]
            BY ONLY <3>1
        <3>5. frames'[n + 1] = f
            BY ONLY <3>1
        <3>6. QED
            BY ONLY <3>2, <3>3, <3>4, <3>5
    <2>5. /\ walk[w].dir <= cursor
          /\ \A i \in 1 .. n : frames[i].dir <= cursor /\ TrueFrame(frames[i]) /\ frames[i].dir # walk[w].dir
          /\ \A i, j \in 1 .. n : frames[i].dir = frames[j].dir => i = j
        BY <2>3 DEF SizeInv
    <2>6. \A i \in DOMAIN frames' : (i \in 1 .. n /\ frames'[i] = frames[i]) \/ (i = n + 1 /\ frames'[i] = f)
        BY <2>3, <2>4
    <2>7. ASSUME NEW i \in DOMAIN frames' PROVE frames'[i].dir <= cursor' /\ TrueFrame(frames[i])'
        <3>1. frames'[i].dir <= cursor' /\ TrueFrame(frames'[i])
            BY <2>2, <2>5, <2>6
        <3>2. QED
            BY <3>1 DEF TrueFrame
    <2>8. \A i, j \in DOMAIN frames' : frames'[i].dir = frames'[j].dir => i = j
        BY <2>2, <2>5, <2>6
    <2>9. \A i \in DOMAIN frames', v \in Workers : walk'[v] # NoWalk => walk'[v].dir # frames'[i].dir
        BY <1>4, <2>2, <2>3, <2>6 DEF SizeInv
    <2>10. ~aborted' => \A d \in 1 .. cursor' : \/ \E i \in DOMAIN frames' : frames'[i].dir = d
                                                \/ \E v \in Workers : walk'[v] # NoWalk /\ walk'[v].dir = d
        <3> SUFFICES ASSUME ~aborted, NEW d \in 1 .. cursor
                     PROVE  \/ \E i \in DOMAIN frames' : frames'[i].dir = d
                            \/ \E v \in Workers : walk'[v] # NoWalk /\ walk'[v].dir = d
            OBVIOUS
        <3>1. n + 1 \in DOMAIN frames' /\ \A i \in 1 .. n : i \in DOMAIN frames'
            BY <2>3, <2>4
        <3>2. CASE \E i \in DOMAIN frames : frames[i].dir = d
            BY <2>3, <2>4, <3>1, <3>2
        <3>3. CASE \E v \in Workers : walk[v] # NoWalk /\ walk[v].dir = d
            BY <1>4, <2>2, <2>4, <3>1, <3>3
        <3>4. QED
            BY <3>2, <3>3 DEF SizeInv
    <2>11. /\ rungs'.index = 2 => \A v \in Workers : walk'[v] = NoWalk
           /\ \A v \in Workers : walk'[v] # NoWalk => walk'[v].dir <= cursor'
           /\ \A y, v \in Workers : walk'[y] # NoWalk /\ walk'[v] # NoWalk /\ walk'[y].dir = walk'[v].dir => y = v
        BY <1>4 DEF SizeInv
    <2>12. frames' \in Seq([dir : Dirs, answer : {"whole", "floor", "error", "thrown"}, unit : Nat])
        BY <2>4 DEF F
    <2>13. QED
        BY <1>3, <2>7, <2>8, <2>9, <2>10, <2>11, <2>12 DEF SizeInv
<1>7. QED
    BY <1>5, <1>6

\* A worker is in a walk: of the next directory, or another try of its own.
LEMMA WalkBegins ==
    ASSUME SizeInv, NEW w \in Workers, NEW k \in Walks, walk' = [walk EXCEPT ![w] = k],
           \/ walk[w] = NoWalk /\ k.dir = cursor + 1 /\ cursor' = cursor + 1
           \/ walk[w] # NoWalk /\ k.dir = walk[w].dir /\ cursor' = cursor,
           rungs' \in [index : Rungs, niced : BOOLEAN, elevate : BOOLEAN],
           UNCHANGED <<remote, probed, window, frames, left, aborted>>
    PROVE  SizeInv'
<1>1. /\ walk \in [Workers -> {NoWalk} \cup Walks]
      /\ cursor \in 0 .. Cardinality(Dirs) /\ cursor \in Nat /\ Cardinality(Dirs) \in Nat
    BY SizeConsts DEF SizeInv, SizeTypeOK, Walks
<1>2. k.dir \in Dirs /\ k # NoWalk
    BY WalksWalk DEF Walks
<1>3. cursor' \in 0 .. Cardinality(Dirs) /\ cursor <= cursor' /\ k.dir <= cursor' /\ cursor' \in Nat
    <2>1. CASE cursor' = cursor
        BY <1>1, <2>1 DEF SizeInv
    <2>2. CASE k.dir = cursor + 1 /\ cursor' = cursor + 1
        BY <1>1, <1>2, <2>2, SizeConsts
    <2>3. QED
        BY <2>1, <2>2
<1>4. SizeTypeOK'
    <2>1. walk' \in [Workers -> {NoWalk} \cup Walks]
        BY <1>1
    <2>2. rungs' \in [index : 0 .. 2, niced : BOOLEAN, elevate : BOOLEAN]
        BY DEF Rungs
    <2>3. QED
        BY <1>3, <2>1, <2>2 DEF SizeInv, SizeTypeOK, Walks
<1>5. \A v \in Workers : walk'[v] = IF v = w THEN k ELSE walk[v]
    BY <1>1
<1>6. /\ \A i \in DOMAIN frames : frames[i].dir \in Nat /\ frames[i].dir <= cursor
      /\ \A v \in Workers : walk[v] # NoWalk => walk[v].dir \in Nat /\ walk[v].dir <= cursor
    <2>1. \A v \in Workers : walk[v] # NoWalk => walk[v].dir \in Dirs
        BY <1>1 DEF Walks
    <2> DEFINE F == [dir : Dirs, answer : {"whole", "floor", "error", "thrown"}, unit : Nat]
    <2>5. frames \in Seq(F)
        BY DEF SizeInv
    <2> HIDE DEF F
    <2>6. \A i \in DOMAIN frames : frames[i] \in F
        BY <2>5
    <2>2. \A i \in DOMAIN frames : frames[i] \in [dir : Dirs, answer : {"whole", "floor", "error", "thrown"}, unit : Nat]
        BY <2>6 DEF F
    <2>3. \A i \in DOMAIN frames : frames[i].dir \in Dirs
        BY <2>2
    <2>4. QED
        BY <2>1, <2>3, SizeConsts DEF SizeInv
<1>7. /\ \A i \in DOMAIN frames : frames[i].dir # k.dir
      /\ \A v \in Workers \ {w} : walk[v] # NoWalk => walk[v].dir # k.dir
    <2>1. CASE walk[w] = NoWalk /\ k.dir = cursor + 1
        BY <1>1, <1>6, <2>1
    <2>2. CASE walk[w] # NoWalk /\ k.dir = walk[w].dir
        BY <2>2 DEF SizeInv
    <2>3. QED
        BY <2>1, <2>2
<1>8. rungs'.index # 2
    BY DEF Rungs
<1>9. \A v \in Workers : walk'[v] # NoWalk => walk'[v].dir <= cursor'
    BY <1>1, <1>3, <1>5, <1>6
<1>10. \A i \in DOMAIN frames : frames[i].dir <= cursor' /\ TrueFrame(frames[i])'
    BY <1>1, <1>3, <1>6 DEF SizeInv, TrueFrame
<1>11. \A u, v \in Workers : walk'[u] # NoWalk /\ walk'[v] # NoWalk /\ walk'[u].dir = walk'[v].dir => u = v
    BY <1>5, <1>7 DEF SizeInv
<1>12. \A i \in DOMAIN frames, v \in Workers : walk'[v] # NoWalk => walk'[v].dir # frames[i].dir
    BY <1>5, <1>7 DEF SizeInv
<1>13. ~aborted => \A d \in 1 .. cursor' : \/ \E i \in DOMAIN frames : frames[i].dir = d
                                           \/ \E v \in Workers : walk'[v] # NoWalk /\ walk'[v].dir = d
    <2> SUFFICES ASSUME ~aborted, NEW d \in 1 .. cursor'
                 PROVE  \/ \E i \in DOMAIN frames : frames[i].dir = d
                        \/ \E v \in Workers : walk'[v] # NoWalk /\ walk'[v].dir = d
        OBVIOUS
    <2>1. CASE d = k.dir
        BY <1>2, <1>5, <2>1
    <2>2. CASE d # k.dir
        <3>1. d \in 1 .. cursor
            BY <1>1, <1>3, <2>2
        <3>2. CASE \E i \in DOMAIN frames : frames[i].dir = d
            BY <3>2
        <3>3. CASE \E v \in Workers : walk[v] # NoWalk /\ walk[v].dir = d
            <4>1. PICK v \in Workers : walk[v] # NoWalk /\ walk[v].dir = d
                BY <3>3
            <4>2. v # w
                BY <2>2, <4>1
            <4>3. QED
                BY <1>5, <4>1, <4>2
        <3>4. QED
            BY <3>1, <3>2, <3>3 DEF SizeInv
    <2>3. QED
        BY <2>1, <2>2
<1>14. QED
    BY <1>4, <1>8, <1>9, <1>10, <1>11, <1>12, <1>13 DEF SizeInv

\* What is asked of a walk is what `rungs` says now.
LEMMA WalkIsAWalk ==
    ASSUME SizeInv, rungs.index \in Rungs, NEW d \in Dirs
    PROVE  /\ Walk(d) \in Walks /\ [Walk(d) EXCEPT !.niced = FALSE] \in Walks
           /\ [Walk(d) EXCEPT !.elevated = FALSE] \in Walks /\ [Walk(d) EXCEPT !.rung = 1] \in Walks
<1>1. rungs.niced \in BOOLEAN /\ rungs.elevate \in BOOLEAN /\ window \in BOOLEAN
    BY DEF SizeInv, SizeTypeOK
<1>2. (rungs.elevate /\ window) \in BOOLEAN
    OBVIOUS
<1>3. Walk(d) \in Walks
    BY <1>1, <1>2 DEF Walk, Walks
<1> DEFINE k == Walk(d)
<1> HIDE DEF k
<1>4. k \in Walks
    BY <1>3 DEF k
<1>5. [k EXCEPT !.niced = FALSE] \in Walks /\ [k EXCEPT !.elevated = FALSE] \in Walks
    BY <1>4 DEF Walks
<1>6. [k EXCEPT !.rung = 1] \in Walks
    BY <1>4 DEF Walks, Rungs
<1>7. QED
    BY <1>4, <1>5, <1>6 DEF k

LEMMA SizeKeeps == SizeInv /\ [SizeNext]_sizeVars => SizeInv'
<1> SUFFICES ASSUME SizeInv, [SizeNext]_sizeVars PROVE SizeInv'
    OBVIOUS
<1>1. /\ walk \in [Workers -> {NoWalk} \cup Walks] /\ left \subseteq Workers
      /\ rungs \in [index : 0 .. 2, niced : BOOLEAN, elevate : BOOLEAN]
    BY DEF SizeInv, SizeTypeOK, Walks
<1>2. CASE SizeOpen
    <2>1. /\ rungs' \in [index : 0 .. 2, niced : BOOLEAN, elevate : BOOLEAN]
          /\ probed' \in BOOLEAN /\ rungs'.index # 2
          /\ UNCHANGED <<remote, window, cursor, walk, frames, left, aborted>>
        BY <1>1, <1>2 DEF SizeOpen
    <2>2. SizeTypeOK'
        BY <2>1 DEF SizeInv, SizeTypeOK
    <2>3. QED
        BY <2>1, <2>2 DEF SizeInv, TrueFrame
<1>3. CASE SizeCancel
    BY <1>3 DEF SizeInv, SizeTypeOK, TrueFrame, SizeCancel
<1>4. CASE SizeWindow
    BY <1>4 DEF SizeInv, SizeTypeOK, TrueFrame, SizeWindow
<1>5. ASSUME NEW w \in Workers, SizeTake(w) PROVE SizeInv'
    <2>1. CASE aborted \/ cursor + 1 \notin Dirs
        <3>1. left' = left \cup {w} /\ UNCHANGED <<remote, probed, window, rungs, cursor, walk, frames, aborted>>
            BY <1>5, <2>1 DEF SizeTake
        <3>2. QED
            BY <1>1, <3>1 DEF SizeInv, SizeTypeOK, TrueFrame
    <2>2. CASE ~(aborted \/ cursor + 1 \notin Dirs)
        <3>1. /\ cursor' = cursor + 1 /\ walk' = [walk EXCEPT ![w] = Walk(cursor + 1)]
              /\ UNCHANGED <<remote, probed, window, rungs, frames, left, aborted>>
              /\ walk[w] = NoWalk /\ rungs.index \in Rungs /\ cursor + 1 \in Dirs
            BY <1>5, <2>2 DEF SizeTake
        <3>2. Walk(cursor + 1) \in Walks
            BY <3>1, WalkIsAWalk
        <3>3. Walk(cursor + 1).dir = cursor + 1
            BY DEF Walk
        <3>4. rungs' \in [index : Rungs, niced : BOOLEAN, elevate : BOOLEAN]
            BY <1>1, <3>1
        <3>5. QED
            BY <3>1, <3>2, <3>3, <3>4, WalkBegins
    <2>3. QED
        BY <2>1, <2>2
<1>6. ASSUME NEW w \in Workers, walk[w] # NoWalk
      PROVE  walk[w] \in Walks /\ walk[w].dir \in Dirs /\ rungs.index \in Rungs /\ walk[w].rung \in Rungs
    BY <1>1, <1>6 DEF SizeInv, Walks, Rungs
<1>7. ASSUME NEW w \in Workers, SizeThrow(w) PROVE SizeInv'
    <2>1. walk[w] # NoWalk /\ walk' = [walk EXCEPT ![w] = NoWalk] /\ UNCHANGED <<remote, probed, window, rungs, cursor, aborted>>
        BY <1>7 DEF SizeThrow
    <2>2. TrueFrame([dir |-> walk[w].dir, answer |-> "thrown", unit |-> 0])
        BY DEF TrueFrame
    <2>3. CASE ~aborted /\ Emit(walk[w].dir, "thrown", 0) /\ UNCHANGED left
        BY <2>1, <2>2, <2>3, WalkEnds DEF Emit
    <2>4. CASE aborted /\ left' = left \cup {w} /\ UNCHANGED frames
        BY <2>1, <2>4, WalkEnds
    <2>5. QED
        BY <1>7, <2>3, <2>4 DEF SizeThrow
<1>8. ASSUME NEW w \in Workers, SizeSettle(w) PROVE SizeInv'
    <2> DEFINE k == walk[w]
               o == Outcome(k)
               again == /\ \/ rungs' = [rungs EXCEPT !.niced = FALSE] /\ walk' = [walk EXCEPT ![w] = [Walk(k.dir) EXCEPT !.niced = FALSE]]
                           \/ rungs' = [rungs EXCEPT !.elevate = FALSE] /\ walk' = [walk EXCEPT ![w] = [Walk(k.dir) EXCEPT !.elevated = FALSE]]
                           \/ rungs' = [rungs EXCEPT !.index = 1] /\ walk' = [walk EXCEPT ![w] = [Walk(k.dir) EXCEPT !.rung = 1]]
                        /\ UNCHANGED <<frames, left>>
               said == /\ Emit(k.dir, IF o \notin {"whole", "floor"} THEN "error" ELSE o, UnitOf(k.rung))
                       /\ walk' = [walk EXCEPT ![w] = NoWalk] /\ UNCHANGED <<rungs, left>>
    <2>1. /\ k # NoWalk /\ UNCHANGED <<remote, probed, window, cursor, aborted>>
          /\ \/ aborted /\ walk' = [walk EXCEPT ![w] = NoWalk] /\ left' = left \cup {w} /\ UNCHANGED <<rungs, frames>>
             \/ again
             \/ said
        BY <1>8 DEF SizeSettle
    <2>2. k \in Walks /\ k.dir \in Dirs /\ rungs.index \in Rungs /\ k.rung \in Rungs
        BY <1>6, <2>1
    <2>3. CASE aborted /\ walk' = [walk EXCEPT ![w] = NoWalk] /\ left' = left \cup {w} /\ UNCHANGED <<rungs, frames>>
        BY <2>1, <2>3, WalkEnds
    <2>4. CASE again
        <3>1. rungs' \in [index : Rungs, niced : BOOLEAN, elevate : BOOLEAN]
            BY <1>1, <2>2, <2>4 DEF Rungs
        <3>2. PICK b \in Walks : walk' = [walk EXCEPT ![w] = b] /\ b.dir = k.dir
            <4> DEFINE c == Walk(k.dir)
            <4>1. /\ c \in Walks /\ [c EXCEPT !.niced = FALSE] \in Walks
                  /\ [c EXCEPT !.elevated = FALSE] \in Walks /\ [c EXCEPT !.rung = 1] \in Walks
                BY <2>2, WalkIsAWalk
            <4>2. c.dir = k.dir
                BY DEF Walk
            <4>3. \/ walk' = [walk EXCEPT ![w] = [c EXCEPT !.niced = FALSE]]
                  \/ walk' = [walk EXCEPT ![w] = [c EXCEPT !.elevated = FALSE]]
                  \/ walk' = [walk EXCEPT ![w] = [c EXCEPT !.rung = 1]]
                BY <2>4
            <4> HIDE DEF c, again, said, o, k
            <4>4. /\ [c EXCEPT !.niced = FALSE].dir = c.dir /\ [c EXCEPT !.elevated = FALSE].dir = c.dir
                  /\ [c EXCEPT !.rung = 1].dir = c.dir
                BY <4>1 DEF Walks
            <4>5. QED
                BY <4>1, <4>2, <4>3, <4>4
        <3>3. cursor' = cursor /\ UNCHANGED <<remote, probed, window, frames, left, aborted>>
            BY <2>1, <2>4
        <3> HIDE DEF again, said, o
        <3>4. QED
            BY <2>1, <3>1, <3>2, <3>3, WalkBegins
    <2>5. CASE said
        <3> DEFINE a == IF o \notin {"whole", "floor"} THEN "error" ELSE o
                   u == UnitOf(k.rung)
                   f == [dir |-> k.dir, answer |-> a, unit |-> u]
        <3>1. a \in {"whole", "floor", "error", "thrown"} /\ (a \in {"whole", "floor"} => a = o)
            OBVIOUS
        <3>2. u \in Nat /\ (u = 1 => k.rung = 0)
            BY <2>2 DEF UnitOf, Rungs
        <3>3. Readable[k.dir] \in Sight
            BY <2>2, SizeConsts
        <3>4. TrueFrame(f)
            <4>1. a \in {"whole", "floor"} /\ u = 1 => remote.flags
                BY <3>1, <3>2 DEF Outcome
            <4>2. a = "whole" => Readable[k.dir] = "whole" \/ remote.sudo
                BY <3>1 DEF Outcome
            <4>3. f.dir = k.dir /\ f.answer = a /\ f.unit = u
                OBVIOUS
            <4> HIDE DEF a, u, f, k, o
            <4>4. QED
                BY <4>1, <4>2, <4>3 DEF TrueFrame
        <3>5. frames' = Append(frames, f) /\ left' = left /\ walk' = [walk EXCEPT ![w] = NoWalk] /\ rungs' = rungs
            BY <2>5 DEF Emit
        <3> HIDE DEF a, u, o, again, said
        <3>6. QED
            BY <2>1, <3>1, <3>2, <3>4, <3>5, WalkEnds
    <2>6. QED
        BY <2>1, <2>3, <2>4, <2>5
<1>9. CASE UNCHANGED sizeVars
    BY <1>9 DEF SizeInv, SizeTypeOK, TrueFrame, sizeVars
<1>10. QED
    BY <1>2, <1>3, <1>4, <1>5, <1>7, <1>8, <1>9 DEF SizeNext

\* One, or none.
LEMMA OneOrNone ==
    ASSUME NEW S, \A x, y \in S : x = y
    PROVE  Cardinality(S) = IF S = {} THEN 0 ELSE 1
<1>1. CASE S = {}
    BY <1>1, FS_EmptySet
<1>2. CASE S # {}
    <2>1. PICK x \in S : TRUE
        BY <1>2
    <2>2. S = {x}
        BY <2>1
    <2>3. QED
        BY <1>2, <2>2, FS_Singleton
<1>3. QED
    BY <1>1, <1>2

LEMMA SizeHolds == SizeInv => SizeTypeOK /\ EachAnsweredOnce /\ FiguresAreTrue
<1> SUFFICES ASSUME SizeInv PROVE EachAnsweredOnce /\ FiguresAreTrue
    BY DEF SizeInv
<1>1. FiguresAreTrue
    BY DEF SizeInv, FiguresAreTrue, TrueFrame
<1>2. ASSUME NEW d \in Dirs
      PROVE  LET said == Cardinality({i \in DOMAIN frames : frames[i].dir = d})
                 busy == Cardinality({w \in Workers : walk[w].dir = d})
             IN  /\ said + busy <= (IF d <= cursor THEN 1 ELSE 0)
                 /\ ~aborted => said + busy = (IF d <= cursor THEN 1 ELSE 0)
    <2> DEFINE I == {i \in DOMAIN frames : frames[i].dir = d}
               W == {w \in Workers : walk[w].dir = d}
    <2>1. d \in Nat /\ d # 0 /\ d >= 1 /\ cursor \in Nat
        BY SizeConsts DEF SizeInv, SizeTypeOK
    <2>2. \A w \in W : walk[w] # NoWalk
        BY <2>1 DEF NoWalk
    <2>3. /\ \A x, y \in I : x = y
          /\ \A x, y \in W : x = y
          /\ I = {} \/ W = {}
          /\ d <= cursor \/ (I = {} /\ W = {})
        BY <2>1, <2>2 DEF SizeInv
    <2>4. ~aborted /\ d <= cursor => I # {} \/ W # {}
        <3>1. d <= cursor => d \in 1 .. cursor
            BY <2>1
        <3>2. QED
            BY <3>1 DEF SizeInv
    <2> HIDE DEF I, W
    <2>5. /\ Cardinality(I) = (IF I = {} THEN 0 ELSE 1)
          /\ Cardinality(W) = (IF W = {} THEN 0 ELSE 1)
        BY <2>3, OneOrNone
    <2>6. /\ Cardinality(I) + Cardinality(W) <= (IF d <= cursor THEN 1 ELSE 0)
          /\ ~aborted => Cardinality(I) + Cardinality(W) = (IF d <= cursor THEN 1 ELSE 0)
        BY <2>3, <2>4, <2>5
    <2>7. QED
        BY <2>6 DEF I, W
<1>3. EachAnsweredOnce
    BY <1>2 DEF EachAnsweredOnce
<1>4. QED
    BY <1>1, <1>3

\* DirSizeService: every directory the cursor has passed has one frame or one
\* worker, and a figure is in the unit its walk was asked for and whole only where
\* du saw the whole, whatever walks were tried again and whoever learnt of it.
THEOREM SizesAlwaysTrue == SizeSpec => [](EachAnsweredOnce /\ FiguresAreTrue)
<1>1. SizeInv => EachAnsweredOnce /\ FiguresAreTrue
    BY SizeHolds
<1>2. QED
    BY <1>1, SizeStart, SizeKeeps, PTL DEF SizeSpec
-----------------------------------------------------------------------------
(* Sums.                                                                   *)

\* Whichever member a sum takes first.
FirstOf(s) == CHOOSE x \in s : TRUE

\* h is the sum of g over the subsets of S, one member at a time.
Iterates(S, g, h) ==
    h = [s \in SUBSET S |-> IF s = {} THEN 0 ELSE g[FirstOf(s)] + h[s \ {FirstOf(s)}]]

LEMMA FirstIn == ASSUME NEW s, s # {} PROVE FirstOf(s) \in s
BY DEF FirstOf

\* A nonempty set of subsets of a finite set has one no other is smaller than.
LEMMA LeastSubset ==
    ASSUME NEW S, IsFiniteSet(S), NEW B \in SUBSET SUBSET S, B # {}
    PROVE  \E s \in B : \A t \in B : t \subseteq s => t = s
<1> DEFINE C == {Cardinality(s) : s \in B}
<1>1. \A s \in B : IsFiniteSet(s) /\ Cardinality(s) \in Nat
    BY FS_Subset, FS_CardinalityType
<1>2. C \in SUBSET Nat /\ C # {}
    BY <1>1
<1>3. PICK n \in C : \A m \in C : n <= m
    BY <1>2, LeastPlace
<1>4. PICK s \in B : Cardinality(s) = n
    BY <1>3
<1>5. ASSUME NEW t \in B, t \subseteq s PROVE t = s
    <2>1. Cardinality(t) <= Cardinality(s) /\ Cardinality(s) <= Cardinality(t)
        BY <1>1, <1>3, <1>4, <1>5, FS_Subset
    <2>2. Cardinality(s) = Cardinality(t)
        BY <1>1, <1>4, <2>1
    <2>3. QED
        BY <1>1, <1>4, <1>5, <2>2, FS_Subset
<1>6. QED
    BY <1>4, <1>5

\* There is such a sum.
LEMMA SumExists ==
    ASSUME NEW S, IsFiniteSet(S), NEW g \in [S -> Int]
    PROVE  \E h \in [SUBSET S -> Int] : Iterates(S, g, h)
<1> DEFINE Small(n) == {s \in SUBSET S : Cardinality(s) <= n}
           Part(n, h) == /\ h \in [Small(n) -> Int]
                         /\ \A s \in Small(n) : h[s] = IF s = {} THEN 0 ELSE g[FirstOf(s)] + h[s \ {FirstOf(s)}]
           Bad == {n \in Nat : ~ \E h : Part(n, h)}
<1>1. \A s \in SUBSET S : IsFiniteSet(s) /\ Cardinality(s) \in Nat /\ Cardinality(s) <= Cardinality(S)
    BY FS_Subset, FS_CardinalityType
<1>2. \A s \in SUBSET S : Cardinality(s) = 0 <=> s = {}
    BY <1>1, FS_EmptySet
<1>3. \A s \in SUBSET S : s # {} => /\ FirstOf(s) \in s /\ FirstOf(s) \in S /\ s \ {FirstOf(s)} \in SUBSET S
                                    /\ Cardinality(s \ {FirstOf(s)}) = Cardinality(s) - 1
    BY <1>1, FirstIn, FS_RemoveElement
<1>9. Bad \in SUBSET Nat
    OBVIOUS
<1>4. ASSUME Bad # {} PROVE FALSE
    <2>0. \E n \in Bad : \A m \in Bad : n <= m
        <3> HIDE DEF Bad
        <3>1. QED
            BY <1>4, <1>9, LeastPlace
    <2>1. PICK n \in Bad : \A m \in Bad : n <= m
        BY <2>0
    <2>2. CASE n = 0
        <3>1. \A s \in Small(0) : s = {}
            BY <1>1, <1>2
        <3>2. Part(0, [s \in Small(0) |-> 0])
            BY <3>1
        <3>3. QED
            BY <2>1, <2>2, <3>2
    <2>3. CASE n # 0
        <3>1. n - 1 \in Nat /\ n - 1 \notin Bad
            <4> HIDE DEF Bad
            <4>1. n \in Nat /\ n - 1 \in Nat /\ ~ (n <= n - 1)
                BY <1>9, <2>1, <2>3
            <4>2. QED
                BY <2>1, <4>1
        <3>2. PICK h : Part(n - 1, h)
            BY <3>1
        <3> DEFINE k == [s \in Small(n) |-> IF s = {} THEN 0 ELSE g[FirstOf(s)] + h[s \ {FirstOf(s)}]]
        <3>3. \A s \in Small(n) : s # {} => s \ {FirstOf(s)} \in Small(n - 1)
            BY <1>1, <1>3, <2>1
        <3>4. k \in [Small(n) -> Int]
            <4>1. ASSUME NEW s \in Small(n) PROVE k[s] \in Int
                <5>1. CASE s = {}
                    BY <5>1
                <5>2. CASE s # {}
                    <6>1. g[FirstOf(s)] \in Int
                        BY <1>3, <5>2
                    <6>2. h[s \ {FirstOf(s)}] \in Int
                        BY <3>2, <3>3, <5>2
                    <6>3. QED
                        BY <5>2, <6>1, <6>2
                <5>3. QED
                    BY <5>1, <5>2
            <4>2. QED
                BY <4>1
        <3>5. \A s \in Small(n - 1) : s \in Small(n) /\ k[s] = h[s]
            <4>1. \A s \in Small(n - 1) : s \in Small(n)
                BY <1>1, <2>1
            <4>2. QED
                BY <3>2, <4>1
        <3> HIDE DEF Small
        <3>6. \A s \in Small(n) : k[s] = IF s = {} THEN 0 ELSE g[FirstOf(s)] + k[s \ {FirstOf(s)}]
            BY <3>3, <3>5
        <3> HIDE DEF k
        <3>7. Part(n, k)
            BY <3>4, <3>6
        <3>8. QED
            BY <2>1, <3>7
    <2>4. QED
        BY <2>2, <2>3
<1>5. Cardinality(S) \in Nat
    BY <1>1
<1>6. PICK h : Part(Cardinality(S), h)
    BY <1>4, <1>5
<1>7. Small(Cardinality(S)) = SUBSET S
    BY <1>1
<1> HIDE DEF Small
<1>8. QED
    BY <1>6, <1>7 DEF Iterates

\* h may begin with any member.
Takes(S, g, h) == \A s \in SUBSET S, x \in S : x \in s => h[s] = g[x] + h[s \ {x}]

LEMMA SumTakes ==
    ASSUME NEW S, IsFiniteSet(S), NEW g \in [S -> Int], NEW h \in [SUBSET S -> Int], Iterates(S, g, h)
    PROVE  Takes(S, g, h)
<1> DEFINE Bad == {s \in SUBSET S : \E x \in s : h[s] # g[x] + h[s \ {x}]}
<1>1. \A s \in SUBSET S : h[s] = IF s = {} THEN 0 ELSE g[FirstOf(s)] + h[s \ {FirstOf(s)}]
    BY DEF Iterates
<1>4. Bad \in SUBSET SUBSET S
    OBVIOUS
<1>2. ASSUME Bad # {} PROVE FALSE
    <2>0. \E s \in Bad : \A t \in Bad : t \subseteq s => t = s
        <3> HIDE DEF Bad
        <3>1. QED
            BY <1>2, <1>4, LeastSubset
    <2>1. PICK s \in Bad : \A t \in Bad : t \subseteq s => t = s
        BY <2>0
    <2>2. PICK x \in s : h[s] # g[x] + h[s \ {x}]
        BY <2>1
    <2> DEFINE y == FirstOf(s)
               a == s \ {y}
               b == s \ {x}
               c == s \ {x, y}
    <2>3. y \in s /\ s \in SUBSET S
        BY <2>1, <2>2, FirstIn
    <2>4. h[s] = g[y] + h[a]
        BY <1>1, <2>3
    <2> HIDE DEF y
    <2>5. x # y
        BY <2>2, <2>4
    <2>6. a \in SUBSET S /\ b \in SUBSET S /\ c \in SUBSET S /\ x \in a /\ y \in b /\ a \ {x} = c /\ b \ {y} = c
        BY <2>2, <2>3, <2>5
    <2>7. a \notin Bad /\ b \notin Bad
        BY <2>1, <2>2, <2>3
    <2>8. h[a] = g[x] + h[c] /\ h[b] = g[y] + h[c]
        BY <2>6, <2>7
    <2>9. {g[x], g[y], h[c]} \subseteq Int
        BY <2>2, <2>3, <2>6
    <2> HIDE DEF a, b, c, Bad
    <2>10. QED
        BY <2>2, <2>4, <2>8, <2>9 DEF b
<1>3. QED
    BY <1>1, <1>2 DEF Takes

\* And it is the same over more.
LEMMA SumSame ==
    ASSUME NEW S, NEW T, IsFiniteSet(T), S \subseteq T, NEW g, NEW f, \A x \in S : f[x] = g[x],
           NEW h, NEW k, Iterates(S, f, h), Iterates(T, g, k)
    PROVE  \A s \in SUBSET S : h[s] = k[s]
<1> DEFINE Bad == {s \in SUBSET S : h[s] # k[s]}
<1>1. /\ \A s \in SUBSET S : h[s] = IF s = {} THEN 0 ELSE f[FirstOf(s)] + h[s \ {FirstOf(s)}]
      /\ \A s \in SUBSET T : k[s] = IF s = {} THEN 0 ELSE g[FirstOf(s)] + k[s \ {FirstOf(s)}]
    BY DEF Iterates
<1>2. IsFiniteSet(S)
    BY FS_Subset
<1>5. Bad \in SUBSET SUBSET S
    OBVIOUS
<1>3. ASSUME Bad # {} PROVE FALSE
    <2>0. \E s \in Bad : \A t \in Bad : t \subseteq s => t = s
        <3> HIDE DEF Bad
        <3>1. QED
            BY <1>2, <1>3, <1>5, LeastSubset
    <2>1. PICK s \in Bad : \A t \in Bad : t \subseteq s => t = s
        BY <2>0
    <2>2. s # {} /\ s \in SUBSET S /\ s \in SUBSET T
        BY <1>1, <2>1
    <2>3. FirstOf(s) \in s
        BY <2>2, FirstIn
    <2>4. s \ {FirstOf(s)} \in SUBSET S /\ s \ {FirstOf(s)} \notin Bad
        BY <2>1, <2>2, <2>3
    <2>5. h[s \ {FirstOf(s)}] = k[s \ {FirstOf(s)}] /\ f[FirstOf(s)] = g[FirstOf(s)]
        BY <2>2, <2>3, <2>4
    <2>6. h[s] = k[s]
        BY <1>1, <2>2, <2>5
    <2>7. QED
        BY <2>1, <2>6
<1>4. QED
    BY <1>3

\* The sum itself.
Total(S, g) == (CHOOSE h : Iterates(S, g, h))[S]

LEMMA TotalIs ==
    ASSUME NEW S, IsFiniteSet(S), NEW g \in [S -> Int]
    PROVE  \E h \in [SUBSET S -> Int] : Iterates(S, g, h) /\ Total(S, g) = h[S]
<1>1. PICK h \in [SUBSET S -> Int] : Iterates(S, g, h)
    BY SumExists
<1> DEFINE k == CHOOSE x : Iterates(S, g, x)
<1>2. Iterates(S, g, k) /\ Total(S, g) = k[S]
    BY <1>1 DEF Total
<1> HIDE DEF k
<1>3. \A s \in SUBSET S : k[s] = h[s]
    BY <1>1, <1>2, SumSame
<1>4. QED
    BY <1>1, <1>2, <1>3

LEMMA TotalInt ==
    ASSUME NEW S, IsFiniteSet(S), NEW g \in [S -> Int]
    PROVE  Total(S, g) \in Int
<1>1. PICK h \in [SUBSET S -> Int] : Total(S, g) = h[S]
    BY TotalIs
<1>2. QED
    BY <1>1

LEMMA TotalNone == ASSUME NEW g \in [{} -> Int] PROVE Total({}, g) = 0
<1>1. IsFiniteSet({})
    BY FS_EmptySet
<1>2. PICK h \in [SUBSET {} -> Int] : Iterates({}, g, h) /\ Total({}, g) = h[{}]
    BY <1>1, TotalIs
<1>3. QED
    BY <1>1, <1>2 DEF Iterates

\* One more, added.
LEMMA TotalAdd ==
    ASSUME NEW S, IsFiniteSet(S), NEW e, e \notin S, NEW g \in [S \cup {e} -> Int], NEW f \in [S -> Int],
           \A x \in S : f[x] = g[x]
    PROVE  Total(S \cup {e}, g) = Total(S, f) + g[e]
<1> DEFINE T == S \cup {e}
<1>1. IsFiniteSet(T)
    BY FS_AddElement
<1>2. PICK h \in [SUBSET S -> Int] : Iterates(S, f, h) /\ Total(S, f) = h[S]
    BY TotalIs
<1>3. g \in [T -> Int] /\ e \in T /\ T \ {e} = S /\ S \subseteq T
    OBVIOUS
<1>4. Total(T, g) = Total(S, f) + g[e]
    <2> HIDE DEF T
    <2>1. PICK k \in [SUBSET T -> Int] : Iterates(T, g, k) /\ Total(T, g) = k[T]
        BY <1>1, <1>3, TotalIs
    <2>2. \A s \in SUBSET T, x \in T : x \in s => k[s] = g[x] + k[s \ {x}]
        <3>1. Takes(T, g, k)
            BY <1>1, <1>3, <2>1, SumTakes
        <3>2. QED
            BY <3>1 DEF Takes
    <2>3. k[T] = g[e] + k[S]
        BY <1>3, <2>2
    <2>4. \A s \in SUBSET S : h[s] = k[s]
        BY <1>1, <1>2, <1>3, <2>1, SumSame
    <2>5. h[S] \in Int /\ g[e] \in Int
        BY <1>2, <1>3
    <2>6. QED
        BY <1>2, <2>1, <2>3, <2>4, <2>5
<1>5. QED
    BY <1>4

\* What Bytes and Sizes add up.
LEMMA BytesTotal == ASSUME NEW S PROVE Bytes(S) = Total(S, [e \in S |-> e.bytes])
<1> DEFINE g == [e \in S |-> e.bytes]
           Is(h) == h = [s \in SUBSET S |-> IF s = {} THEN 0 ELSE (CHOOSE x \in s : TRUE).bytes + h[s \ {CHOOSE x \in s : TRUE}]]
<1>2. Bytes(S) = (CHOOSE h : Is(h))[S]
    BY DEF Bytes, MapThenSumSet, MapThenFoldSet
<1>3. ASSUME NEW h PROVE Is(h) <=> Iterates(S, g, h)
    <2>1. \A s \in SUBSET S : s # {} => g[FirstOf(s)] = (CHOOSE x \in s : TRUE).bytes
        BY FirstIn DEF FirstOf
    <2> DEFINE u == [s \in SUBSET S |-> IF s = {} THEN 0 ELSE (CHOOSE x \in s : TRUE).bytes + h[s \ {CHOOSE x \in s : TRUE}]]
               v == [s \in SUBSET S |-> IF s = {} THEN 0 ELSE g[FirstOf(s)] + h[s \ {FirstOf(s)}]]
    <2>2. u = v
        <3> HIDE DEF g
        <3>1. \A s \in SUBSET S : u[s] = v[s]
            BY <2>1 DEF FirstOf
        <3>2. QED
            BY <3>1
    <2> HIDE DEF u, v, g
    <2>3. (Is(h) <=> h = u) /\ (Iterates(S, g, h) <=> h = v)
        BY DEF Iterates, u, v
    <2>4. QED
        BY <2>2, <2>3
<1> HIDE DEF Is, g
<1>4. (CHOOSE h : Is(h)) = (CHOOSE h : Iterates(S, g, h))
    BY <1>3
<1>5. QED
    BY <1>2, <1>4 DEF Total, g

LEMMA SizesTotal == ASSUME NEW o, NEW S PROVE MapThenSumSet(LAMBDA n : o[n], S) = Total(S, [n \in S |-> o[n]])
<1> DEFINE g == [n \in S |-> o[n]]
           Is(h) == h = [s \in SUBSET S |-> IF s = {} THEN 0 ELSE o[CHOOSE x \in s : TRUE] + h[s \ {CHOOSE x \in s : TRUE}]]
<1>2. MapThenSumSet(LAMBDA n : o[n], S) = (CHOOSE h : Is(h))[S]
    BY DEF MapThenSumSet, MapThenFoldSet
<1>3. ASSUME NEW h PROVE Is(h) <=> Iterates(S, g, h)
    <2>1. \A s \in SUBSET S : s # {} => g[FirstOf(s)] = o[CHOOSE x \in s : TRUE]
        BY FirstIn DEF FirstOf
    <2> DEFINE u == [s \in SUBSET S |-> IF s = {} THEN 0 ELSE o[CHOOSE x \in s : TRUE] + h[s \ {CHOOSE x \in s : TRUE}]]
               v == [s \in SUBSET S |-> IF s = {} THEN 0 ELSE g[FirstOf(s)] + h[s \ {FirstOf(s)}]]
    <2>2. u = v
        <3> HIDE DEF g
        <3>1. \A s \in SUBSET S : u[s] = v[s]
            BY <2>1 DEF FirstOf
        <3>2. QED
            BY <3>1
    <2> HIDE DEF u, v, g
    <2>3. (Is(h) <=> h = u) /\ (Iterates(S, g, h) <=> h = v)
        BY DEF Iterates, u, v
    <2>4. QED
        BY <2>2, <2>3
<1> HIDE DEF Is, g
<1>4. (CHOOSE h : Is(h)) = (CHOOSE h : Iterates(S, g, h))
    BY <1>3
<1>5. QED
    BY <1>2, <1>4 DEF Total, g

\* While the disk is the same its sizes are.
LEMMA SizesStay == ASSUME own' = own, NEW S PROVE Sizes(S)' = Sizes(S)
<1>1. Sizes(S) = Total(S, [n \in S |-> own[n]])
    BY SizesTotal DEF Sizes
<1>2. Sizes(S)' = MapThenSumSet(LAMBDA n : own[n], S)
    <2> DEFINE Is(h, o) == h = [s \in SUBSET S |-> IF s = {} THEN 0 ELSE o[CHOOSE x \in s : TRUE] + h[s \ {CHOOSE x \in s : TRUE}]]
    <2>1. Sizes(S)' = (CHOOSE h : Is(h, own'))[S]
        BY DEF Sizes, MapThenSumSet, MapThenFoldSet
    <2>2. MapThenSumSet(LAMBDA n : own[n], S) = (CHOOSE h : Is(h, own))[S]
        BY DEF MapThenSumSet, MapThenFoldSet
    <2> HIDE DEF Is
    <2>3. QED
        BY <2>1, <2>2
<1>3. QED
    BY <1>1, <1>2 DEF Sizes

LEMMA BytesNone == Bytes({}) = 0
<1>1. [e \in {} |-> e.bytes] \in [{} -> Int]
    OBVIOUS
<1>2. QED
    BY <1>1, BytesTotal, TotalNone

LEMMA BytesInt ==
    ASSUME NEW S, IsFiniteSet(S), \A e \in S : e.bytes \in Int
    PROVE  Bytes(S) \in Int
<1>1. [e \in S |-> e.bytes] \in [S -> Int]
    OBVIOUS
<1>2. QED
    BY <1>1, BytesTotal, TotalInt

LEMMA BytesAdd ==
    ASSUME NEW S, IsFiniteSet(S), NEW e, e \notin S, \A x \in S \cup {e} : x.bytes \in Int
    PROVE  Bytes(S \cup {e}) = Bytes(S) + e.bytes
<1> DEFINE T == S \cup {e}
           f == [x \in S |-> x.bytes]
           g == [x \in T |-> x.bytes]
<1>1. /\ f \in [S -> Int] /\ g \in [T -> Int] /\ \A x \in S : f[x] = g[x]
      /\ g[e] = e.bytes
    OBVIOUS
<1>2. Bytes(S) = Total(S, f) /\ Bytes(T) = Total(T, g)
    BY BytesTotal
<1> HIDE DEF f, g
<1>3. Total(T, g) = Total(S, f) + g[e]
    BY ONLY <1>1, TotalAdd, IsFiniteSet(S), e \notin S DEF T
<1>4. QED
    BY <1>1, <1>2, <1>3

\* What a directory holds is a number of bytes.
LEMMA SizesInt ==
    ASSUME own \in [Nodes -> Nat], NEW S \in SUBSET Nodes
    PROVE  Sizes(S) \in Int
<1>1. [n \in S |-> own[n]] \in [S -> Int] /\ IsFiniteSet(S)
    BY TreeAssumption, FS_Subset
<1>2. Sizes(S) = Total(S, [n \in S |-> own[n]])
    BY SizesTotal DEF Sizes
<1>3. QED
    BY <1>1, <1>2, TotalInt

-----------------------------------------------------------------------------
(* The tree.                                                               *)

LEMMA TreeConsts ==
    /\ Root \in Directories /\ Directories \subseteq Nodes /\ Root \in Nodes
    /\ \A n \in Nodes \ {Root} : UpOf[n] \in Directories
    /\ IsFiniteSet(Nodes) /\ "none" \notin Nodes
    /\ LevelDepth \in Nat
    /\ \A k \in {TopPerParent, MaxParents, MaxEntries, FloorPart} : k \in Nat /\ k >= 1
BY TreeAssumption

LEMMA TreeInduction ==
    ASSUME NEW S \in SUBSET Nodes, Root \in S, \A n \in Nodes \ {Root} : UpOf[n] \in S => n \in S
    PROVE  S = Nodes
BY TreeAssumption

\* What is above a node: what holds it, and what is above that.
LEMMA TrailIs ==
    /\ Trail[Root] = {Root}
    /\ \A n \in Nodes \ {Root} : Trail[n] = {n} \cup Trail[UpOf[n]]
<1> DEFINE Above == Ancestors(Nodes, Root, UpOf)
           Closed(S) == \A m \in S : m # Root => UpOf[m] \in S
<1>1. \A n \in Nodes : Above[n] = {d \in Nodes : \A S \in SUBSET Nodes : (n # Root => UpOf[n] \in S) /\ Closed(S) => d \in S}
    BY DEF Ancestors, Holds
<1> HIDE DEF Above
<1>2. \A n \in Nodes : Trail[n] = {n} \cup Above[n]
    BY DEF Trail, Above
<1>3. Above[Root] = {}
    <2>1. {} \in SUBSET Nodes /\ Closed({})
        OBVIOUS
    <2>2. \A d \in Above[Root] : d \in {}
        <3>1. Above[Root] = {d \in Nodes : \A S \in SUBSET Nodes : Closed(S) => d \in S}
            BY <1>1, TreeConsts
        <3> HIDE DEF Closed
        <3>2. QED
            BY <2>1, <3>1
    <2>3. QED
        BY <2>2
<1>4. ASSUME NEW n \in Nodes \ {Root} PROVE Above[n] = Trail[UpOf[n]]
    <2> DEFINE u == UpOf[n]
    <2>1. u \in Nodes /\ Trail[u] = {u} \cup Above[u] /\ Above[u] \subseteq Nodes
        BY <1>1, <1>2, TreeConsts
    <2>2. u # Root => u \in Nodes \ {Root} /\ UpOf[u] \in Nodes
        BY <2>1, TreeConsts
    <2>3. Closed(Above[u])
        <3> SUFFICES ASSUME NEW m \in Above[u], m # Root PROVE UpOf[m] \in Above[u]
            OBVIOUS
        <3>1. m \in Nodes /\ UpOf[m] \in Nodes
            BY <2>1, TreeConsts
        <3>2. ASSUME NEW S \in SUBSET Nodes, u # Root => UpOf[u] \in S, Closed(S) PROVE UpOf[m] \in S
            BY <1>1, <2>1, <3>2
        <3>3. QED
            BY <1>1, <2>1, <3>1, <3>2
    <2>4. u # Root => UpOf[u] \in Above[u]
        BY <1>1, <2>1, <2>2
    <2>5. Trail[u] \in SUBSET Nodes /\ u \in Trail[u] /\ Closed(Trail[u])
        BY <2>1, <2>3, <2>4
    <2>6. Above[n] \subseteq Trail[u]
        <3>1. \A d \in Above[n] : d \in Trail[u]
            BY <1>1, <2>5
        <3>2. QED
            BY <3>1
    <2>7. \A d \in Trail[u] : d \in Above[n]
        <3> SUFFICES ASSUME NEW d \in Trail[u], NEW S \in SUBSET Nodes, UpOf[n] \in S, Closed(S) PROVE d \in S
            BY <1>1, <2>5
        <3>1. u # Root => UpOf[u] \in S
            OBVIOUS
        <3>2. CASE d = u
            BY <3>2
        <3>3. CASE d \in Above[u]
            BY <1>1, <2>1, <3>1, <3>3
        <3>4. QED
            BY <2>1, <3>2, <3>3
    <2>8. QED
        BY <2>6, <2>7
<1>5. QED
    BY <1>2, <1>3, <1>4, TreeConsts

LEMMA TrailIn == \A n \in Nodes : Trail[n] \subseteq Nodes /\ n \in Trail[n]
BY DEF Trail, Ancestors

\* What holds anything is a directory.
LEMMA TrailDirectories == \A n \in Nodes : \A d \in Trail[n] : d # n => d \in Directories
<1> DEFINE S == {n \in Nodes : \A d \in Trail[n] : d # n => d \in Directories}
<1>1. Root \in S
    BY TrailIs, TreeConsts
<1>2. ASSUME NEW n \in Nodes \ {Root}, UpOf[n] \in S PROVE n \in S
    BY <1>2, TrailIs, TreeConsts
<1>3. S \in SUBSET Nodes
    OBVIOUS
<1> HIDE DEF S
<1>4. S = Nodes
    BY <1>1, <1>2, <1>3, TreeInduction
<1>5. QED
    BY <1>4 DEF S

LEMMA TrailRoot == \A n \in Nodes : Root \in Trail[n]
<1> DEFINE S == {n \in Nodes : Root \in Trail[n]}
<1>1. Root \in S
    BY TrailIs, TreeConsts
<1>2. ASSUME NEW n \in Nodes \ {Root}, UpOf[n] \in S PROVE n \in S
    BY <1>2, TrailIs, TreeConsts
<1>3. S \in SUBSET Nodes
    OBVIOUS
<1> HIDE DEF S
<1>4. S = Nodes
    BY <1>1, <1>2, <1>3, TreeInduction
<1>5. QED
    BY <1>4 DEF S

\* Nothing is above itself.
LEMMA NoCircle == \A n \in Nodes \ {Root} : n \notin Trail[UpOf[n]]
<1> DEFINE S == {n \in Nodes : \A d \in Trail[n] : d # Root => d \notin Trail[UpOf[d]]}
<1>1. Root \in S
    BY TrailIs, TreeConsts
<1>2. ASSUME NEW n \in Nodes \ {Root}, UpOf[n] \in S PROVE n \in S
    <2>1. n \notin Trail[UpOf[n]]
        BY <1>2
    <2>2. Trail[n] = {n} \cup Trail[UpOf[n]]
        BY TrailIs
    <2>3. QED
        BY <1>2, <2>1, <2>2
<1>3. S \in SUBSET Nodes
    OBVIOUS
<1> HIDE DEF S
<1>4. S = Nodes
    BY <1>1, <1>2, <1>3, TreeInduction
<1>5. QED
    BY <1>4, TrailIn DEF S

LEMMA DepthUp ==
    /\ \A n \in Nodes : Depth(n) \in Nat
    /\ Depth(Root) = 0
    /\ \A n \in Nodes \ {Root} : Depth(n) = Depth(UpOf[n]) + 1
<1>1. \A n \in Nodes : IsFiniteSet(Trail[n]) /\ Cardinality(Trail[n]) \in Nat /\ Trail[n] # {}
    BY TrailIn, TreeConsts, FS_Subset, FS_CardinalityType
<1>2. \A n \in Nodes : Cardinality(Trail[n]) # 0
    BY <1>1, FS_EmptySet
<1>3. Cardinality(Trail[Root]) = 1
    BY TrailIs, FS_Singleton
<1>4. ASSUME NEW n \in Nodes \ {Root} PROVE Cardinality(Trail[n]) = Cardinality(Trail[UpOf[n]]) + 1
    <2>1. UpOf[n] \in Nodes /\ n \notin Trail[UpOf[n]] /\ Trail[n] = Trail[UpOf[n]] \cup {n}
        BY NoCircle, TrailIs, TreeConsts
    <2>2. QED
        BY <1>1, <2>1, FS_AddElement
<1>5. QED
    <2>1. \A n \in Nodes : Depth(n) \in Nat
        BY <1>1, <1>2 DEF Depth
    <2>2. Depth(Root) = 0
        BY <1>3 DEF Depth
    <2>3. ASSUME NEW n \in Nodes \ {Root} PROVE Depth(n) = Depth(UpOf[n]) + 1
        <3>1. Cardinality(Trail[UpOf[n]]) \in Nat
            BY <1>1, TreeConsts
        <3>2. QED
            BY <1>4, <3>1 DEF Depth
    <2>4. QED
        BY <2>1, <2>2, <2>3

LEMMA BelowIs ==
    /\ Below(Root) = Nodes
    /\ \A n \in Nodes : Below(n) \subseteq Nodes /\ n \in Below(n)
    /\ \A n \in Nodes, m \in Nodes : m \in Below(n) /\ m # n => m # Root /\ UpOf[m] \in Below(n) /\ n \in Directories
    /\ \A m \in Nodes \ {Root} : m \in Below(UpOf[m]) /\ m # UpOf[m]
<1>1. Below(Root) = Nodes /\ \A n \in Nodes : Below(n) \subseteq Nodes /\ n \in Below(n)
    BY TrailIn, TrailRoot DEF Below
<1>2. ASSUME NEW n \in Nodes, NEW m \in Nodes, m \in Below(n), m # n
      PROVE  m # Root /\ UpOf[m] \in Below(n) /\ n \in Directories
    <2>1. n \in Trail[m]
        BY <1>2 DEF Below
    <2>2. m # Root
        BY <1>2, <2>1, TrailIs
    <2>3. Trail[m] = {m} \cup Trail[UpOf[m]] /\ UpOf[m] \in Nodes
        BY <2>2, TrailIs, TreeConsts
    <2>4. QED
        BY <1>2, <2>1, <2>2, <2>3, TrailDirectories DEF Below
<1>3. ASSUME NEW m \in Nodes \ {Root} PROVE m \in Below(UpOf[m]) /\ m # UpOf[m]
    <2>1. UpOf[m] \in Nodes /\ Trail[m] = {m} \cup Trail[UpOf[m]] /\ UpOf[m] \in Trail[UpOf[m]] /\ m \notin Trail[UpOf[m]]
        BY TrailIs, TrailIn, NoCircle, TreeConsts
    <2>2. QED
        BY <2>1 DEF Below
<1>4. QED
    BY <1>1, <1>2, <1>3

-----------------------------------------------------------------------------
(* Levels as sequences.                                                    *)

\* The k-th member of a finite set of places, and no other.
LEMMA Ranks ==
    ASSUME NEW I \in SUBSET Nat, IsFiniteSet(I)
    PROVE  /\ \A i \in I : Cardinality({j \in I : j <= i}) \in 1 .. Cardinality(I)
           /\ \A i, k \in I : Cardinality({j \in I : j <= i}) = Cardinality({j \in I : j <= k}) => i = k
           /\ \A k \in 1 .. Cardinality(I) : \E i \in I : Cardinality({j \in I : j <= i}) = k
<1> DEFINE upto(i) == {j \in I : j <= i}
           n == Cardinality(I)
<1>1. n \in Nat
    BY FS_CardinalityType
<1>2. ASSUME NEW i \in I PROVE IsFiniteSet(upto(i)) /\ Cardinality(upto(i)) \in Nat /\ Cardinality(upto(i)) \in 1 .. n
    <2>1. upto(i) \in SUBSET I /\ i \in upto(i) /\ upto(i) # {}
        OBVIOUS
    <2> HIDE DEF upto
    <2>2. IsFiniteSet(upto(i)) /\ Cardinality(upto(i)) <= n
        BY <2>1, FS_Subset
    <2>3. Cardinality(upto(i)) \in Nat /\ Cardinality(upto(i)) # 0
        BY <2>1, <2>2, FS_CardinalityType, FS_EmptySet
    <2> HIDE DEF n
    <2>4. QED
        BY <1>1, <2>2, <2>3
<1>3. ASSUME NEW i \in I, NEW k \in I, i < k PROVE Cardinality(upto(i)) < Cardinality(upto(k))
    <2>1. upto(i) \in SUBSET upto(k) /\ k \in upto(k) /\ k \notin upto(i)
        <3>1. i \in Nat /\ k \in Nat /\ k <= k /\ ~ (k <= i)
            BY <1>3
        <3>2. \A j \in I : j \in Nat /\ (j <= i => j <= k)
            BY <1>3, <3>1
        <3>3. QED
            BY <3>1, <3>2
    <2> HIDE DEF upto
    <2>2. Cardinality(upto(i)) <= Cardinality(upto(k)) /\ Cardinality(upto(i)) # Cardinality(upto(k))
        BY <1>2, <2>1, FS_Subset
    <2>3. Cardinality(upto(i)) \in Nat /\ Cardinality(upto(k)) \in Nat
        BY <1>2
    <2>4. QED
        BY <2>2, <2>3
<1>4. ASSUME NEW i \in I, NEW k \in I, Cardinality(upto(i)) = Cardinality(upto(k)) PROVE i = k
    <2>1. i \in Nat /\ k \in Nat /\ ~ (i < k) /\ ~ (k < i)
        <3> HIDE DEF upto
        <3>1. Cardinality(upto(i)) \in Nat /\ Cardinality(upto(k)) \in Nat
            BY <1>2
        <3>2. QED
            BY <1>3, <1>4, <3>1
    <2>2. QED
        BY <2>1
<1>5. ASSUME NEW k \in 1 .. n PROVE \E i \in I : Cardinality(upto(i)) = k
    <2> DEFINE f == [i \in I |-> Cardinality(upto(i))]
    <2>1. f \in [I -> 1 .. n] /\ \A i \in I : f[i] = Cardinality(upto(i))
        <3> HIDE DEF upto, n
        <3>1. QED
            BY <1>2
    <2> HIDE DEF f, upto
    <2>2. f \in Injection(I, 1 .. n)
        <3>1. \A i, j \in I : f[i] = f[j] => i = j
            BY <1>4, <2>1
        <3>2. QED
            BY <2>1, <3>1 DEF Injection, IsInjective
    <2>3. IsFiniteSet(1 .. n) /\ Cardinality(1 .. n) = n
        <3> HIDE DEF n
        <3>1. QED
            BY <1>1, FS_Interval
    <2>4. f \in Surjection(I, 1 .. n)
        BY <2>2, <2>3, FS_Injection DEF n
    <2>5. QED
        BY <2>1, <2>4 DEF Surjection
<1>6. QED
    BY <1>2, <1>4, <1>5

LEMMA PickedSeq ==
    ASSUME NEW S, NEW s \in Seq(S), NEW I \in SUBSET DOMAIN s
    PROVE  /\ Picked(s, I) \in Seq(S) /\ Len(Picked(s, I)) = Cardinality(I)
           /\ Cardinality(I) \in Nat /\ Cardinality(I) <= Len(s)
           /\ ToSet(Picked(s, I)) = {s[i] : i \in I}
<1> DEFINE n == Cardinality(I)
           at(k) == CHOOSE i \in I : Cardinality({j \in I : j <= i}) = k
           p == [k \in 1 .. n |-> s[at(k)]]
<1>1. /\ Len(s) \in Nat /\ DOMAIN s = 1 .. Len(s) /\ I \in SUBSET Nat
      /\ I \in SUBSET (1 .. Len(s))
    OBVIOUS
<1>2. IsFiniteSet(1 .. Len(s)) /\ Cardinality(1 .. Len(s)) = Len(s)
    BY <1>1, FS_Interval
<1>3. IsFiniteSet(I) /\ n <= Len(s) /\ n \in Nat
    BY <1>1, <1>2, FS_Subset, FS_CardinalityType
<1>4. ASSUME NEW k \in 1 .. n PROVE at(k) \in I /\ Cardinality({j \in I : j <= at(k)}) = k
    <2>1. \E i \in I : Cardinality({j \in I : j <= i}) = k
        BY <1>1, <1>3, Ranks
    <2>2. QED
        BY <2>1
<1>5. \A i \in I : Cardinality({j \in I : j <= i}) \in 1 .. n /\ at(Cardinality({j \in I : j <= i})) = i
    <2>1. /\ \A i \in I : Cardinality({j \in I : j <= i}) \in 1 .. n
          /\ \A i, k \in I : Cardinality({j \in I : j <= i}) = Cardinality({j \in I : j <= k}) => i = k
        BY <1>1, <1>3, Ranks
    <2> HIDE DEF n
    <2>2. QED
        BY <1>4, <2>1
<1>6. p = Picked(s, I)
    BY DEF Picked
<1> HIDE DEF at, n
<1>7. p \in Seq(S) /\ Len(p) = n /\ DOMAIN p = 1 .. n
    <2>1. \A k \in 1 .. n : s[at(k)] \in S
        <3> SUFFICES ASSUME NEW k \in 1 .. n PROVE s[at(k)] \in S
            OBVIOUS
        <3>1. at(k) \in 1 .. Len(s)
            BY <1>1, <1>4
        <3>2. QED
            BY <3>1
    <2>2. p \in [1 .. n -> S]
        BY <2>1
    <2> HIDE DEF p
    <2>3. QED
        BY <1>3, <2>2
<1>8. ToSet(p) = {s[i] : i \in I}
    <2>1. ASSUME NEW x \in ToSet(p) PROVE x \in {s[i] : i \in I}
        BY <1>4, <1>7 DEF ToSet
    <2>2. ASSUME NEW i \in I PROVE s[i] \in ToSet(p)
        <3>1. PICK k \in 1 .. n : at(k) = i
            BY <1>5
        <3>2. p[k] = s[i]
            BY <3>1
        <3>3. QED
            BY <1>7, <3>2 DEF ToSet
    <2>3. QED
        BY <2>1, <2>2
<1> HIDE DEF p
<1>9. QED
    BY <1>3, <1>6, <1>7, <1>8 DEF n

\* A sequence has no more members than places.
LEMMA ToSetSize ==
    ASSUME NEW S, NEW s \in Seq(S)
    PROVE  IsFiniteSet(ToSet(s)) /\ Cardinality(ToSet(s)) <= Len(s) /\ ToSet(s) \subseteq S
<1>1. Len(s) \in Nat /\ DOMAIN s = 1 .. Len(s) /\ \A i \in 1 .. Len(s) : s[i] \in S
    OBVIOUS
<1>2. IsFiniteSet(1 .. Len(s)) /\ Cardinality(1 .. Len(s)) = Len(s)
    <2>1. Len(s) \in Nat
        OBVIOUS
    <2>2. QED
        BY ONLY <2>1, FS_Interval
<1>3. ToSet(s) = {s[i] : i \in 1 .. Len(s)}
    BY <1>1 DEF ToSet
<1> DEFINE T == {s[i] : i \in 1 .. Len(s)}
           f == [i \in 1 .. Len(s) |-> s[i]]
<1>4. f \in Surjection(1 .. Len(s), T)
    BY DEF Surjection
<1> HIDE DEF T, f
<1>5. IsFiniteSet(T) /\ Cardinality(T) <= Len(s)
    BY <1>2, <1>4, FS_Surjection
<1>6. T \subseteq S
    BY <1>1 DEF T
<1>7. QED
    BY <1>3, <1>5, <1>6 DEF T

-----------------------------------------------------------------------------
(* The walk and its levels.                                                *)

\* Du prints something of what n holds.
Inner(n) == (Below(n) \cap Records) \ {n} # {}

EntryOf(n) == [path |-> n, bytes |-> Sizes(Below(n)), up |-> UpOf[n], kind |-> IF Inner(n) THEN "DIRECTORY" ELSE "FILE"]
EntriesIn(m) == {EntryOf(n) : n \in {k \in printed \ {Root} : UpOf[k] = m /\ Depth(k) <= LevelDepth}}
RootRow == [path |-> Root, bytes |-> Sizes(Nodes), up |-> "none", kind |-> "DIRECTORY"]

\* Du prints whole directories, and the record before is of the one it is in.
WalkInv ==
    /\ own \in [Nodes -> Nat] /\ files \in BOOLEAN /\ cut \in BOOLEAN
    /\ phase \in {"idle", "walk", "levels", "done"}
    /\ printed \subseteq Records
    /\ IF printed = {} THEN last = "none"
       ELSE last \in printed /\ (last # Root => UpOf[last] \notin printed)
    /\ \A d \in printed : Below(d) \cap Records \subseteq printed
    /\ \A d \in Records \ printed : Below(d) \cap printed # {} => last \in Below(d)
    /\ phase = "idle" => printed = {} /\ DOMAIN parents = {}
    /\ phase \in {"idle", "walk"} => Root \notin printed /\ rows = {} /\ front = <<>>
    /\ phase \in {"levels", "done"} => Root \in printed

\* What a level has is of its directory, whose bytes are in when it is printed.
ParentsInv ==
    /\ DOMAIN parents \subseteq Directories /\ Cardinality(DOMAIN parents) <= MaxParents
    /\ parents = [m \in DOMAIN parents |-> [bytes |-> parents[m].bytes, top |-> parents[m].top]]
    /\ \A m \in DOMAIN parents :
        /\ parents[m].bytes \in Int
        /\ parents[m].top \in Seq(EntriesIn(m)) /\ Len(parents[m].top) <= TopPerParent
        /\ m \in printed => parents[m].bytes = Sizes(Below(m))
        /\ m \notin printed => Inner(m) /\ Depth(m) < LevelDepth
    /\ \A m \in printed : m = Root \/ (Inner(m) /\ Depth(m) < LevelDepth) => m \in DOMAIN parents \/ cut

\* A level is in the result whole or not at all, and one that is missing waits.
RowsInv ==
    phase \in {"levels", "done"} =>
        /\ IsFiniteSet(rows) /\ Cardinality(rows) <= MaxEntries + 1
        /\ front \in Seq(Directories) /\ (phase = "done" => front = <<>>)
        /\ \A r \in rows : r = RootRow \/ \E m \in DOMAIN parents : r \in ToSet(LevelOf(m))
        /\ \A m \in DOMAIN parents : ToSet(LevelOf(m)) \subseteq rows \/ \A r \in rows : r.up # m
        /\ \A r \in rows : r.kind = "DIRECTORY" /\ Depth(r.path) < LevelDepth =>
            \/ cut \/ r.path \in ToSet(front) \/ r.path \notin DOMAIN parents
            \/ ToSet(LevelOf(r.path)) \subseteq rows

TreeInv == WalkInv /\ ParentsInv /\ RowsInv

LEMMA RecordsIn == WalkInv => Records \subseteq Nodes /\ Directories \subseteq Records /\ printed \subseteq Nodes
BY TreeConsts DEF WalkInv, Records

\* "A record is a directory exactly when the record before it was one of its children."
LEMMA LooksRight ==
    ASSUME WalkInv, NEW n \in Nodes, PostOrder(n)
    PROVE  LooksDirectory(n) <=> n = Root \/ Inner(n)
<1>1. n \in Records \ printed /\ (Below(n) \cap Records) \ {n} \subseteq printed
    BY DEF PostOrder
<1>2. ASSUME Inner(n) PROVE last \in Nodes \ {Root} /\ UpOf[last] = n
    <2>1. Below(n) \cap printed # {}
        BY <1>1, <1>2 DEF Inner
    <2>2. last \in Below(n) /\ last \in printed /\ last # n
        BY <1>1, <2>1 DEF WalkInv
    <2>3. last \in Nodes /\ last # Root /\ UpOf[last] \in Below(n) /\ UpOf[last] \in Records
        BY <2>2, BelowIs, TreeConsts, RecordsIn
    <2>4. UpOf[last] \notin printed
        BY <2>2, <2>3 DEF WalkInv
    <2>5. QED
        BY <1>1, <2>3, <2>4
<1>3. ASSUME last \in Nodes \ {Root}, UpOf[last] = n PROVE Inner(n)
    <2>1. printed # {}
        <3>1. last # "none"
            BY <1>3, TreeConsts
        <3>2. QED
            BY <3>1 DEF WalkInv
    <2>2. last \in printed /\ last \in Records
        BY <2>1 DEF WalkInv
    <2>3. last \in Below(n) /\ last # n
        BY <1>3, BelowIs
    <2>4. QED
        BY <2>2, <2>3 DEF Inner
<1>4. QED
    BY <1>2, <1>3 DEF LooksDirectory

\* The same disk, the same sizes of it.
LEMMA TreeStays ==
    ASSUME own' = own, files' = files
    PROVE  /\ \A n : Inner(n)' <=> Inner(n)
           /\ \A n \in Nodes : EntryOf(n)' = EntryOf(n)
           /\ RootRow' = RootRow
           /\ Records' = Records
<1>1. Records' = Records
    BY DEF Records
<1>2. ASSUME NEW n PROVE Inner(n)' <=> Inner(n)
    BY <1>1 DEF Inner, Below
<1>3. \A n : Sizes(Below(n))' = Sizes(Below(n))
    <2> SUFFICES ASSUME NEW n PROVE Sizes(Below(n))' = Sizes(Below(n))
        OBVIOUS
    <2>1. QED
        BY SizesStay DEF Below
<1>4. Sizes(Nodes)' = Sizes(Nodes)
    BY SizesStay
<1>5. QED
    BY <1>1, <1>2, <1>3, <1>4 DEF EntryOf, RootRow

LEMMA LevelStays ==
    ASSUME own' = own, parents' = parents
    PROVE  \A m : LevelOf(m)' = LevelOf(m)
<1>1. Sizes(Nodes)' = Sizes(Nodes)
    BY SizesStay
<1>2. QED
    BY <1>1 DEF LevelOf

LEMMA TreeStarts == TreeInit => TreeInv
<1> SUFFICES ASSUME TreeInit PROVE TreeInv
    OBVIOUS
<1>1. /\ own \in [Nodes -> Nat] /\ files \in BOOLEAN /\ cut \in BOOLEAN /\ phase = "idle"
      /\ printed = {} /\ last = "none" /\ DOMAIN parents = {} /\ rows = {} /\ front = <<>>
      /\ parents = [n \in {} |-> 0]
    BY DEF TreeInit
<1>2. WalkInv
    BY <1>1 DEF WalkInv
<1>3. ParentsInv
    <2>1. Cardinality(DOMAIN parents) <= MaxParents
        BY <1>1, FS_EmptySet, TreeConsts
    <2>2. parents = [m \in DOMAIN parents |-> [bytes |-> parents[m].bytes, top |-> parents[m].top]]
        BY <1>1
    <2>3. QED
        BY <1>1, <2>1, <2>2 DEF ParentsInv
<1>4. RowsInv
    BY <1>1 DEF RowsInv
<1>5. QED
    BY <1>2, <1>3, <1>4 DEF TreeInv

LEMMA PlacesCount == \A n \in Nat : IsFiniteSet(1 .. n) /\ Cardinality(1 .. n) = n
BY FS_Interval

\* An entry's place in a level is one of its places, and the level stays short.
LEMMA PlacedIn ==
    ASSUME NEW S, NEW top \in Seq(S), Len(top) <= TopPerParent, NEW e \in S
    PROVE  Placed(top, e) \in Seq(S) /\ Len(Placed(top, e)) <= TopPerParent
<1> DEFINE full == Len(top) >= TopPerParent
           base == IF full THEN Front(top) ELSE top
           at   == Cardinality({i \in DOMAIN base : base[i].bytes >= e.bytes}) + 1
           u == SubSeq(base, 1, at - 1)
           v == SubSeq(base, at, Len(base))
<1>1. Len(top) \in Nat /\ TopPerParent \in Nat /\ TopPerParent >= 1
    BY TreeConsts
<1>2. base \in Seq(S) /\ Len(base) \in Nat /\ Len(base) <= TopPerParent - 1
    <2>1. CASE full
        <3>1. Front(top) \in Seq(S) /\ Len(Front(top)) = Len(top) - 1
            <4>1. Len(top) >= 1 /\ Len(top) - 1 \in 0 .. Len(top) /\ 1 \in 1 .. Len(top) + 1
                BY <1>1, <2>1
            <4>2. SubSeq(top, 1, Len(top) - 1) \in Seq(S) /\ Len(SubSeq(top, 1, Len(top) - 1)) = Len(top) - 1
                <5>1. /\ 1 \in 1 .. Len(top) + 1 /\ Len(top) - 1 \in 1 - 1 .. Len(top)
                    BY <4>1
                <5>2. /\ SubSeq(top, 1, Len(top) - 1) \in Seq(S)
                      /\ Len(SubSeq(top, 1, Len(top) - 1)) = (IF 1 <= Len(top) - 1 THEN Len(top) - 1 - 1 + 1 ELSE 0)
                    BY <5>1, SubSeqProperties
                <5> DEFINE x == SubSeq(top, 1, Len(top) - 1)
                           l == Len(top)
                <5>3. x \in Seq(S) /\ Len(x) = (IF 1 <= l - 1 THEN l - 1 - 1 + 1 ELSE 0) /\ l \in Nat /\ l >= 1
                    BY <1>1, <4>1, <5>2
                <5> HIDE DEF x, l
                <5>4. x \in Seq(S) /\ Len(x) = l - 1
                    BY <5>3
                <5>5. QED
                    BY <5>4 DEF x, l
            <4>3. QED
                BY <4>2 DEF Front
        <3>2. QED
            BY <1>1, <2>1, <3>1
    <2>2. CASE ~full
        BY <1>1, <2>2
    <2>3. QED
        BY <2>1, <2>2
<1> HIDE DEF base, full
<1>3. at \in 1 .. Len(base) + 1
    <2> DEFINE I == {i \in DOMAIN base : base[i].bytes >= e.bytes}
    <2>1. I \in SUBSET (1 .. Len(base))
        BY <1>2
    <2> HIDE DEF I
    <2>2. IsFiniteSet(1 .. Len(base)) /\ Cardinality(1 .. Len(base)) = Len(base)
        BY <1>2, PlacesCount
    <2>3. Cardinality(I) \in Nat /\ Cardinality(I) <= Len(base)
        BY <2>1, <2>2, FS_Subset, FS_CardinalityType
    <2>4. at = Cardinality(I) + 1
        BY DEF I
    <2> HIDE DEF at
    <2>5. QED
        BY <1>2, <2>3, <2>4
<1> HIDE DEF at
<1>4. u \in Seq(S) /\ Len(u) = at - 1
    BY <1>2, <1>3
<1>5. v \in Seq(S) /\ Len(v) = Len(base) - at + 1
    BY <1>2, <1>3
<1>6. InsertAt(base, at, e) = u \o <<e>> \o v
    BY DEF InsertAt
<1> HIDE DEF u, v
<1>7. InsertAt(base, at, e) \in Seq(S) /\ Len(InsertAt(base, at, e)) = Len(u) + 1 + Len(v)
    <2>1. <<e>> \in Seq(S) /\ Len(<<e>>) = 1
        OBVIOUS
    <2>2. u \o <<e>> \in Seq(S) /\ Len(u \o <<e>>) = Len(u) + 1
        BY <1>4, <2>1
    <2>3. (u \o <<e>>) \o v \in Seq(S) /\ Len((u \o <<e>>) \o v) = Len(u \o <<e>>) + Len(v)
        <3> DEFINE x == u \o <<e>>
        <3> HIDE DEF x
        <3>1. x \in Seq(S)
            BY <2>2 DEF x
        <3>2. x \o v \in Seq(S) /\ Len(x \o v) = Len(x) + Len(v)
            BY <1>5, <3>1
        <3>3. QED
            BY <3>2 DEF x
    <2>4. QED
        BY <1>6, <2>2, <2>3
<1>8. Placed(top, e) = IF full /\ e.bytes <= Last(top).bytes THEN top ELSE InsertAt(base, at, e)
    BY DEF Placed, full, base, at
<1>9. Len(InsertAt(base, at, e)) <= TopPerParent
    BY <1>1, <1>2, <1>3, <1>4, <1>5, <1>7
<1>10. QED
    BY <1>7, <1>8, <1>9

\* What the levels are while n is added: n is in, whatever else is.
GoodLevels(ps, P, n) ==
    /\ DOMAIN ps \subseteq Directories /\ Cardinality(DOMAIN ps) <= MaxParents
    /\ ps = [m \in DOMAIN ps |-> [bytes |-> ps[m].bytes, top |-> ps[m].top]]
    /\ \A m \in DOMAIN ps :
        /\ ps[m].bytes \in Int
        /\ ps[m].top \in Seq({EntryOf(k) : k \in {j \in P \ {Root} : UpOf[j] = m /\ Depth(j) <= LevelDepth}})
        /\ Len(ps[m].top) <= TopPerParent
        /\ m \in P /\ m # n => ps[m].bytes = Sizes(Below(m))
        /\ m \notin P => Inner(m) /\ Depth(m) < LevelDepth

\* closeParent: the level is there, with its bytes, unless it was refused.
LEMMA CloseGood ==
    ASSUME own \in [Nodes -> Nat], NEW P \in SUBSET Nodes, NEW n \in Directories, n \in P, NEW ps, GoodLevels(ps, P, n)
    PROVE  /\ GoodLevels(CloseParent(ps, n), P, n)
           /\ DOMAIN ps \subseteq DOMAIN CloseParent(ps, n)
           /\ n \in DOMAIN CloseParent(ps, n) => CloseParent(ps, n)[n].bytes = Sizes(Below(n))
           /\ ~Refused(ps, n) => n \in DOMAIN CloseParent(ps, n)
<1> DEFINE qs == CloseParent(ps, n)
           b == Sizes(Below(n))
           In(m) == {EntryOf(k) : k \in {j \in P \ {Root} : UpOf[j] = m /\ Depth(j) <= LevelDepth}}
<1>1. b \in Int
    BY SizesInt, BelowIs, TreeConsts
<1>2. IsFiniteSet(DOMAIN ps) /\ DOMAIN ps \subseteq Directories /\ Cardinality(DOMAIN ps) \in Nat /\ MaxParents \in Nat
    BY TreeConsts, FS_Subset, FS_CardinalityType DEF GoodLevels
<1>3. CASE n \in DOMAIN ps
    <2>1. qs = [ps EXCEPT ![n].bytes = b]
        BY <1>3 DEF CloseParent
    <2> HIDE DEF b, qs
    <2>2. DOMAIN qs = DOMAIN ps /\ \A m \in DOMAIN ps : qs[m] = IF m = n THEN [ps[m] EXCEPT !.bytes = b] ELSE ps[m]
        BY <2>1 DEF GoodLevels
    <2>3. \A m \in DOMAIN ps : ps[m] = [bytes |-> ps[m].bytes, top |-> ps[m].top]
        BY DEF GoodLevels
    <2>4. \A m \in DOMAIN ps : qs[m] = [bytes |-> IF m = n THEN b ELSE ps[m].bytes, top |-> ps[m].top]
        BY <2>2, <2>3
    <2>5. qs = [m \in DOMAIN qs |-> [bytes |-> qs[m].bytes, top |-> qs[m].top]]
        BY <2>1, <2>2, <2>4 DEF GoodLevels
    <2>6. GoodLevels(qs, P, n)
        BY <1>1, <2>2, <2>4, <2>5 DEF GoodLevels
    <2>7. QED
        BY <1>3, <2>2, <2>4, <2>6 DEF qs, b
<1>4. CASE n \notin DOMAIN ps /\ Cardinality(DOMAIN ps) >= MaxParents
    <2>1. qs = ps
        BY <1>4 DEF CloseParent
    <2>2. QED
        BY <1>4, <2>1 DEF Refused
<1>5. CASE n \notin DOMAIN ps /\ ~(Cardinality(DOMAIN ps) >= MaxParents)
    <2> DEFINE D == DOMAIN ps \cup {n}
    <2>1. qs = [m \in D |-> IF m = n THEN [bytes |-> b, top |-> <<>>] ELSE ps[m]]
        BY <1>5 DEF CloseParent
    <2>2. Cardinality(D) <= MaxParents /\ D \subseteq Directories
        <3>1. Cardinality(D) = Cardinality(DOMAIN ps) + 1
            BY <1>2, <1>5, FS_AddElement
        <3>2. QED
            BY <1>2, <1>5, <3>1
    <2> HIDE DEF b, qs, D
    <2>3. DOMAIN qs = D /\ \A m \in D : qs[m] = IF m = n THEN [bytes |-> b, top |-> <<>>] ELSE ps[m]
        BY <2>1
    <2>4. \A m \in DOMAIN ps : ps[m] = [bytes |-> ps[m].bytes, top |-> ps[m].top]
        BY DEF GoodLevels
    <2>5. \A m \in D : qs[m] = [bytes |-> qs[m].bytes, top |-> qs[m].top]
        BY <2>3, <2>4 DEF D
    <2>6. qs = [m \in D |-> [bytes |-> qs[m].bytes, top |-> qs[m].top]]
        <3> DEFINE w == [m \in D |-> IF m = n THEN [bytes |-> b, top |-> <<>>] ELSE ps[m]]
        <3>1. \A m \in D : w[m] = qs[m]
            BY <2>3
        <3>2. QED
            BY <2>1, <2>5, <3>1
    <2>7. qs[n].bytes = b /\ qs[n].top = <<>>
        BY <2>3 DEF D
    <2>8. <<>> \in Seq(In(n)) /\ Len(<<>>) <= TopPerParent
        BY TreeConsts
    <2>9. ASSUME NEW m \in D
          PROVE  /\ qs[m].bytes \in Int
                 /\ qs[m].top \in Seq(In(m)) /\ Len(qs[m].top) <= TopPerParent
                 /\ m \in P /\ m # n => qs[m].bytes = Sizes(Below(m))
                 /\ m \notin P => Inner(m) /\ Depth(m) < LevelDepth
        <3>1. CASE m = n
            BY <1>1, <2>7, <2>8, <3>1
        <3>2. CASE m # n
            <4>1. m \in DOMAIN ps /\ qs[m] = ps[m]
                BY <2>3, <3>2 DEF D
            <4>2. QED
                BY <4>1 DEF GoodLevels
        <3>3. QED
            BY <3>1, <3>2
    <2>10. QED
        BY <2>2, <2>3, <2>6, <2>7, <2>9 DEF GoodLevels, D, qs, b
<1>6. QED
    BY <1>3, <1>4, <1>5

\* offer: the entry is in the level of the directory above, if that has one.
LEMMA OfferGood ==
    ASSUME own \in [Nodes -> Nat], NEW P \in SUBSET Nodes, NEW n \in P \ {Root}, NEW ps, GoodLevels(ps, P, n),
           Depth(n) <= LevelDepth, UpOf[n] \notin P, Inner(UpOf[n]),
           NEW kind, kind = IF Inner(n) THEN "DIRECTORY" ELSE "FILE"
    PROVE  /\ GoodLevels(Offer(ps, n, kind), P, n)
           /\ DOMAIN ps \subseteq DOMAIN Offer(ps, n, kind)
           /\ \A m \in DOMAIN ps : Offer(ps, n, kind)[m].bytes = ps[m].bytes
           /\ n \in DOMAIN Offer(ps, n, kind) => n \in DOMAIN ps
<1> DEFINE qs == Offer(ps, n, kind)
           up == UpOf[n]
           e == EntryOf(n)
           In(m) == {EntryOf(k) : k \in {j \in P \ {Root} : UpOf[j] = m /\ Depth(j) <= LevelDepth}}
<1>1. up \in Directories /\ up # n /\ Depth(up) < LevelDepth /\ up \notin P /\ Inner(up)
    <2>1. up \in Directories /\ up \in Nodes /\ up # n
        BY TreeConsts
    <2>2. Depth(n) = Depth(up) + 1 /\ Depth(up) \in Nat
        BY <2>1, DepthUp
    <2> HIDE DEF up
    <2>3. Depth(up) < LevelDepth
        BY <2>2, TreeConsts
    <2>4. QED
        BY <2>1, <2>3 DEF up
<1>2. IsFiniteSet(DOMAIN ps) /\ DOMAIN ps \subseteq Directories /\ Cardinality(DOMAIN ps) \in Nat /\ MaxParents \in Nat
    BY TreeConsts, FS_Subset, FS_CardinalityType DEF GoodLevels
<1>3. e = [path |-> n, bytes |-> Sizes(Below(n)), up |-> up, kind |-> kind]
    BY DEF EntryOf
<1>4. e \in In(up)
    OBVIOUS
<1> HIDE DEF e, up
<1>5. \A m \in DOMAIN ps : ps[m] = [bytes |-> ps[m].bytes, top |-> ps[m].top]
    BY DEF GoodLevels
<1>6. CASE up \in DOMAIN ps
    <2>1. qs = [ps EXCEPT ![up].top = Placed(@, e)]
        BY <1>3, <1>6 DEF Offer, up
    <2> HIDE DEF qs, In
    <2>2. DOMAIN qs = DOMAIN ps /\ \A m \in DOMAIN ps : qs[m] = IF m = up THEN [ps[m] EXCEPT !.top = Placed(ps[m].top, e)] ELSE ps[m]
        BY <2>1 DEF GoodLevels
    <2> DEFINE put(m) == IF m = up THEN Placed(ps[m].top, e) ELSE ps[m].top
    <2>12. \A m \in DOMAIN ps : qs[m] = [bytes |-> ps[m].bytes, top |-> put(m)]
        BY <1>5, <2>2
    <2> HIDE DEF put
    <2>3. ASSUME NEW m \in DOMAIN ps
          PROVE  qs[m] = [bytes |-> qs[m].bytes, top |-> qs[m].top] /\ qs[m].bytes = ps[m].bytes /\ qs[m].top = put(m)
        <3> DEFINE x == qs[m]
                   y == ps[m].bytes
                   z == put(m)
        <3>1. x = [bytes |-> y, top |-> z]
            BY <2>12
        <3> HIDE DEF x, y, z
        <3>2. x = [bytes |-> x.bytes, top |-> x.top] /\ x.bytes = y /\ x.top = z
            BY <3>1
        <3>3. QED
            BY <3>2 DEF x, y, z
    <2>4. qs = [m \in DOMAIN qs |-> [bytes |-> qs[m].bytes, top |-> qs[m].top]]
        BY <2>1, <2>2, <2>3 DEF GoodLevels
    <2>5. ps[up].top \in Seq(In(up)) /\ Len(ps[up].top) <= TopPerParent
        BY <1>6 DEF GoodLevels, In
    <2>6. Placed(ps[up].top, e) \in Seq(In(up)) /\ Len(Placed(ps[up].top, e)) <= TopPerParent
        BY <1>4, <2>5, PlacedIn
    <2>7. ASSUME NEW m \in DOMAIN ps
          PROVE  /\ qs[m].bytes = ps[m].bytes
                 /\ qs[m].top \in Seq(In(m)) /\ Len(qs[m].top) <= TopPerParent
        <3>1. CASE m = up
            <4>1. qs[m].top = Placed(ps[m].top, e)
                BY <2>3, <3>1 DEF put
            <4>2. qs[m].top = Placed(ps[up].top, e)
                BY <3>1, <4>1
            <4>3. qs[m].top \in Seq(In(up)) /\ Len(qs[m].top) <= TopPerParent
                BY <2>6, <4>2
            <4>4. In(m) = In(up)
                BY <3>1
            <4>5. qs[m].bytes = ps[m].bytes
                BY <2>3
            <4>6. QED
                BY <4>3, <4>4, <4>5
        <3>2. CASE m # up
            BY <2>3, <3>2 DEF GoodLevels, In, put
        <3>3. QED
            BY <3>1, <3>2
    <2>10. ASSUME NEW m \in DOMAIN ps
           PROVE  /\ qs[m].bytes \in Int
                  /\ m \in P /\ m # n => qs[m].bytes = Sizes(Below(m))
                  /\ m \notin P => Inner(m) /\ Depth(m) < LevelDepth
        BY <2>7 DEF GoodLevels
    <2>11. DOMAIN qs \subseteq Directories /\ Cardinality(DOMAIN qs) <= MaxParents
        BY <2>2 DEF GoodLevels
    <2>8. GoodLevels(qs, P, n)
        BY <2>2, <2>4, <2>7, <2>10, <2>11 DEF GoodLevels, In
    <2>9. QED
        BY <1>1, <2>2, <2>7, <2>8 DEF qs
<1>7. CASE up \notin DOMAIN ps /\ Cardinality(DOMAIN ps) >= MaxParents
    <2>1. qs = ps
        BY <1>7 DEF Offer, up
    <2>2. QED
        BY <2>1
<1>8. CASE up \notin DOMAIN ps /\ ~(Cardinality(DOMAIN ps) >= MaxParents)
    <2> DEFINE D == DOMAIN ps \cup {up}
    <2>1. qs = [m \in D |-> IF m = up THEN [bytes |-> 0, top |-> <<e>>] ELSE ps[m]]
        BY <1>3, <1>8 DEF Offer, up
    <2>2. Cardinality(D) <= MaxParents /\ D \subseteq Directories
        <3>1. Cardinality(D) = Cardinality(DOMAIN ps) + 1
            BY <1>2, <1>8, FS_AddElement
        <3>2. QED
            BY <1>1, <1>2, <1>8, <3>1
    <2> HIDE DEF qs, D, In
    <2>3. DOMAIN qs = D /\ \A m \in D : qs[m] = IF m = up THEN [bytes |-> 0, top |-> <<e>>] ELSE ps[m]
        BY <2>1
    <2>4. \A m \in D : qs[m] = [bytes |-> qs[m].bytes, top |-> qs[m].top]
        BY <1>5, <2>3 DEF D
    <2>5. qs = [m \in D |-> [bytes |-> qs[m].bytes, top |-> qs[m].top]]
        <3> DEFINE w == [m \in D |-> IF m = up THEN [bytes |-> 0, top |-> <<e>>] ELSE ps[m]]
        <3>1. \A m \in D : w[m] = qs[m]
            BY <2>3
        <3>2. QED
            BY <2>1, <2>4, <3>1
    <2>6. qs[up].bytes = 0 /\ qs[up].top = <<e>>
        BY <2>3 DEF D
    <2>7. <<e>> \in Seq(In(up)) /\ Len(<<e>>) <= TopPerParent
        BY <1>4, TreeConsts DEF In
    <2>8. ASSUME NEW m \in D
          PROVE  /\ qs[m].bytes \in Int
                 /\ qs[m].top \in Seq(In(m)) /\ Len(qs[m].top) <= TopPerParent
                 /\ m \in P /\ m # n => qs[m].bytes = Sizes(Below(m))
                 /\ m \notin P => Inner(m) /\ Depth(m) < LevelDepth
        <3>1. CASE m = up
            <4>4. In(m) = In(up)
                BY <3>1
            <4>5. qs[m].bytes = 0 /\ qs[m].top = <<e>>
                BY <2>6, <3>1
            <4>6. qs[m].top \in Seq(In(up)) /\ Len(qs[m].top) <= TopPerParent
                BY <2>7, <4>5
            <4>1. qs[m].bytes \in Int /\ qs[m].top \in Seq(In(m)) /\ Len(qs[m].top) <= TopPerParent
                BY <4>4, <4>5, <4>6
            <4>2. m \notin P /\ Inner(m) /\ Depth(m) < LevelDepth
                BY <1>1, <3>1
            <4>3. QED
                BY <4>1, <4>2
        <3>2. CASE m # up
            <4>1. m \in DOMAIN ps /\ qs[m] = ps[m]
                BY <2>3, <3>2 DEF D
            <4>2. QED
                BY <4>1 DEF GoodLevels, In
        <3>3. QED
            BY <3>1, <3>2
    <2>9. GoodLevels(qs, P, n)
        BY <2>2, <2>3, <2>5, <2>8 DEF GoodLevels, In
    <2>10. DOMAIN ps \subseteq DOMAIN qs /\ (n \in DOMAIN qs => n \in DOMAIN ps)
        BY <1>1, <2>3 DEF D
    <2>11. \A m \in DOMAIN ps : qs[m].bytes = ps[m].bytes
        BY <1>8, <2>3 DEF D
    <2>12. QED
        BY <2>9, <2>10, <2>11 DEF qs
<1>9. QED
    BY <1>6, <1>7, <1>8

LEMMA SeqWider == ASSUME NEW S, NEW T, S \subseteq T, NEW s \in Seq(S) PROVE s \in Seq(T)
<1>1. Len(s) \in Nat /\ s \in [1 .. Len(s) -> S]
    OBVIOUS
<1>2. s \in [1 .. Len(s) -> T]
    BY <1>1
<1>3. QED
    BY <1>1, <1>2

\* What was printed stays, and what is printed is of the directory du is in.
LEMMA AddWalks ==
    ASSUME WalkInv, NEW n \in Nodes, TreeAdd(n)
    PROVE  WalkInv'
<1>1. /\ phase = "walk" /\ PostOrder(n) /\ printed' = printed \cup {n} /\ last' = n
      /\ own' = own /\ files' = files
      /\ IF n = Root THEN phase' = "levels" ELSE rows' = rows /\ front' = front /\ phase' = phase
    BY DEF TreeAdd
<1>2. cut' \in BOOLEAN
    BY DEF TreeAdd, Refused, WalkInv
<1>3. /\ n \in Records \ printed /\ (Below(n) \cap Records) \ {n} \subseteq printed
      /\ \A d \in Records \ printed : Below(d) \cap printed # {} => n \in Below(d)
    BY <1>1 DEF PostOrder
<1>4. Records' = Records /\ \A d : Below(d)' = Below(d)
    BY <1>1 DEF Records, Below
<1>5. /\ own \in [Nodes -> Nat] /\ files \in BOOLEAN /\ printed \subseteq Records
      /\ \A d \in printed : Below(d) \cap Records \subseteq printed
      /\ phase \in {"idle", "walk"} => Root \notin printed /\ rows = {} /\ front = <<>>
    BY DEF WalkInv
<1>6. printed' \subseteq Records'
    BY <1>1, <1>3, <1>4, <1>5
<1>7. \A d \in printed' : Below(d) \cap Records \subseteq printed'
    BY <1>1, <1>3, <1>5
<1>8. n # Root => UpOf[n] \notin printed'
    <2> SUFFICES ASSUME n # Root PROVE UpOf[n] \notin printed'
        OBVIOUS
    <2>1. n \in Below(UpOf[n]) /\ n # UpOf[n]
        BY BelowIs
    <2>2. UpOf[n] \notin printed
        BY <1>3, <1>5, <2>1
    <2>3. QED
        BY <1>1, <2>1, <2>2
<1>9. \A d \in Records \ printed' : Below(d) \cap printed' # {} => n \in Below(d)
    BY <1>1, <1>3
<1>10. printed' # {} /\ last' \in printed'
    BY <1>1
<1>11. /\ phase' \in {"walk", "levels"}
       /\ phase' = "walk" => Root \notin printed' /\ rows' = {} /\ front' = <<>>
       /\ phase' = "levels" => Root \in printed'
    <2>1. CASE n = Root
        BY <1>1, <2>1
    <2>2. CASE n # Root
        BY <1>1, <1>5, <2>2
    <2>3. QED
        BY <2>1, <2>2
<1>12. QED
    BY <1>1, <1>2, <1>4, <1>5, <1>6, <1>7, <1>8, <1>9, <1>10, <1>11 DEF WalkInv

LEMMA AddLevels ==
    ASSUME WalkInv, ParentsInv, NEW n \in Nodes, TreeAdd(n)
    PROVE  ParentsInv'
<1> DEFINE P == printed'
           directory == LooksDirectory(n)
           closes    == n = Root \/ (directory /\ Depth(n) < LevelDepth)
           offers    == n # Root /\ Depth(n) <= LevelDepth
           closed    == IF closes THEN CloseParent(parents, n) ELSE parents
           kind      == IF directory THEN "DIRECTORY" ELSE "FILE"
<1>1. /\ PostOrder(n) /\ printed' = printed \cup {n} /\ own' = own /\ files' = files
      /\ parents' = IF offers THEN Offer(closed, n, kind) ELSE closed
      /\ cut' = (cut \/ (closes /\ Refused(parents, n)) \/ (offers /\ Refused(closed, UpOf[n])))
    BY DEF TreeAdd
<1>2. directory <=> n = Root \/ Inner(n)
    BY <1>1, LooksRight
<1>3. n \in Records \ printed /\ P \in SUBSET Nodes /\ own \in [Nodes -> Nat] /\ n \in P
    BY <1>1, RecordsIn DEF PostOrder, WalkInv
<1>4. WalkInv'
    BY AddWalks
<1>5. GoodLevels(parents, P, n)
    <2>1. ASSUME NEW m \in DOMAIN parents
          PROVE  parents[m].top \in Seq({EntryOf(k) : k \in {j \in P \ {Root} : UpOf[j] = m /\ Depth(j) <= LevelDepth}})
        <3>1. EntriesIn(m) \subseteq {EntryOf(k) : k \in {j \in P \ {Root} : UpOf[j] = m /\ Depth(j) <= LevelDepth}}
            BY <1>1 DEF EntriesIn
        <3>2. parents[m].top \in Seq(EntriesIn(m))
            BY DEF ParentsInv
        <3>3. QED
            BY <3>1, <3>2, SeqWider
    <2>2. ASSUME NEW m \in DOMAIN parents
          PROVE  /\ parents[m].bytes \in Int /\ Len(parents[m].top) <= TopPerParent
                 /\ m \in P /\ m # n => parents[m].bytes = Sizes(Below(m))
                 /\ m \notin P => Inner(m) /\ Depth(m) < LevelDepth
        BY <1>1 DEF ParentsInv
    <2>3. /\ DOMAIN parents \subseteq Directories /\ Cardinality(DOMAIN parents) <= MaxParents
          /\ parents = [m \in DOMAIN parents |-> [bytes |-> parents[m].bytes, top |-> parents[m].top]]
        BY DEF ParentsInv
    <2> HIDE DEF P
    <2>4. QED
        BY <2>1, <2>2, <2>3 DEF GoodLevels
<1>6. closes => n \in Directories
    <2>1. Inner(n) => n \in Directories
        <3> SUFFICES ASSUME Inner(n) PROVE n \in Directories
            OBVIOUS
        <3>1. PICK m \in Below(n) : m # n
            BY DEF Inner
        <3>2. QED
            BY <3>1, BelowIs
    <2>2. QED
        BY <1>2, <2>1, TreeConsts
<1>7. n \in DOMAIN parents => closes
    BY <1>2, <1>3 DEF ParentsInv
<1> HIDE DEF P, directory
<1>8. /\ GoodLevels(closed, P, n) /\ DOMAIN parents \subseteq DOMAIN closed
      /\ n \in DOMAIN closed => closed[n].bytes = Sizes(Below(n))
      /\ closes /\ ~Refused(parents, n) => n \in DOMAIN closed
    <2>1. CASE closes
        <3>1. closed = CloseParent(parents, n)
            BY <2>1
        <3> HIDE DEF closed
        <3>2. QED
            BY <1>3, <1>5, <1>6, <2>1, <3>1, CloseGood
    <2>2. CASE ~closes
        BY <1>5, <1>7, <2>2
    <2>3. QED
        BY <2>1, <2>2
<1> HIDE DEF closed, closes
<1>9. /\ GoodLevels(parents', P, n) /\ DOMAIN closed \subseteq DOMAIN parents'
      /\ n \in DOMAIN parents' => parents'[n].bytes = Sizes(Below(n))
    <2>1. CASE offers
        <3>1. n # Root /\ Depth(n) <= LevelDepth /\ n \in P \ {Root}
            BY <1>3, <2>1
        <3>2. UpOf[n] \notin P
            BY <1>3, <1>4, <3>1 DEF WalkInv, P, TreeAdd
        <3>3. Inner(UpOf[n])
            BY <1>3, <3>1, BelowIs DEF Inner
        <3>4. kind = IF Inner(n) THEN "DIRECTORY" ELSE "FILE"
            BY <1>2, <3>1
        <3> HIDE DEF kind
        <3>5. parents' = Offer(closed, n, kind)
            BY <1>1, <2>1
        <3>6. /\ GoodLevels(parents', P, n) /\ DOMAIN closed \subseteq DOMAIN parents'
              /\ \A m \in DOMAIN closed : parents'[m].bytes = closed[m].bytes
              /\ n \in DOMAIN parents' => n \in DOMAIN closed
            BY <1>3, <1>8, <3>1, <3>2, <3>3, <3>4, <3>5, OfferGood
        <3>7. QED
            BY <1>8, <3>6
    <2>2. CASE ~offers
        BY <1>1, <1>8, <2>2
    <2>3. QED
        BY <2>1, <2>2
<1>10. /\ \A m : Inner(m)' <=> Inner(m)
       /\ \A k \in Nodes : EntryOf(k)' = EntryOf(k)
    BY <1>1, TreeStays
<1>11. ASSUME NEW m PROVE Sizes(Below(m))' = Sizes(Below(m))
    BY <1>1, SizesStay DEF Below
<1>12. ASSUME NEW m PROVE EntriesIn(m)' = {EntryOf(k) : k \in {j \in P \ {Root} : UpOf[j] = m /\ Depth(j) <= LevelDepth}}
    <2> DEFINE K == {j \in P \ {Root} : UpOf[j] = m /\ Depth(j) <= LevelDepth}
    <2>1. EntriesIn(m)' = {EntryOf(k)' : k \in K}
        BY DEF EntriesIn, P, Depth
    <2>2. \A k \in K : EntryOf(k)' = EntryOf(k)
        BY <1>3, <1>10
    <2> HIDE DEF K
    <2>3. QED
        BY <2>1, <2>2 DEF K
<1>13. ASSUME NEW m \in DOMAIN parents'
       PROVE  /\ parents'[m].bytes \in Int
              /\ parents'[m].top \in Seq(EntriesIn(m)') /\ Len(parents'[m].top) <= TopPerParent
              /\ m \in printed' => parents'[m].bytes = Sizes(Below(m))'
              /\ m \notin printed' => Inner(m)' /\ (Depth(m) < LevelDepth)'
    <2>1. parents'[m].top \in Seq(EntriesIn(m)')
        BY <1>9, <1>12 DEF GoodLevels
    <2>2. m \in P => parents'[m].bytes = Sizes(Below(m))
        BY <1>9 DEF GoodLevels
    <2>3. parents'[m].bytes \in Int /\ Len(parents'[m].top) <= TopPerParent /\ (m \notin P => Inner(m) /\ Depth(m) < LevelDepth)
        BY <1>9 DEF GoodLevels
    <2>4. QED
        BY <1>10, <1>11, <2>1, <2>2, <2>3 DEF P, Depth
<1>14. ASSUME NEW m \in printed', m = Root \/ (Inner(m) /\ Depth(m) < LevelDepth) PROVE m \in DOMAIN parents' \/ cut'
    <2>1. CASE m = n
        <3>1. closes
            BY <1>2, <1>14, <2>1 DEF closes
        <3>2. QED
            BY <1>1, <1>8, <1>9, <2>1, <3>1
    <2>2. CASE m # n
        <3>1. m \in DOMAIN parents \/ cut
            BY <1>1, <1>14, <2>2 DEF ParentsInv
        <3>2. QED
            BY <1>1, <1>8, <1>9, <3>1
    <2>3. QED
        BY <2>1, <2>2
<1>15. /\ DOMAIN parents' \subseteq Directories /\ Cardinality(DOMAIN parents') <= MaxParents
       /\ parents' = [m \in DOMAIN parents' |-> [bytes |-> parents'[m].bytes, top |-> parents'[m].top]]
    BY <1>9 DEF GoodLevels
<1>16. QED
    BY <1>10, <1>13, <1>14, <1>15 DEF ParentsInv, Depth

\* The last record opens the result, with the root alone in it.
LEMMA AddRows ==
    ASSUME TreeInv, NEW n \in Nodes, TreeAdd(n)
    PROVE  RowsInv'
<1>1. /\ phase = "walk" /\ own' = own /\ files' = files
      /\ IF n = Root THEN rows' = {RootRow} /\ front' = <<Root>> /\ phase' = "levels" ELSE phase' = phase
    BY DEF TreeAdd, RootRow
<1>2. CASE n # Root
    BY <1>1, <1>2 DEF RowsInv
<1>3. CASE n = Root
    <2>1. rows' = {RootRow} /\ front' = <<Root>> /\ phase' = "levels"
        BY <1>1, <1>3
    <2>2. IsFiniteSet(rows') /\ Cardinality(rows') <= MaxEntries + 1
        <3>1. IsFiniteSet(rows') /\ Cardinality(rows') = 1
            BY <2>1, FS_Singleton
        <3>2. MaxEntries \in Nat
            BY TreeConsts
        <3>3. QED
            BY <3>1, <3>2
    <2>3. front' \in Seq(Directories) /\ Root \in ToSet(front')
        <3>1. front' \in Seq(Directories) /\ DOMAIN front' = {1} /\ front'[1] = Root
            BY <2>1, TreeConsts
        <3>2. QED
            BY <3>1 DEF ToSet
    <2>4. RootRow' = RootRow
        BY <1>1, TreeStays
    <2>5. RootRow.up = "none" /\ RootRow.path = Root
        BY DEF RootRow
    <2>6. DOMAIN parents' \subseteq Nodes
        <3>1. ParentsInv'
            BY AddLevels DEF TreeInv
        <3>2. QED
            BY <3>1, TreeConsts DEF ParentsInv
    <2>7. \A m \in DOMAIN parents' : \A r \in rows' : r.up # m
        BY <2>1, <2>5, <2>6, TreeConsts
    <2>8. \A r \in rows' : r = RootRow' /\ r.path \in ToSet(front')
        BY <2>1, <2>3, <2>4, <2>5
    <2>9. QED
        BY <2>1, <2>2, <2>3, <2>7, <2>8 DEF RowsInv, ToSet
<1>4. QED
    BY <1>2, <1>3

\* What a level is made of, and that it adds up.
LEMMA LevelIs ==
    ASSUME TreeInv, NEW m \in DOMAIN parents
    PROVE  /\ \E E : LevelOf(m) \in Seq(E)
           /\ \A e \in ToSet(LevelOf(m)) : e.up = m /\ (e \in EntriesIn(m) \/ (e.kind = "OTHER" /\ e.path = m))
           /\ Bytes(ToSet(LevelOf(m))) = parents[m].bytes
<1> DEFINE floor == Sizes(Nodes) \div FloorPart
           top   == parents[m].top
           I     == {i \in DOMAIN top : top[i].bytes >= floor}
           kept  == Picked(top, I)
           other == parents[m].bytes - Bytes(ToSet(kept))
           o     == [path |-> m, bytes |-> other, up |-> m, kind |-> "OTHER"]
           E     == EntriesIn(m) \cup {o}
<1>1. LevelOf(m) = IF other = 0 THEN kept ELSE Append(kept, o)
    BY DEF LevelOf
<1>2. top \in Seq(EntriesIn(m)) /\ parents[m].bytes \in Int
    BY DEF TreeInv, ParentsInv
<1>3. I \in SUBSET DOMAIN top
    OBVIOUS
<1> HIDE DEF I, top, floor
<1>4. kept \in Seq(EntriesIn(m))
    BY <1>2, <1>3, PickedSeq
<1>5. IsFiniteSet(ToSet(kept)) /\ ToSet(kept) \subseteq EntriesIn(m)
    BY <1>4, ToSetSize
<1>6. \A e \in EntriesIn(m) : e.up = m /\ e.kind # "OTHER" /\ e.bytes \in Int
    <2> SUFFICES ASSUME NEW k \in printed \ {Root}, UpOf[k] = m
                 PROVE  EntryOf(k).up = m /\ EntryOf(k).kind # "OTHER" /\ EntryOf(k).bytes \in Int
        BY DEF EntriesIn
    <2>1. k \in Nodes /\ own \in [Nodes -> Nat]
        BY RecordsIn DEF TreeInv, WalkInv
    <2>2. Sizes(Below(k)) \in Int
        BY <2>1, BelowIs, SizesInt
    <2>3. QED
        BY <2>2 DEF EntryOf
<1>7. Bytes(ToSet(kept)) \in Int
    BY <1>5, <1>6, BytesInt
<1> HIDE DEF kept
<1>8. other \in Int /\ other + Bytes(ToSet(kept)) = parents[m].bytes
    BY <1>2, <1>7
<1>9. CASE other = 0
    <2>1. Bytes(ToSet(kept)) = parents[m].bytes
        BY <1>7, <1>8, <1>9
    <2> HIDE DEF other, o
    <2>2. LevelOf(m) = kept
        BY <1>1, <1>9
    <2>3. QED
        BY <1>4, <1>5, <1>6, <2>1, <2>2
<1>10. CASE other # 0
    <2>1. o.up = m /\ o.kind = "OTHER" /\ o.path = m /\ o.bytes = other
        OBVIOUS
    <2> HIDE DEF other, o
    <2>2. LevelOf(m) = Append(kept, o)
        BY <1>1, <1>10
    <2> DEFINE S == ToSet(kept)
    <2>3. o \notin S
        BY <1>5, <1>6, <2>1
    <2>4. kept \in Seq(E)
        BY <1>4, SeqWider
    <2>5. o \in E
        OBVIOUS
    <2> HIDE DEF E
    <2>6. Append(kept, o) \in Seq(E) /\ ToSet(Append(kept, o)) = S \cup {o}
        <3>1. /\ Append(kept, o) \in Seq(E) /\ Len(Append(kept, o)) = Len(kept) + 1 /\ Len(kept) \in Nat
              /\ DOMAIN kept = 1 .. Len(kept)
            BY <2>4, <2>5
        <3>2. \A i \in 1 .. Len(kept) : Append(kept, o)[i] = kept[i]
            BY <2>4, <2>5
        <3>3. Append(kept, o)[Len(kept) + 1] = o
            BY <2>4, <2>5
        <3> DEFINE t == Append(kept, o)
        <3>4. DOMAIN t = 1 .. Len(kept) + 1
            BY <3>1
        <3> HIDE DEF t
        <3>5. \A x \in ToSet(t) : x \in S \cup {o}
            BY <3>1, <3>2, <3>3, <3>4 DEF ToSet, t
        <3>6. \A x \in S \cup {o} : x \in ToSet(t)
            BY <3>1, <3>2, <3>3, <3>4 DEF ToSet, t
        <3>7. QED
            BY <3>1, <3>5, <3>6 DEF t
    <2> HIDE DEF S
    <2>7. Bytes(S \cup {o}) = Bytes(S) + o.bytes
        <3>1. \A x \in S \cup {o} : x.bytes \in Int
            BY <1>5, <1>6, <1>8, <2>1 DEF S
        <3>2. IsFiniteSet(S)
            BY <1>5 DEF S
        <3>3. QED
            BY <2>3, <3>1, <3>2, BytesAdd DEF S
    <2>8. Bytes(S \cup {o}) = parents[m].bytes
        <3>1. Bytes(S) \in Int /\ other \in Int /\ other + Bytes(S) = parents[m].bytes
            BY <1>7, <1>8 DEF S
        <3>2. QED
            BY <2>1, <2>7, <3>1
    <2>9. QED
        BY <1>5, <1>6, <2>1, <2>2, <2>6, <2>8 DEF S
<1>11. QED
    BY <1>9, <1>10

\* Once the root is printed everything is.
LEMMA AllPrinted ==
    ASSUME TreeInv, phase \in {"levels", "done"}
    PROVE  printed = Records /\ Directories \subseteq printed
<1>1. Below(Root) = Nodes /\ Root \in printed /\ printed \subseteq Records
    BY BelowIs DEF TreeInv, WalkInv
<1>2. Records \subseteq Nodes /\ Directories \subseteq Records
    BY RecordsIn DEF TreeInv
<1>3. Below(Root) \cap Records \subseteq printed
    BY <1>1 DEF TreeInv, WalkInv
<1>4. QED
    BY <1>1, <1>2, <1>3

\* An entry of a level that can be drilled into is a directory.
LEMMA DrillsAreDirectories ==
    ASSUME TreeInv, NEW m, NEW e \in EntriesIn(m)
    PROVE  /\ e.kind \in {"DIRECTORY", "FILE"} /\ e.path \in Nodes /\ e.path # Root /\ e.bytes = Sizes(Below(e.path))
           /\ e.kind = "DIRECTORY" <=> Inner(e.path)
           /\ e.kind = "DIRECTORY" => e.path \in Directories
<1>1. PICK k \in printed \ {Root} : e = EntryOf(k)
    BY DEF EntriesIn
<1>2. k \in Nodes
    BY RecordsIn DEF TreeInv
<1>3. Inner(k) => k \in Directories
    <2> SUFFICES ASSUME Inner(k) PROVE k \in Directories
        OBVIOUS
    <2>1. PICK j \in Below(k) : j # k
        BY DEF Inner
    <2>2. QED
        BY <1>2, <2>1, BelowIs
<1>4. QED
    BY <1>1, <1>2, <1>3 DEF EntryOf

LEMMA ConcatSet ==
    ASSUME NEW S, NEW s \in Seq(S), NEW t \in Seq(S)
    PROVE  s \o t \in Seq(S) /\ ToSet(s \o t) = ToSet(s) \cup ToSet(t)
<1> DEFINE u == s \o t
           a == Len(s)
           b == Len(t)
<1>1. /\ u \in Seq(S) /\ DOMAIN u = 1 .. a + b /\ DOMAIN s = 1 .. a /\ DOMAIN t = 1 .. b
      /\ a \in Nat /\ b \in Nat
    OBVIOUS
<1>2. /\ \A i \in 1 .. a : u[i] = s[i]
      /\ \A i \in 1 .. b : u[a + i] = t[i]
    OBVIOUS
<1> HIDE DEF u, a, b
<1>3. \A x \in ToSet(u) : x \in ToSet(s) \cup ToSet(t)
    <2> SUFFICES ASSUME NEW i \in 1 .. a + b PROVE u[i] \in ToSet(s) \cup ToSet(t)
        BY <1>1 DEF ToSet
    <2>1. CASE i \in 1 .. a
        BY <1>1, <1>2, <2>1 DEF ToSet
    <2>2. CASE i \notin 1 .. a
        <3>1. i - a \in 1 .. b /\ i = a + (i - a)
            BY <1>1, <2>2
        <3>2. u[i] = t[i - a]
            BY <1>2, <3>1
        <3>3. QED
            BY <1>1, <3>1, <3>2 DEF ToSet
    <2>3. QED
        BY <2>1, <2>2
<1>4. \A x \in ToSet(s) : x \in ToSet(u)
    <2> SUFFICES ASSUME NEW i \in 1 .. a PROVE s[i] \in ToSet(u)
        BY <1>1 DEF ToSet
    <2>1. i \in 1 .. a + b /\ u[i] = s[i]
        BY <1>1, <1>2
    <2>2. QED
        BY <1>1, <2>1 DEF ToSet
<1>5. \A x \in ToSet(t) : x \in ToSet(u)
    <2> SUFFICES ASSUME NEW i \in 1 .. b PROVE t[i] \in ToSet(u)
        BY <1>1 DEF ToSet
    <2>1. a + i \in 1 .. a + b /\ u[a + i] = t[i]
        BY <1>1, <1>2
    <2>2. QED
        BY <1>1, <2>1 DEF ToSet
<1>6. QED
    BY <1>1, <1>3, <1>4, <1>5 DEF u

LEMMA HeadAndTail ==
    ASSUME NEW S, NEW s \in Seq(S), s # <<>>
    PROVE  Head(s) \in S /\ Tail(s) \in Seq(S) /\ ToSet(s) = {Head(s)} \cup ToSet(Tail(s))
<1> DEFINE t == Tail(s)
           a == Len(s)
<1>1. /\ Head(s) = s[1] /\ t \in Seq(S) /\ DOMAIN t = 1 .. a - 1 /\ DOMAIN s = 1 .. a
      /\ a \in Nat /\ a >= 1 /\ s[1] \in S
    OBVIOUS
<1>2. \A i \in 1 .. a - 1 : t[i] = s[i + 1]
    OBVIOUS
<1> HIDE DEF t, a
<1>3. \A x \in ToSet(s) : x \in {s[1]} \cup ToSet(t)
    <2> SUFFICES ASSUME NEW i \in 1 .. a, i # 1 PROVE s[i] \in ToSet(t)
        BY <1>1 DEF ToSet
    <2>1. i - 1 \in 1 .. a - 1 /\ i = (i - 1) + 1
        BY <1>1
    <2>2. t[i - 1] = s[i]
        BY <1>2, <2>1
    <2>3. QED
        BY <1>1, <2>1, <2>2 DEF ToSet
<1>4. \A x \in ToSet(t) : x \in ToSet(s)
    <2> SUFFICES ASSUME NEW i \in 1 .. a - 1 PROVE t[i] \in ToSet(s)
        BY <1>1 DEF ToSet
    <2>1. i + 1 \in 1 .. a /\ t[i] = s[i + 1]
        BY <1>1, <1>2
    <2>2. QED
        BY <1>1, <2>1 DEF ToSet
<1>5. s[1] \in ToSet(s)
    BY <1>1 DEF ToSet
<1>6. QED
    BY <1>1, <1>3, <1>4, <1>5 DEF t

\* What stays while the levels are emitted.
LEMMA EmitStays ==
    ASSUME TreeInv, UNCHANGED <<own, files, printed, last, parents>>, cut' = cut \/ cut' = TRUE,
           phase \in {"levels", "done"}, phase' \in {"levels", "done"}
    PROVE  WalkInv' /\ ParentsInv'
<1>1. /\ Records' = Records /\ \A m : Inner(m)' <=> Inner(m)
      /\ \A k \in Nodes : EntryOf(k)' = EntryOf(k)
    BY TreeStays
<1>2. ASSUME NEW m PROVE Sizes(Below(m))' = Sizes(Below(m))
    BY SizesStay DEF Below
<1>3. WalkInv'
    <2>1. \A m : Below(m)' = Below(m)
        BY DEF Below
    <2>2. cut' \in BOOLEAN
        BY DEF TreeInv, WalkInv
    <2>3. QED
        BY <1>1, <2>1, <2>2 DEF TreeInv, WalkInv
<1>4. ASSUME NEW m PROVE EntriesIn(m)' = EntriesIn(m)
    <2> DEFINE K == {j \in printed \ {Root} : UpOf[j] = m /\ Depth(j) <= LevelDepth}
    <2>1. EntriesIn(m)' = {EntryOf(k)' : k \in K}
        BY DEF EntriesIn, Depth
    <2>2. \A k \in K : EntryOf(k)' = EntryOf(k)
        BY <1>1, RecordsIn DEF TreeInv
    <2>3. EntriesIn(m) = {EntryOf(k) : k \in K}
        BY DEF EntriesIn
    <2> HIDE DEF K
    <2>4. QED
        BY <2>1, <2>2, <2>3
<1>5. ASSUME NEW m \in DOMAIN parents
      PROVE  /\ parents'[m].bytes \in Int
             /\ parents'[m].top \in Seq(EntriesIn(m)') /\ Len(parents'[m].top) <= TopPerParent
             /\ m \in printed' => parents'[m].bytes = Sizes(Below(m))'
             /\ m \notin printed' => Inner(m)' /\ (Depth(m) < LevelDepth)'
    <2>1. parents'[m].top \in Seq(EntriesIn(m)')
        BY <1>4 DEF TreeInv, ParentsInv
    <2>2. QED
        BY <1>1, <1>2, <2>1 DEF TreeInv, ParentsInv, Depth
<1>6. \A m \in printed : m = Root \/ (Inner(m)' /\ Depth(m) < LevelDepth) => m \in DOMAIN parents \/ cut'
    BY <1>1 DEF TreeInv, ParentsInv
<1>7. QED
    BY <1>3, <1>5, <1>6 DEF TreeInv, ParentsInv, Depth

LEMMA EmitRows == ASSUME TreeInv, TreeEmit PROVE RowsInv'
<1> DEFINE m == Head(front)
<1>1. /\ phase = "levels" /\ front # <<>> /\ UNCHANGED <<own, files, printed, last, parents, phase>>
    BY DEF TreeEmit
<1>2. /\ IsFiniteSet(rows) /\ Cardinality(rows) <= MaxEntries + 1 /\ front \in Seq(Directories)
      /\ \A r \in rows : r = RootRow \/ \E d \in DOMAIN parents : r \in ToSet(LevelOf(d))
      /\ \A d \in DOMAIN parents : ToSet(LevelOf(d)) \subseteq rows \/ \A r \in rows : r.up # d
      /\ \A r \in rows : r.kind = "DIRECTORY" /\ Depth(r.path) < LevelDepth =>
            \/ cut \/ r.path \in ToSet(front) \/ r.path \notin DOMAIN parents
            \/ ToSet(LevelOf(r.path)) \subseteq rows
    BY <1>1 DEF TreeInv, RowsInv
<1>3. /\ \A d : LevelOf(d)' = LevelOf(d)
      /\ RootRow' = RootRow
    BY <1>1, LevelStays, TreeStays
<1>4. m \in Directories /\ Tail(front) \in Seq(Directories) /\ ToSet(front) = {m} \cup ToSet(Tail(front))
    BY <1>1, <1>2, HeadAndTail
<1> HIDE DEF m
<1>5. CASE m \notin DOMAIN parents
    <2>1. front' = Tail(front) /\ rows' = rows /\ cut' = cut
        BY <1>5 DEF TreeEmit, m
    <2>2. \A r \in rows' : r.kind = "DIRECTORY" /\ Depth(r.path) < LevelDepth =>
            \/ cut' \/ r.path \in ToSet(front') \/ r.path \notin DOMAIN parents'
            \/ ToSet(LevelOf(r.path)) \subseteq rows'
        BY <1>1, <1>2, <1>4, <1>5, <2>1
    <2>3. \A r \in rows' : r = RootRow' \/ \E d \in DOMAIN parents' : r \in ToSet(LevelOf(d)')
        BY <1>1, <1>2, <1>3, <2>1
    <2>4. \A d \in DOMAIN parents' : ToSet(LevelOf(d)') \subseteq rows' \/ \A r \in rows' : r.up # d
        BY <1>1, <1>2, <1>3, <2>1
    <2>5. QED
        BY <1>1, <1>2, <1>3, <1>4, <2>1, <2>2, <2>3, <2>4 DEF RowsInv, ToSet, Depth
<1>6. CASE m \in DOMAIN parents
    <2> DEFINE level == LevelOf(m)
               J     == {i \in DOMAIN level : level[i].kind = "DIRECTORY" /\ Depth(level[i].path) < LevelDepth}
               drill == Picked(level, J)
               f     == [i \in DOMAIN drill |-> drill[i].path]
    <2>1. \/ /\ Cardinality(rows) + Len(level) > MaxEntries
             /\ front' = <<>> /\ cut' = TRUE /\ rows' = rows
          \/ /\ ~(Cardinality(rows) + Len(level) > MaxEntries)
             /\ rows' = rows \cup ToSet(level) /\ front' = Tail(front) \o f /\ cut' = cut
        BY <1>6 DEF TreeEmit, m
    <2>2. /\ \E E : level \in Seq(E)
          /\ \A e \in ToSet(level) : e.up = m /\ (e \in EntriesIn(m) \/ (e.kind = "OTHER" /\ e.path = m))
        BY <1>6, LevelIs
    <2>3. PICK E : level \in Seq(E)
        BY <2>2
    <2>4. IsFiniteSet(ToSet(level)) /\ Cardinality(ToSet(level)) <= Len(level) /\ Len(level) \in Nat
        <3> HIDE DEF level
        <3>1. QED
            BY <2>3, ToSetSize
    <2>5. CASE Cardinality(rows) + Len(level) > MaxEntries /\ front' = <<>> /\ cut' = TRUE /\ rows' = rows
        <3>1. \A r \in rows' : r = RootRow' \/ \E d \in DOMAIN parents' : r \in ToSet(LevelOf(d)')
            BY <1>1, <1>2, <1>3, <2>5
        <3>2. \A d \in DOMAIN parents' : ToSet(LevelOf(d)') \subseteq rows' \/ \A r \in rows' : r.up # d
            BY <1>1, <1>2, <1>3, <2>5
        <3>3. front' \in Seq(Directories)
            BY <2>5
        <3> HIDE DEF level, drill, f, J
        <3>4. QED
            BY <1>1, <1>2, <1>3, <2>5, <3>1, <3>2, <3>3 DEF RowsInv, ToSet, Depth
    <2>6. CASE /\ ~(Cardinality(rows) + Len(level) > MaxEntries)
               /\ rows' = rows \cup ToSet(level) /\ front' = Tail(front) \o f /\ cut' = cut
        <3>1. IsFiniteSet(rows') /\ Cardinality(rows') <= MaxEntries + 1
            <4> DEFINE T == ToSet(level)
                       l == Len(level)
            <4>1. /\ IsFiniteSet(T) /\ Cardinality(T) <= l /\ l \in Nat /\ rows' = rows \cup T
                  /\ ~(Cardinality(rows) + l > MaxEntries) /\ IsFiniteSet(rows)
                BY <1>2, <2>4, <2>6
            <4> HIDE DEF T, l
            <4>2. IsFiniteSet(rows \cap T)
                BY <4>1, FS_Intersection
            <4>3. /\ IsFiniteSet(rows') /\ Cardinality(rows') = Cardinality(rows) + Cardinality(T) - Cardinality(rows \cap T)
                  /\ Cardinality(rows) \in Nat /\ Cardinality(T) \in Nat /\ Cardinality(rows \cap T) \in Nat
                BY <4>1, <4>2, FS_Union, FS_CardinalityType
            <4>4. MaxEntries \in Nat
                BY TreeConsts
            <4>5. QED
                BY <4>1, <4>3, <4>4
        <3>2. /\ drill \in Seq(E) /\ ToSet(drill) = {level[i] : i \in J}
            <4>1. J \in SUBSET DOMAIN level
                OBVIOUS
            <4> HIDE DEF level, J
            <4>2. QED
                BY <2>3, <4>1, PickedSeq
        <3>3. \A e \in ToSet(drill) : e \in ToSet(level) /\ e.kind = "DIRECTORY" /\ Depth(e.path) < LevelDepth
            <4> HIDE DEF level, drill
            <4>1. QED
                BY <3>2 DEF ToSet, J
        <3>4. \A e \in ToSet(level) : e.kind = "DIRECTORY" => e.path \in Directories
            BY <2>2, DrillsAreDirectories
        <3>5. f \in Seq(Directories)
            <4> HIDE DEF level, drill
            <4>1. \A i \in DOMAIN drill : drill[i] \in ToSet(drill)
                BY DEF ToSet
            <4>2. DOMAIN drill = 1 .. Len(drill) /\ Len(drill) \in Nat
                BY <3>2
            <4>3. f \in [1 .. Len(drill) -> Directories]
                BY <3>3, <3>4, <4>1, <4>2
            <4>4. QED
                BY <4>2, <4>3
        <3>6. \A e \in ToSet(level) : e.kind = "DIRECTORY" /\ Depth(e.path) < LevelDepth => e.path \in ToSet(f)
            <4> SUFFICES ASSUME NEW i \in DOMAIN level, level[i].kind = "DIRECTORY", Depth(level[i].path) < LevelDepth
                         PROVE  level[i].path \in ToSet(f)
                BY DEF ToSet
            <4>1. level[i] \in ToSet(drill)
                BY <3>2
            <4> HIDE DEF level, drill
            <4>2. PICK k \in DOMAIN drill : drill[k] = level[i]
                BY <4>1 DEF ToSet
            <4>3. k \in DOMAIN f /\ f[k] = level[i].path
                BY <4>2
            <4> HIDE DEF f
            <4>4. QED
                BY <4>3 DEF ToSet
        <3> HIDE DEF level, drill, f, J
        <3>7. front' \in Seq(Directories) /\ ToSet(front') = ToSet(Tail(front)) \cup ToSet(f)
            <4> DEFINE x == Tail(front)
            <4>1. x \in Seq(Directories) /\ f \in Seq(Directories) /\ front' = x \o f
                BY <1>4, <2>6, <3>5
            <4> HIDE DEF x
            <4>2. x \o f \in Seq(Directories) /\ ToSet(x \o f) = ToSet(x) \cup ToSet(f)
                BY <4>1, ConcatSet
            <4>3. QED
                BY <4>1, <4>2 DEF x
        <3>8. \A r \in rows' : r = RootRow' \/ \E d \in DOMAIN parents' : r \in ToSet(LevelOf(d)')
            <4>1. \A r \in rows' : r \in rows \/ r \in ToSet(LevelOf(m))
                BY <2>6 DEF level
            <4>2. QED
                BY <1>1, <1>2, <1>3, <1>6, <4>1
        <3>9. ASSUME NEW d \in DOMAIN parents' PROVE ToSet(LevelOf(d)') \subseteq rows' \/ \A r \in rows' : r.up # d
            <4>1. CASE d = m
                BY <1>3, <2>6, <4>1 DEF level
            <4>2. CASE d # m
                BY <1>1, <1>2, <1>3, <2>2, <2>6, <4>2
            <4>3. QED
                BY <4>1, <4>2
        <3>10. ASSUME NEW r \in rows', r.kind = "DIRECTORY", Depth(r.path) < LevelDepth
               PROVE  \/ cut' \/ r.path \in ToSet(front') \/ r.path \notin DOMAIN parents'
                      \/ ToSet(LevelOf(r.path)') \subseteq rows'
            <4>1. CASE r \in ToSet(level)
                BY <3>6, <3>7, <3>10, <4>1
            <4>2. CASE r \in rows
                <5>1. CASE r.path = m
                    BY <1>3, <2>6, <5>1 DEF level
                <5>2. CASE r.path # m
                    <6>1. cut \/ r.path \in ToSet(front) \/ r.path \notin DOMAIN parents \/ ToSet(LevelOf(r.path)) \subseteq rows
                        BY <1>2, <3>10, <4>2
                    <6>2. QED
                        BY <1>1, <1>3, <1>4, <2>6, <3>7, <5>2, <6>1
                <5>3. QED
                    BY <5>1, <5>2
            <4>3. QED
                BY <2>6, <4>1, <4>2
        <3>11. QED
            BY <1>1, <3>1, <3>7, <3>8, <3>9, <3>10 DEF RowsInv, ToSet, Depth
    <2>7. QED
        BY <2>1, <2>5, <2>6
<1>7. QED
    BY <1>5, <1>6

LEMMA RowsStay ==
    ASSUME RowsInv, UNCHANGED <<own, files, parents, cut, rows, front>>,
           phase \in {"levels", "done"}, phase' \in {"levels", "done"}, phase' = "done" => front = <<>>
    PROVE  RowsInv'
<1>1. /\ \A d : LevelOf(d)' = LevelOf(d)
      /\ RootRow' = RootRow
    BY LevelStays, TreeStays
<1>2. \A r \in rows' : r = RootRow' \/ \E d \in DOMAIN parents' : r \in ToSet(LevelOf(d)')
    BY <1>1 DEF RowsInv
<1>3. \A d \in DOMAIN parents' : ToSet(LevelOf(d)') \subseteq rows' \/ \A r \in rows' : r.up # d
    BY <1>1 DEF RowsInv
<1>4. \A r \in rows' : r.kind = "DIRECTORY" /\ Depth(r.path) < LevelDepth =>
            \/ cut' \/ r.path \in ToSet(front') \/ r.path \notin DOMAIN parents'
            \/ ToSet(LevelOf(r.path)') \subseteq rows'
    BY <1>1 DEF RowsInv
<1>5. IsFiniteSet(rows') /\ Cardinality(rows') <= MaxEntries + 1 /\ front' \in Seq(Directories)
    BY DEF RowsInv
<1>6. QED
    BY <1>2, <1>3, <1>4, <1>5 DEF RowsInv, ToSet, Depth

LEMMA TreeSame ==
    ASSUME TreeInv, UNCHANGED <<own, files, printed, last, parents, cut, rows, front, phase>>,
           phase \notin {"levels", "done"}
    PROVE  TreeInv'
<1>1. /\ Records' = Records /\ \A m : Inner(m)' <=> Inner(m)
      /\ \A k \in Nodes : EntryOf(k)' = EntryOf(k)
    BY TreeStays
<1>2. ASSUME NEW m PROVE Sizes(Below(m))' = Sizes(Below(m))
    BY SizesStay DEF Below
<1>3. ASSUME NEW m PROVE EntriesIn(m)' = EntriesIn(m)
    <2> DEFINE K == {j \in printed \ {Root} : UpOf[j] = m /\ Depth(j) <= LevelDepth}
    <2>1. EntriesIn(m)' = {EntryOf(k)' : k \in K}
        BY DEF EntriesIn, Depth
    <2>2. \A k \in K : EntryOf(k)' = EntryOf(k)
        BY <1>1, RecordsIn DEF TreeInv
    <2>3. EntriesIn(m) = {EntryOf(k) : k \in K}
        BY DEF EntriesIn
    <2> HIDE DEF K
    <2>4. QED
        BY <2>1, <2>2, <2>3
<1>4. WalkInv'
    <2>1. \A m : Below(m)' = Below(m)
        BY DEF Below
    <2>2. QED
        BY <1>1, <2>1 DEF TreeInv, WalkInv
<1>5. ParentsInv'
    BY <1>1, <1>2, <1>3 DEF TreeInv, ParentsInv, Depth
<1>6. RowsInv'
    BY DEF RowsInv
<1>7. QED
    BY <1>4, <1>5, <1>6 DEF TreeInv

LEMMA TreeKeeps == TreeInv /\ [TreeNext]_treeVars => TreeInv'
<1> SUFFICES ASSUME TreeInv, [TreeNext]_treeVars PROVE TreeInv'
    OBVIOUS
<1>1. CASE TreeStart
    <2>1. /\ phase = "idle" /\ phase' = "walk" /\ own' \in [Nodes -> Nat] /\ files' \in BOOLEAN
          /\ UNCHANGED <<printed, last, parents, cut, rows, front>>
        <3>1. OwnSizes \subseteq Nat
            BY TreeAssumption
        <3>2. own' \in [Nodes -> OwnSizes]
            BY <1>1 DEF TreeStart
        <3>3. own' \in [Nodes -> Nat]
            BY <3>1, <3>2
        <3>4. QED
            BY <1>1, <3>3 DEF TreeStart
    <2>2. printed = {} /\ DOMAIN parents = {} /\ rows = {} /\ front = <<>> /\ last = "none" /\ cut \in BOOLEAN
        BY <2>1 DEF TreeInv, WalkInv
    <2>3. WalkInv'
        BY <2>1, <2>2 DEF WalkInv
    <2>4. ParentsInv'
        BY <2>1, <2>2 DEF TreeInv, ParentsInv
    <2>5. RowsInv'
        BY <2>1 DEF RowsInv
    <2>6. QED
        BY <2>3, <2>4, <2>5 DEF TreeInv
<1>2. ASSUME NEW n \in Nodes, TreeAdd(n) PROVE TreeInv'
    <2>1. WalkInv'
        BY <1>2, AddWalks DEF TreeInv
    <2>2. ParentsInv'
        BY <1>2, AddLevels DEF TreeInv
    <2>3. RowsInv'
        BY <1>2, AddRows
    <2>4. QED
        BY <2>1, <2>2, <2>3 DEF TreeInv
<1>3. CASE TreeEmit
    <2>1. /\ UNCHANGED <<own, files, printed, last, parents, phase>> /\ phase = "levels"
          /\ cut' = cut \/ cut' = TRUE
        BY <1>3 DEF TreeEmit
    <2>2. WalkInv' /\ ParentsInv'
        BY <2>1, EmitStays
    <2>3. RowsInv'
        BY <1>3, EmitRows
    <2>4. QED
        BY <2>2, <2>3 DEF TreeInv
<1>4. CASE TreeFinish
    <2>1. /\ UNCHANGED <<own, files, printed, last, parents, cut, rows, front>>
          /\ phase = "levels" /\ phase' = "done" /\ front = <<>>
        BY <1>4 DEF TreeFinish
    <2>2. WalkInv' /\ ParentsInv'
        BY <2>1, EmitStays
    <2>3. RowsInv'
        BY <2>1, RowsStay DEF TreeInv
    <2>4. QED
        BY <2>2, <2>3 DEF TreeInv
<1>5. CASE UNCHANGED treeVars
    <2>1. UNCHANGED <<own, files, printed, last, parents, cut, rows, front, phase>>
        BY <1>5 DEF treeVars
    <2>2. CASE phase \in {"levels", "done"}
        <3>1. WalkInv' /\ ParentsInv'
            BY <2>1, <2>2, EmitStays
        <3>2. phase' = "done" => front = <<>>
            BY <2>1 DEF TreeInv, RowsInv
        <3>3. RowsInv'
            BY <2>1, <2>2, <3>2, RowsStay DEF TreeInv
        <3>4. QED
            BY <3>1, <3>3 DEF TreeInv
    <2>3. CASE phase \notin {"levels", "done"}
        BY <2>1, <2>3, TreeSame
    <2>4. QED
        BY <2>2, <2>3
<1>6. QED
    BY <1>1, <1>2, <1>3, <1>4, <1>5 DEF TreeNext

LEMMA TreeHolds == TreeInv => TreeTypeOK /\ LevelsSumToParent /\ KindsAreRight
<1> SUFFICES ASSUME TreeInv PROVE TreeTypeOK /\ LevelsSumToParent /\ KindsAreRight
    OBVIOUS
<1>1. TreeTypeOK
    <2>1. printed \subseteq Nodes /\ last \in Nodes \cup {"none"}
        BY RecordsIn DEF TreeInv, WalkInv
    <2>2. IsFiniteSet(rows) /\ Cardinality(rows) <= MaxEntries + 1 /\ front \in Seq(Directories)
        <3>1. CASE phase \in {"idle", "walk"}
            <4>1. rows = {} /\ front = <<>>
                BY <3>1 DEF TreeInv, WalkInv
            <4>2. Cardinality(rows) = 0 /\ MaxEntries \in Nat
                BY <4>1, FS_EmptySet, TreeConsts
            <4>3. QED
                BY <4>1, <4>2, FS_EmptySet
        <3>2. CASE phase \in {"levels", "done"}
            BY <3>2 DEF TreeInv, RowsInv
        <3>3. QED
            BY <3>1, <3>2 DEF TreeInv, WalkInv
    <2>3. QED
        BY <2>1, <2>2 DEF TreeInv, WalkInv, ParentsInv, TreeTypeOK
<1> SUFFICES ASSUME phase = "done" PROVE LevelsSumToParent /\ KindsAreRight
    BY <1>1 DEF LevelsSumToParent, KindsAreRight
<1>2. /\ front = <<>>
      /\ \A r \in rows : r = RootRow \/ \E m \in DOMAIN parents : r \in ToSet(LevelOf(m))
      /\ \A m \in DOMAIN parents : ToSet(LevelOf(m)) \subseteq rows \/ \A r \in rows : r.up # m
      /\ \A r \in rows : r.kind = "DIRECTORY" /\ Depth(r.path) < LevelDepth =>
            \/ cut \/ r.path \in ToSet(front) \/ r.path \notin DOMAIN parents
            \/ ToSet(LevelOf(r.path)) \subseteq rows
    BY DEF TreeInv, RowsInv
<1>3. DOMAIN parents \subseteq Directories /\ Directories \subseteq printed /\ printed = Records
    BY AllPrinted DEF TreeInv, ParentsInv
<1>4. ASSUME NEW r \in rows, r.kind # "OTHER"
      PROVE  /\ r.path \in Nodes /\ r.bytes = Sizes(Below(r.path))
             /\ r.kind = "DIRECTORY" <=> r.path = Root \/ Inner(r.path)
             /\ r.kind = "DIRECTORY" => r.path \in Directories
    <2>1. CASE r = RootRow
        BY <2>1, BelowIs, TreeConsts DEF RootRow
    <2>2. CASE \E m \in DOMAIN parents : r \in ToSet(LevelOf(m))
        <3>1. PICK m \in DOMAIN parents : r \in ToSet(LevelOf(m))
            BY <2>2
        <3>2. r \in EntriesIn(m)
            BY <1>4, <3>1, LevelIs
        <3>3. QED
            BY <3>2, DrillsAreDirectories
    <2>3. QED
        BY <1>2, <2>1, <2>2
<1>5. LevelsSumToParent
    <2> SUFFICES ASSUME NEW r \in rows, r.kind = "DIRECTORY"
                 PROVE  LET level == {q \in rows : q.up = r.path}
                        IN  /\ level # {} => Bytes(level) = r.bytes
                            /\ level = {} /\ Depth(r.path) < LevelDepth => r.bytes = 0 \/ cut
        BY DEF LevelsSumToParent
    <2> DEFINE p == r.path
               level == {q \in rows : q.up = p}
    <2>1. p \in Directories /\ p \in Nodes /\ r.bytes = Sizes(Below(p)) /\ p \in printed /\ (p = Root \/ Inner(p))
        BY <1>3, <1>4
    <2>2. ASSUME p \in DOMAIN parents PROVE parents[p].bytes = r.bytes /\ Bytes(ToSet(LevelOf(p))) = r.bytes
        <3>1. parents[p].bytes = Sizes(Below(p))
            BY <2>1, <2>2 DEF TreeInv, ParentsInv
        <3>2. Bytes(ToSet(LevelOf(p))) = parents[p].bytes
            BY <2>2, LevelIs
        <3>3. QED
            BY <2>1, <3>1, <3>2
    <2>3. ASSUME NEW q \in rows, q.up = p PROVE p \in DOMAIN parents /\ q \in ToSet(LevelOf(p))
        <3>1. q # RootRow
            BY <2>1, <2>3, TreeConsts DEF RootRow
        <3>2. PICK m \in DOMAIN parents : q \in ToSet(LevelOf(m))
            BY <1>2, <3>1
        <3>3. q.up = m
            BY <3>2, LevelIs
        <3>4. QED
            BY <2>3, <3>2, <3>3
    <2>4. ASSUME ToSet(LevelOf(p)) \subseteq rows, p \in DOMAIN parents PROVE level = ToSet(LevelOf(p))
        <3>1. \A q \in ToSet(LevelOf(p)) : q \in rows /\ q.up = p
            BY <2>4, LevelIs
        <3>2. QED
            BY <2>3, <3>1
    <2>5. level # {} => Bytes(level) = r.bytes
        <3> SUFFICES ASSUME NEW q \in rows, q.up = p PROVE Bytes(level) = r.bytes
            OBVIOUS
        <3>1. p \in DOMAIN parents
            BY <2>3
        <3>2. ToSet(LevelOf(p)) \subseteq rows
            BY <1>2, <3>1
        <3>3. level = ToSet(LevelOf(p))
            BY <2>4, <3>1, <3>2
        <3> HIDE DEF level, p
        <3>4. QED
            BY <2>2, <3>1, <3>3
    <2>6. ASSUME level = {}, Depth(p) < LevelDepth, ~cut PROVE r.bytes = 0
        <3>1. p \in DOMAIN parents
            BY <2>1, <2>6 DEF TreeInv, ParentsInv
        <3>2. p \notin ToSet(front)
            BY <1>2 DEF ToSet
        <3>3. ToSet(LevelOf(p)) \subseteq rows
            BY <1>2, <2>6, <3>1, <3>2
        <3>4. ToSet(LevelOf(p)) = {}
            BY <2>4, <2>6, <3>1, <3>3
        <3>5. QED
            BY <2>2, <3>1, <3>4, BytesNone
    <2>7. cut \in BOOLEAN
        BY DEF TreeInv, WalkInv
    <2>8. QED
        BY <2>5, <2>6, <2>7
<1>6. KindsAreRight
    <2> SUFFICES ASSUME files, NEW r \in rows, r.kind # "OTHER"
                 PROVE  r.kind = "DIRECTORY" <=> (r.path = Root \/ Below(r.path) # {r.path})
        BY DEF KindsAreRight
    <2>1. r.path \in Nodes /\ (r.kind = "DIRECTORY" <=> r.path = Root \/ Inner(r.path))
        BY <1>4
    <2>2. Records = Nodes
        BY DEF Records
    <2>3. r.path \in Below(r.path) /\ Below(r.path) \subseteq Nodes
        BY <2>1, BelowIs
    <2>4. Inner(r.path) <=> Below(r.path) # {r.path}
        BY <2>2, <2>3 DEF Inner
    <2>5. QED
        BY <2>1, <2>4
<1>7. QED
    BY <1>5, <1>6

\* ScanAggregator: whatever the bounds drop, a level of the result adds up to its
\* directory and a directory that has none says so, and a record is taken for a
\* directory exactly when du printed something of what it holds.
THEOREM LevelsAlwaysSum == TreeSpec => [](LevelsSumToParent /\ KindsAreRight)
<1>1. TreeInv => LevelsSumToParent /\ KindsAreRight
    BY TreeHolds
<1>2. QED
    BY <1>1, TreeStarts, TreeKeeps, PTL DEF TreeSpec

-----------------------------------------------------------------------------
(* Side by side.                                                           *)

PartInv == ScanInv /\ TreeInv /\ HashInv /\ SizeInv

LEMMA PartKeeps == PartInv /\ [PartNext]_<<scanVars, treeVars, hashVars, sizeVars, part>> => PartInv'
<1> SUFFICES ASSUME PartInv, [PartNext]_<<scanVars, treeVars, hashVars, sizeVars, part>> PROVE PartInv'
    OBVIOUS
<1>1. /\ [ScanNext]_scanVars /\ [TreeNext]_treeVars
      /\ [HashNext]_hashVars /\ [SizeNext]_sizeVars
    BY DEF PartNext
<1>2. QED
    BY <1>1, ScanStepKeeps, TreeKeeps, HashStepKeeps, SizeKeeps DEF PartInv

LEMMA PartAlways == PartSpec => []PartInv
<1>1. PartInit => PartInv
    BY ScanStarts, TreeStarts, HashStarts, SizeStart DEF PartInit, PartInv
<1>2. QED
    BY <1>1, PartKeeps, PTL DEF PartSpec

\* The type invariants of the scans, the tree map, the checksum jobs and the
\* sizes of a listing.
THEOREM DiskTypes == PartSpec => []DiskTypesOK
<1>1. PartInv => DiskTypesOK
    BY ScanHolds, TreeHolds, HashHolds, SizeHolds DEF PartInv, DiskTypesOK
<1>2. QED
    BY <1>1, PartAlways, PTL

\* What the panels show of the disk is true of it: the digest of the file as it
\* is, a job that accounts for its selection, levels that add up and name the
\* directories, one figure for a directory and the whole only where du saw it.
THEOREM ShownAlways == PartSpec => []ShownIsTrue
<1>1. PartInv => ShownIsTrue
    BY TreeHolds, HashHolds, SizeHolds DEF PartInv, ShownIsTrue, DigestsAreCurrent, MeasuresAreTrue
<1>2. QED
    BY <1>1, PartAlways, PTL
=============================================================================
