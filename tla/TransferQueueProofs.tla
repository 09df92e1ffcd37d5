------------------------ MODULE TransferQueueProofs ------------------------
(* Theorems about TransferQueue for any set of jobs, hosts, items and caps. *)
EXTENDS TransferQueue, FiniteSetTheorems, WellFoundedInduction, TLAPS

-----------------------------------------------------------------------------
(* Facts about sets of jobs.                                               *)

\* A set of jobs is finite, and its size is a natural number no larger than
\* that of a set of jobs around it.
LEMMA JobSets ==
    ASSUME NEW T \in SUBSET Jobs, NEW U \in SUBSET T
    PROVE  /\ IsFiniteSet(T) /\ IsFiniteSet(U)
           /\ Cardinality(T) \in Nat /\ Cardinality(U) \in Nat
           /\ Cardinality(U) <= Cardinality(T)
           /\ Cardinality(U) = Cardinality(T) => U = T
<1>1. IsFiniteSet(T)
    BY FS_Subset, QueueAssumption
<1>2. QED
    BY <1>1, FS_Subset, FS_CardinalityType

\* A nonempty set of jobs has a last one in any numbering of bounded places.
LEMMA LastPlace ==
    ASSUME NEW N \in Nat, NEW ln \in [Jobs -> 0 .. N],
           NEW S \in SUBSET Jobs, S # {}
    PROVE  \E m \in S : \A k \in S : ln[k] <= ln[m]
<1> DEFINE T == {N - ln[k] : k \in S}
<1>1. T \subseteq Nat /\ T # {}
    OBVIOUS
<1>2. PICK x \in T : \A y \in T : <<y, x>> \notin OpToRel(<, Nat)
    <2>1. IsWellFoundedOn(OpToRel(<, Nat), Nat)
        BY NatLessThanWellFounded
    <2>2. QED
        BY <1>1, <2>1, WFMin
<1>3. \A y \in T : ~(y < x)
    BY <1>1, <1>2 DEF OpToRel
<1>4. PICK m \in S : x = N - ln[m]
    OBVIOUS
<1>5. ASSUME NEW k \in S PROVE ln[k] <= ln[m]
    <2>1. N - ln[k] \in T
        OBVIOUS
    <2>2. ~(N - ln[k] < N - ln[m])
        BY <1>3, <1>4, <2>1
    <2>3. QED
        BY <2>2
<1>6. QED
    BY <1>5

-----------------------------------------------------------------------------
(* The line.                                                               *)

\* A line: places in 0 .. |Jobs|, no two waiting jobs with the same one.
IsLine(ln) ==
    /\ ln \in [Jobs -> 0 .. Cardinality(Jobs)]
    /\ \A j, k \in Jobs : ln[j] > 0 /\ ln[k] > 0 /\ ln[j] = ln[k] => j = k

\* Taking jobs out of a line leaves the others in it, renumbered without gaps.
LEMMA WithoutIsLine ==
    ASSUME NEW ln, IsLine(ln), NEW out \in SUBSET Jobs
    PROVE  /\ IsLine(Without(ln, out))
           /\ \A j \in Jobs : Without(ln, out)[j] > 0 <=> ln[j] > 0 /\ j \notin out
           /\ \A j \in Jobs : Without(ln, out)[j]
                                <= Cardinality({k \in Jobs : Without(ln, out)[k] > 0})
<1> DEFINE A(j) == {k \in Jobs \ out : ln[k] > 0 /\ ln[k] <= ln[j]}
           W == Without(ln, out)
           In == {j \in Jobs : ln[j] > 0 /\ j \notin out}
<1>1. ln \in [Jobs -> Nat] /\ Cardinality(Jobs) \in Nat
    BY JobSets DEF IsLine
<1>2. ASSUME NEW j \in Jobs
      PROVE  W[j] = IF ln[j] = 0 \/ j \in out THEN 0 ELSE Cardinality(A(j))
    BY DEF Without
<1>3. Cardinality(In) \in Nat /\ Cardinality(In) <= Cardinality(Jobs)
    BY JobSets
<1>4. \A j \in In : /\ Cardinality(A(j)) \in Nat /\ Cardinality(A(j)) > 0
                     /\ Cardinality(A(j)) <= Cardinality(In)
    <2> SUFFICES ASSUME NEW j \in In
                 PROVE  /\ Cardinality(A(j)) \in Nat /\ Cardinality(A(j)) > 0
                        /\ Cardinality(A(j)) <= Cardinality(In)
        OBVIOUS
    <2>1. j \in A(j)
        BY <1>1
    <2>2. A(j) \in SUBSET In /\ In \in SUBSET Jobs
        OBVIOUS
    <2>3. IsFiniteSet(A(j)) /\ Cardinality(A(j)) # 0
        BY <2>1, <2>2, JobSets, FS_EmptySet
    <2>4. QED
        BY <2>2, <2>3, JobSets
<1>5. \A j \in Jobs : j \in In <=> ~(ln[j] = 0 \/ j \in out)
    BY <1>1
<1>6. \A j \in In, k \in In : ln[j] < ln[k] => Cardinality(A(j)) < Cardinality(A(k))
    <2> SUFFICES ASSUME NEW j \in In, NEW k \in In, ln[j] < ln[k]
                 PROVE  Cardinality(A(j)) < Cardinality(A(k))
        OBVIOUS
    <2>1. A(j) \in SUBSET A(k) /\ A(k) \in SUBSET Jobs
        BY <1>1
    <2>2. k \in A(k) /\ k \notin A(j)
        BY <1>1
    <2>3. QED
        BY <2>1, <2>2, JobSets
<1>7. \A j \in In, k \in In : ln[j] = ln[k] => j = k
    BY <1>1 DEF IsLine
<1>8. In \subseteq Jobs
    OBVIOUS
<1>9. \A j \in In : ln[j] \in Nat
    BY <1>1
<1> HIDE DEF In, A, W
<1>10. \A j \in Jobs : W[j] > 0 <=> j \in In
    BY <1>2, <1>4, <1>5
<1>11. {k \in Jobs : W[k] > 0} = In
    BY <1>10, <1>8
<1>12. \A j \in Jobs : W[j] \in 0 .. Cardinality(In) /\ W[j] \in 0 .. Cardinality(Jobs)
    BY <1>1, <1>2, <1>4, <1>3, <1>5
<1>13. ASSUME NEW j \in Jobs, NEW k \in Jobs, W[j] > 0, W[k] > 0, W[j] = W[k] PROVE j = k
    <2>1. j \in In /\ k \in In
        BY <1>10, <1>13
    <2>2. W[j] = Cardinality(A(j)) /\ W[k] = Cardinality(A(k))
        BY <1>2, <1>5, <2>1
    <2>3. Cardinality(A(j)) = Cardinality(A(k))
        BY <1>13, <2>2
    <2>4. Cardinality(A(j)) \in Nat /\ Cardinality(A(k)) \in Nat
        BY <1>4, <2>1
    <2>5. ~(Cardinality(A(j)) < Cardinality(A(k))) /\ ~(Cardinality(A(k)) < Cardinality(A(j)))
        BY <2>3, <2>4
    <2>6. ~(ln[j] < ln[k]) /\ ~(ln[k] < ln[j])
        BY <1>6, <2>1, <2>5
    <2>7. QED
        BY <1>9, <1>7, <2>1, <2>6
<1>14. W \in [Jobs -> 0 .. Cardinality(Jobs)]
    BY <1>12 DEF W, Without
<1>15. IsLine(W)
    BY <1>13, <1>14 DEF IsLine
<1>16. \A j \in Jobs : W[j] <= Cardinality({k \in Jobs : W[k] > 0})
    BY <1>11, <1>12, <1>3
<1>17. \A j \in Jobs : W[j] > 0 <=> ln[j] > 0 /\ j \notin out
    BY <1>10 DEF In
<1>18. QED
    BY <1>15, <1>16, <1>17 DEF W

\* One job more than a set below a limit keeps the limit.
LEMMA OneMore ==
    ASSUME NEW T \in SUBSET Jobs, NEW m \in Jobs, NEW n \in Nat, Cardinality(T) < n
    PROVE  Cardinality(T \cup {m}) <= n
<1>1. IsFiniteSet(T) /\ Cardinality(T) \in Nat
    BY JobSets
<1>2. Cardinality(T \cup {m}) = Cardinality(T) \/ Cardinality(T \cup {m}) = Cardinality(T) + 1
    BY <1>1, FS_AddElement
<1>3. QED
    BY <1>1, <1>2

-----------------------------------------------------------------------------
(* The scan of pump().                                                     *)

\* A running set that respects both caps.
Within(busy, hs) ==
    /\ Cardinality(busy) <= MaxInFlight
    /\ \A h \in Hosts : Cardinality({k \in busy : h \in hs[k]}) <= MaxPerHost

\* Nobody running is within the caps, and so is one job fewer.
LEMMA EmptyWithin == ASSUME NEW hs PROVE Within({}, hs)
<1>1. \A h : {k \in {} : h \in hs[k]} = {}
    OBVIOUS
<1>2. QED
    BY <1>1, FS_EmptySet, QueueAssumption DEF Within

LEMMA FewerWithin ==
    ASSUME NEW busy \in SUBSET Jobs, NEW hs, Within(busy, hs), NEW j
    PROVE  Within(busy \ {j}, hs)
<1> DEFINE rest == busy \ {j}
           On(T, h) == {k \in T : h \in hs[k]}
<1>1. rest \in SUBSET busy /\ \A h : On(busy, h) \in SUBSET Jobs /\ On(rest, h) \in SUBSET On(busy, h)
    OBVIOUS
<1>2. Cardinality(busy) <= MaxInFlight /\ \A h \in Hosts : Cardinality(On(busy, h)) <= MaxPerHost
    BY DEF Within
<1> HIDE DEF rest, On
<1>3. Cardinality(rest) <= MaxInFlight
    BY <1>1, <1>2, JobSets, QueueAssumption
<1>4. ASSUME NEW h \in Hosts PROVE Cardinality(On(rest, h)) <= MaxPerHost
    <2>1. /\ Cardinality(On(rest, h)) <= Cardinality(On(busy, h))
          /\ Cardinality(On(rest, h)) \in Nat /\ Cardinality(On(busy, h)) \in Nat
        BY <1>1, JobSets
    <2>2. QED
        BY <1>2, <2>1, QueueAssumption
<1>5. QED
    BY <1>3, <1>4 DEF Within, rest, On

\* What a scan starts respects the caps together with what was running: the
\* last job started fitted beside all the others.
LEMMA ScanWithin ==
    ASSUME NEW ln, IsLine(ln), NEW busy \in SUBSET Jobs,
           NEW hs \in [Jobs -> SUBSET Hosts], NEW S \in Scans(ln, busy, hs),
           Within(busy, hs)
    PROVE  S \in SUBSET Jobs /\ Within(busy \cup S, hs)
<1> DEFINE Before(j) == {k \in S : ln[k] < ln[j]}
<1>1. S \in SUBSET Jobs /\ \A j \in S : ln[j] > 0 /\ Fits(j, busy \cup Before(j), hs)
    BY DEF Scans
<1>2. ln \in [Jobs -> 0 .. Cardinality(Jobs)] /\ Cardinality(Jobs) \in Nat
    BY JobSets DEF IsLine
<1>3. \A j \in S, k \in S : ln[j] = ln[k] => j = k
    BY <1>1, <1>2 DEF IsLine
<1>4. MaxInFlight \in Nat /\ MaxPerHost \in Nat
    BY QueueAssumption
<1>5. Cardinality(busy \cup S) <= MaxInFlight
    <2>1. CASE S = {}
        <3>1. busy \cup S = busy
            BY <2>1
        <3>2. QED
            BY <3>1 DEF Within
    <2>2. CASE S # {}
        <3>1. PICK m \in S : \A k \in S : ln[k] <= ln[m]
            BY <1>1, <1>2, <2>2, LastPlace
        <3>2. S = Before(m) \cup {m}
            BY <1>1, <1>2, <1>3, <3>1
        <3>3. Cardinality(busy \cup Before(m)) < MaxInFlight
            BY <1>1 DEF Fits
        <3>4. Cardinality((busy \cup Before(m)) \cup {m}) <= MaxInFlight
            BY <1>1, <1>4, <3>3, OneMore
        <3>5. busy \cup S = (busy \cup Before(m)) \cup {m}
            BY <3>2
        <3>6. QED
            BY <3>4, <3>5
    <2>3. QED
        BY <2>1, <2>2
<1>6. ASSUME NEW h \in Hosts
      PROVE  Cardinality({k \in busy \cup S : h \in hs[k]}) <= MaxPerHost
    <2> DEFINE On == {k \in S : h \in hs[k]}
    <2>1. CASE On = {}
        <3>1. {k \in busy \cup S : h \in hs[k]} = {k \in busy : h \in hs[k]}
            BY <2>1
        <3>2. QED
            BY <3>1 DEF Within
    <2>2. CASE On # {}
        <3>1. PICK m \in On : \A k \in On : ln[k] <= ln[m]
            BY <1>1, <1>2, <2>2, LastPlace
        <3> DEFINE Rest == {k \in busy \cup Before(m) : h \in hs[k]}
        <3>2. Cardinality(Rest) < MaxPerHost
            BY <1>1 DEF Fits
        <3>3. Rest \in SUBSET Jobs /\ m \in Jobs
            BY <1>1
        <3>4. Cardinality(Rest \cup {m}) <= MaxPerHost
            BY <1>4, <3>2, <3>3, OneMore
        <3>5. ASSUME NEW k \in On, k # m PROVE k \in Before(m)
            BY <1>1, <1>2, <1>3, <3>1, <3>5
        <3>6. {k \in busy \cup S : h \in hs[k]} = Rest \cup {m}
            BY <3>1, <3>5
        <3>7. QED
            BY <3>4, <3>6
    <2>3. QED
        BY <2>1, <2>2
<1>7. QED
    BY <1>1, <1>5, <1>6 DEF Within

\* A scan leaves nobody waiting who would fit beside what it leaves running.
LEMMA ScanFull ==
    ASSUME NEW ln, NEW busy \in SUBSET Jobs,
           NEW hs \in [Jobs -> SUBSET Hosts], NEW S \in Scans(ln, busy, hs),
           NEW j \in Jobs, ln[j] > 0, j \notin S
    PROVE  ~Fits(j, busy \cup S, hs)
<1> DEFINE Early == busy \cup {k \in S : ln[k] < ln[j]}
<1>1. S \in SUBSET Jobs /\ ~Fits(j, Early, hs)
    BY DEF Scans
<1>2. busy \cup S \in SUBSET Jobs /\ Early \in SUBSET (busy \cup S)
    BY <1>1
<1>3. Cardinality(Early) <= Cardinality(busy \cup S)
      /\ Cardinality(Early) \in Nat /\ Cardinality(busy \cup S) \in Nat
    BY <1>2, JobSets
<1>4. ASSUME NEW h
      PROVE  /\ Cardinality({k \in Early : h \in hs[k]}) \in Nat
             /\ Cardinality({k \in busy \cup S : h \in hs[k]}) \in Nat
             /\ Cardinality({k \in Early : h \in hs[k]})
                  <= Cardinality({k \in busy \cup S : h \in hs[k]})
    <2>1. /\ {k \in busy \cup S : h \in hs[k]} \in SUBSET Jobs
          /\ {k \in Early : h \in hs[k]} \in SUBSET {k \in busy \cup S : h \in hs[k]}
        BY <1>2
    <2>2. QED
        BY <2>1, JobSets
<1>5. MaxInFlight \in Nat /\ MaxPerHost \in Nat
    BY QueueAssumption
<1> HIDE DEF Early
<1>6. ASSUME Fits(j, busy \cup S, hs) PROVE Fits(j, Early, hs)
    <2>1. Cardinality(Early) < MaxInFlight
        BY <1>3, <1>5, <1>6 DEF Fits
    <2>2. ASSUME NEW h \in hs[j] PROVE Cardinality({k \in Early : h \in hs[k]}) < MaxPerHost
        <3>1. Cardinality({k \in busy \cup S : h \in hs[k]}) < MaxPerHost
            BY <1>6 DEF Fits
        <3> DEFINE a == Cardinality({k \in Early : h \in hs[k]})
                   b == Cardinality({k \in busy \cup S : h \in hs[k]})
        <3>2. a \in Nat /\ b \in Nat /\ a <= b /\ b < MaxPerHost
            BY <1>4, <3>1
        <3> HIDE DEF a, b
        <3>3. a < MaxPerHost
            BY <1>5, <3>2
        <3>4. QED
            BY <3>3 DEF a
    <2>3. QED
        BY <2>1, <2>2 DEF Fits
<1>7. QED
    BY <1>1, <1>6

-----------------------------------------------------------------------------
(* pump() as a step.                                                       *)

\* What a pump over a line and a running set within the caps leaves behind:
\* a line, the caps, no idle slot unless the process is stopping, and a run
\* with a place exactly where there is an entry in the running map.
Pumped(ln, busy) ==
    /\ IsLine(line')
    /\ \A j \in Jobs : line'[j] <= Cardinality({k \in Jobs : line'[k] > 0})
    /\ \A j \in Jobs : line'[j] > 0 \/ j \in running' <=> j \in busy \/ ln[j] > 0
    /\ \A j \in running' : line'[j] = 0
    /\ busy \subseteq running' /\ running' \subseteq Jobs
    /\ held' \in [Jobs -> SUBSET Hosts]
    /\ Within(running', held')
    /\ ~stopping => \A j \in Jobs : line'[j] > 0 => ~Fits(j, running', held')
    /\ abort' \in [Jobs -> {"none", "user", "shutdown"}]
    /\ \A j \in Jobs : abort'[j] = IF j \in busy THEN abort[j] ELSE "none"
    /\ run' \in [Jobs -> RunPlace]
    /\ \A j \in Jobs : run'[j] # "off" <=> j \in running'
    /\ \A j \in Jobs : j \in busy => run'[j] = run[j]
    /\ \A j \in Jobs : j \notin busy => run'[j] \in {"load", "off"}

LEMMA PumpStep ==
    ASSUME TypeOK, NEW ln, IsLine(ln), NEW busy \in SUBSET running,
           NEW hs \in [Jobs -> SUBSET Hosts], Within(busy, hs),
           \A j \in busy : ln[j] = 0,
           Pump(ln, busy, hs)
    PROVE  Pumped(ln, busy)
<1>1. running \subseteq Jobs /\ busy \in SUBSET Jobs
    BY DEF TypeOK
<1>2. PICK S \in IF stopping THEN {{}} ELSE Scans(ln, busy, hs) :
        /\ line'    = Without(ln, S)
        /\ running' = busy \cup S
        /\ held'    = [j \in Jobs |-> IF j \in busy \/ ln[j] > 0 THEN hs[j] ELSE {}]
        /\ abort'   = [j \in Jobs |-> IF j \in busy THEN abort[j] ELSE "none"]
        /\ run'     = [j \in Jobs |-> IF j \in S THEN "load"
                                      ELSE IF j \in busy THEN run[j] ELSE "off"]
    BY DEF Pump
<1>3. S \in SUBSET Jobs /\ \A j \in S : ln[j] > 0
    BY <1>2 DEF Scans
<1>4. Within(busy \cup S, hs)
    <2>1. CASE stopping
        <3>1. busy \cup S = busy
            BY <1>2, <2>1
        <3>2. QED
            BY <3>1
    <2>2. CASE ~stopping
        BY <1>1, <1>2, <2>2, ScanWithin
    <2>3. QED
        BY <2>1, <2>2
<1>5. /\ IsLine(line')
      /\ \A j \in Jobs : line'[j] > 0 <=> ln[j] > 0 /\ j \notin S
      /\ \A j \in Jobs : line'[j] <= Cardinality({k \in Jobs : line'[k] > 0})
    BY <1>2, <1>3, WithoutIsLine
<1>6. line' \in [Jobs -> Nat]
    BY <1>5, JobSets DEF IsLine
<1>7. \A j \in busy : j \notin S
    BY <1>3
<1>8. \A j \in Jobs : line'[j] > 0 \/ j \in running' <=> j \in busy \/ ln[j] > 0
    BY <1>2, <1>3, <1>5
<1>9. \A j \in running' : line'[j] = 0
    BY <1>1, <1>2, <1>3, <1>5, <1>6
<1>10. \A j \in running' : held'[j] = hs[j]
    BY <1>1, <1>2, <1>3
<1>11. \A h : {k \in running' : h \in held'[k]} = {k \in busy \cup S : h \in hs[k]}
    BY <1>2, <1>10
<1>12. Within(running', held')
    BY <1>2, <1>4, <1>11 DEF Within
<1>13. ASSUME ~stopping, NEW j \in Jobs, line'[j] > 0
       PROVE  ~Fits(j, running', held')
    <2>1. ln[j] > 0 /\ j \notin S
        BY <1>5, <1>13
    <2>2. ~Fits(j, busy \cup S, hs)
        BY <1>1, <1>2, <1>13, <2>1, ScanFull
    <2>3. held'[j] = hs[j]
        BY <1>2, <2>1
    <2>4. QED
        BY <1>2, <1>11, <2>2, <2>3 DEF Fits
<1>14. abort' \in [Jobs -> {"none", "user", "shutdown"}]
       /\ \A j \in Jobs : abort'[j] = IF j \in busy THEN abort[j] ELSE "none"
    BY <1>2 DEF TypeOK
<1>15. run' \in [Jobs -> RunPlace] /\ held' \in [Jobs -> SUBSET Hosts]
    BY <1>2 DEF TypeOK, RunPlace
<1>16. \A j \in Jobs : run'[j] # "off" <=> j \in running'
    BY <1>2 DEF TypeOK
<1>17. \A j \in Jobs : /\ j \in busy => run'[j] = run[j]
                       /\ j \notin busy => run'[j] \in {"load", "off"}
    BY <1>2, <1>7
<1>18. QED
    BY <1>1, <1>2, <1>3, <1>5, <1>8, <1>9, <1>12, <1>13, <1>14, <1>15, <1>16, <1>17
    DEF Pumped

-----------------------------------------------------------------------------
(* How a step leaves the queue's part of the invariant.                    *)

PoolTypes ==
    /\ line    \in [Jobs -> 0 .. Cardinality(Jobs)]
    /\ running \subseteq Jobs
    /\ held    \in [Jobs -> SUBSET Hosts]
    /\ abort   \in [Jobs -> {"none", "user", "shutdown"}]
    /\ run     \in [Jobs -> RunPlace]
    /\ \A j \in Jobs : run[j] # "off" <=> j \in running

\* The conjuncts that only the pool and the process matter to.
PoolInv ==
    /\ PoolTypes
    /\ CapsRespected
    /\ LineIsALine
    /\ NoIdleSlot
    /\ DownIsEmpty

\* A step that touches neither the pool nor the process.
LEMMA PoolKept ==
    ASSUME QueueInv, UNCHANGED <<pool, proc>>
    PROVE  PoolInv'
<1>1. PoolInv
    BY DEF QueueInv, TypeOK, PoolInv, PoolTypes
<1>2. UNCHANGED <<line, running, held, abort, run, up, stopping>>
    BY DEF pool, proc
<1>3. QED
    BY <1>1, <1>2 DEF PoolInv, PoolTypes, CapsRespected, LineIsALine, NoIdleSlot,
                      DownIsEmpty, Waiting, Fits

\* A run that moves from one place to another.
LEMMA PoolStep ==
    ASSUME QueueInv, NEW j \in Jobs, run[j] # "off",
           NEW to \in RunPlace \ {"off"}, Step(j, to), UNCHANGED proc
    PROVE  PoolInv' /\ j \in running
<1>1. PoolTypes' /\ j \in running
    <2>1. run \in [Jobs -> RunPlace] /\ \A k \in Jobs : run[k] # "off" <=> k \in running
        BY DEF QueueInv, TypeOK
    <2>2. run' \in [Jobs -> RunPlace] /\ \A k \in Jobs : run'[k] # "off" <=> k \in running
        BY <2>1 DEF Step
    <2>3. QED
        BY <2>1, <2>2 DEF QueueInv, TypeOK, PoolTypes, Step
<1>2. CapsRespected' /\ LineIsALine' /\ NoIdleSlot' /\ DownIsEmpty'
    BY DEF QueueInv, CapsRespected, LineIsALine, NoIdleSlot, DownIsEmpty, Waiting, Fits,
           Step, proc
<1>3. QED
    BY <1>1, <1>2 DEF PoolInv

\* The line of the invariant is a line, and its running set within the caps.
LEMMA QueueIsLine ==
    ASSUME QueueInv
    PROVE  /\ IsLine(line) /\ Within(running, held)
           /\ \A j \in running : line[j] = 0
           /\ Waiting \in SUBSET Jobs /\ running \in SUBSET Jobs
<1>1. line \in [Jobs -> Nat] /\ running \subseteq Jobs
    BY JobSets DEF QueueInv, TypeOK
<1>2. IsLine(line)
    BY DEF QueueInv, TypeOK, LineIsALine, Waiting, IsLine
<1>3. \A j \in running : line[j] = 0
    BY <1>1 DEF QueueInv, LineIsALine, Waiting
<1>4. QED
    BY <1>1, <1>2, <1>3 DEF QueueInv, CapsRespected, Within, Waiting

\* A pump of a live process.
LEMMA PoolPump ==
    ASSUME QueueInv, NEW ln, IsLine(ln), NEW busy \in SUBSET running,
           NEW hs \in [Jobs -> SUBSET Hosts], Within(busy, hs),
           \A j \in busy : ln[j] = 0,
           Pump(ln, busy, hs), up', stopping' = stopping
    PROVE  /\ PoolInv'
           /\ \A j \in Jobs : j \in Waiting' \/ j \in running' <=> j \in busy \/ ln[j] > 0
           /\ \A j \in Jobs : run'[j] \notin {"load", "off"} => run'[j] = run[j]
           /\ \A j \in Jobs : abort'[j] # "none" => abort'[j] = abort[j]
<1>1. TypeOK
    BY DEF QueueInv
<1>2. Pumped(ln, busy)
    BY <1>1, PumpStep
<1>3. PoolTypes'
    BY <1>2 DEF Pumped, PoolTypes, IsLine
<1>4. CapsRespected'
    BY <1>2 DEF Pumped, CapsRespected, Within
<1>5. LineIsALine'
    BY <1>2 DEF Pumped, LineIsALine, Waiting, IsLine
<1>6. NoIdleSlot'
    BY <1>2 DEF Pumped, NoIdleSlot, Waiting, Fits
<1>7. DownIsEmpty'
    BY DEF DownIsEmpty
<1>8. \A j \in Jobs : j \in Waiting' <=> line'[j] > 0
    BY DEF Waiting
<1>9. \A j \in Jobs : /\ run'[j] \notin {"load", "off"} => run'[j] = run[j]
                     /\ abort'[j] # "none" => abort'[j] = abort[j]
    BY <1>2 DEF Pumped
<1>10. QED
    BY <1>2, <1>3, <1>4, <1>5, <1>6, <1>7, <1>8, <1>9 DEF Pumped, PoolInv

\* An enqueue: at the end of the line, or not at all.
LEMMA PoolEnqueue ==
    ASSUME QueueInv, NEW j \in Jobs, NEW hs \in SUBSET Hosts,
           Enqueue(j, hs), up, UNCHANGED proc
    PROVE  /\ PoolInv'
           /\ \A k \in Jobs : k \in Waiting' \/ k \in running'
                                => k = j \/ k \in Waiting \/ k \in running
           /\ \A k \in Jobs : k \in Waiting \/ k \in running
                                => k \in Waiting' \/ k \in running'
           /\ \A k \in Jobs : run'[k] \notin {"load", "off"} => run'[k] = run[k]
           /\ \A k \in Jobs : abort'[k] # "none" => abort'[k] = abort[k]
<1>1. CASE stopping \/ j \in running \/ j \in Waiting
    <2>1. UNCHANGED pool
        BY <1>1 DEF Enqueue
    <2>2. QED
        BY <2>1, PoolKept DEF pool, Waiting
<1>2. CASE ~(stopping \/ j \in running \/ j \in Waiting)
    <2> DEFINE n == Cardinality(Waiting)
               ln == [line EXCEPT ![j] = n + 1]
               hh == [held EXCEPT ![j] = hs]
    <2>1. Pump(ln, running, hh)
        BY <1>2 DEF Enqueue
    <2>2. /\ IsLine(line) /\ Within(running, held) /\ Waiting \in SUBSET Jobs
          /\ \A k \in running : line[k] = 0
        BY QueueIsLine
    <2>3. n \in Nat /\ Cardinality(Jobs) \in Nat /\ n < Cardinality(Jobs)
        <3>1. Waiting # Jobs
            BY <1>2
        <3>2. QED
            BY <2>2, <3>1, JobSets
    <2>4. /\ line \in [Jobs -> 0 .. Cardinality(Jobs)]
          /\ \A k \in Jobs : line[k] > 0 => line[k] <= n
        BY DEF QueueInv, TypeOK, LineIsALine, Waiting
    <2> HIDE DEF n
    <2>5. IsLine(ln)
        <3>1. ln \in [Jobs -> 0 .. Cardinality(Jobs)]
            BY <2>3, <2>4
        <3>2. \A k \in Jobs : k # j => ln[k] = line[k]
            BY <2>4
        <3>3. ln[j] = n + 1
            BY <2>4
        <3>4. \A k \in Jobs : k # j => ~(ln[k] = n + 1 /\ ln[k] > 0)
            BY <2>3, <2>4, <3>2
        <3> HIDE DEF ln
        <3>5. QED
            BY <2>2, <3>1, <3>2, <3>3, <3>4 DEF IsLine
    <2>6. hh \in [Jobs -> SUBSET Hosts]
        BY DEF QueueInv, TypeOK
    <2>7. Within(running, hh)
        <3>1. \A k \in running : hh[k] = held[k]
            BY <1>2 DEF QueueInv, TypeOK
        <3>2. \A h : {k \in running : h \in hh[k]} = {k \in running : h \in held[k]}
            BY <3>1
        <3>3. QED
            BY <2>2, <3>2 DEF Within
    <2>8. \A k \in running : ln[k] = 0
        BY <1>2, <2>2, <2>4 DEF QueueInv, TypeOK
    <2>9. \A k \in Jobs : ln[k] > 0 <=> k = j \/ k \in Waiting
        BY <2>3, <2>4 DEF Waiting
    <2>10. up' /\ stopping' = stopping
        BY DEF proc
    <2> HIDE DEF ln, hh
    <2>11. /\ PoolInv'
           /\ \A k \in Jobs : k \in Waiting' \/ k \in running' <=> k \in running \/ ln[k] > 0
           /\ \A k \in Jobs : run'[k] \notin {"load", "off"} => run'[k] = run[k]
           /\ \A k \in Jobs : abort'[k] # "none" => abort'[k] = abort[k]
        BY <2>1, <2>5, <2>6, <2>7, <2>8, <2>10, PoolPump
    <2>12. QED
        BY <2>9, <2>11
<1>3. QED
    BY <1>1, <1>2

\* The oldest-first line of a reclaim is a line: it is what is left of the
\* numbering by creation when every other job is taken out.
LEMMA ReclaimIsLine ==
    ASSUME QueueInv, NEW back \in SUBSET Jobs, \A j \in back : row[j] # "absent"
    PROVE  LET ln == [j \in Jobs |-> IF j \notin back THEN 0
                                     ELSE Cardinality({k \in back : born[k] <= born[j]})]
           IN  IsLine(ln) /\ \A j \in Jobs : ln[j] > 0 <=> j \in back
<1> DEFINE ages == [j \in Jobs |-> IF j \in back THEN born[j] ELSE 0]
           ln == [j \in Jobs |-> IF j \notin back THEN 0
                                 ELSE Cardinality({k \in back : born[k] <= born[j]})]
           made == {j \in Jobs : row[j] # "absent"}
<1>1. /\ Cardinality(made) \in Nat /\ Cardinality(Jobs) \in Nat
      /\ Cardinality(made) <= Cardinality(Jobs) /\ back \subseteq made
    BY JobSets
<1>2. /\ born \in [Jobs -> 0 .. Cardinality(Jobs)]
      /\ \A j \in made : born[j] \in 1 .. Cardinality(made)
      /\ \A j, k \in made : born[j] = born[k] => j = k
    BY DEF QueueInv, TypeOK, BornInOrder
<1> HIDE DEF made
<1>3. /\ ages \in [Jobs -> 0 .. Cardinality(Jobs)]
      /\ \A j \in Jobs : ages[j] > 0 <=> j \in back
    BY <1>1, <1>2
<1>4. IsLine(ages)
    BY <1>1, <1>2, <1>3 DEF IsLine
<1>5. ASSUME NEW j \in Jobs PROVE ln[j] = Without(ages, {})[j]
    <2>1. CASE j \notin back
        BY <2>1 DEF Without
    <2>2. CASE j \in back
        <3>1. ages[j] = born[j] /\ ages[j] # 0
            BY <1>3, <2>2
        <3>2. \A k \in Jobs : ages[k] > 0 /\ ages[k] <= ages[j] <=> k \in back /\ born[k] <= born[j]
            BY <1>3, <3>1
        <3> HIDE DEF ages
        <3>3. {k \in Jobs \ {} : ages[k] > 0 /\ ages[k] <= ages[j]}
              = {k \in back : born[k] <= born[j]}
            BY <3>2
        <3>4. Without(ages, {})[j] = Cardinality({k \in back : born[k] <= born[j]})
            BY <3>1, <3>3 DEF Without
        <3>5. QED
            BY <2>2, <3>4
    <2>3. QED
        BY <2>1, <2>2
<1>6. ln = Without(ages, {})
    BY <1>5 DEF Without
<1>7. /\ IsLine(Without(ages, {}))
      /\ \A j \in Jobs : Without(ages, {})[j] > 0 <=> ages[j] > 0 /\ j \notin {}
    BY <1>4, WithoutIsLine
<1> HIDE DEF ages, ln
<1>8. IsLine(ln) /\ \A j \in Jobs : ln[j] > 0 <=> j \in back
    BY <1>3, <1>6, <1>7
<1>9. QED
    BY <1>8 DEF ln

-----------------------------------------------------------------------------
(* How a step leaves the rest of the invariant.                            *)

DataTypes ==
    /\ row     \in [Jobs -> RowStatus]
    /\ item    \in [Jobs -> [Items -> ItemStatus]]
    /\ born    \in [Jobs -> 0 .. Cardinality(Jobs)]
    /\ gone    \subseteq Hosts
    /\ todo    \in [Jobs -> SUBSET Items]
    /\ outcome \in [Jobs -> Terminal \cup {"none"}]
    /\ create  \in [Jobs -> {"new", "items", "enqueue", "done"}]
    /\ cancel  \in [Jobs -> {"idle", "read", "write"}]
    /\ retry   \in [Jobs -> {"idle", "items", "row", "enqueue"}]
    /\ asked   \in [Jobs -> SUBSET Hosts]
    /\ up \in BOOLEAN /\ stopping \in BOOLEAN
    /\ used    \in [Counters -> Nat]

DataInv ==
    /\ DataTypes
    /\ AbsentIsNowhere
    /\ BornInOrder
    /\ OutcomeKnown

\* The two halves are the invariant.
LEMMA Halves == QueueInv <=> PoolInv /\ DataInv
BY DEF QueueInv, TypeOK, PoolInv, PoolTypes, DataInv, DataTypes

LEMMA HalvesPrimed == ASSUME PoolInv', DataInv' PROVE QueueInv'
BY DEF QueueInv, TypeOK, PoolInv, PoolTypes, DataInv, DataTypes

\* Spending a bound leaves the counters counters.
LEMMA Counted ==
    ASSUME NEW u \in [Counters -> Nat], NEW c \in Counters
    PROVE  [u EXCEPT ![c] = @ + 1] \in [Counters -> Nat]
<1>1. u[c] + 1 \in Nat
    OBVIOUS
<1>2. QED
    BY <1>1

\* Rows that exist go on existing, in the same order.
LEMMA BornKept ==
    ASSUME BornInOrder, UNCHANGED born,
           \A j \in Jobs : row'[j] = "absent" <=> row[j] = "absent"
    PROVE  BornInOrder'
<1>1. {j \in Jobs : row'[j] # "absent"} = {j \in Jobs : row[j] # "absent"}
    OBVIOUS
<1>2. QED
    BY <1>1 DEF BornInOrder

\* A job with a row, to which an update of a step may be confined.
LEMMA AbsentKept ==
    ASSUME QueueInv, NEW j \in Jobs, row[j] # "absent",
           \A k \in Jobs : k # j => /\ row'[k] = row[k] /\ create'[k] = create[k]
                                   /\ cancel'[k] = cancel[k] /\ retry'[k] = retry[k],
           \A k \in Jobs : k \in Waiting' \/ k \in running'
                              => k = j \/ k \in Waiting \/ k \in running,
           row'[j] # "absent", create'[j] # "new"
    PROVE  AbsentIsNowhere'
BY DEF QueueInv, AbsentIsNowhere

-----------------------------------------------------------------------------
(* The inductive step, one lemma per handler.                              *)

LEMMA InitQueueInv == Init => QueueInv
<1> SUFFICES ASSUME Init PROVE QueueInv
    OBVIOUS
<1>1. Cardinality({}) = 0 /\ Cardinality(Jobs) \in Nat
    BY JobSets, FS_EmptySet
<1>2. Waiting = {}
    BY DEF Init, Waiting
<1>3. \A h \in Hosts : {j \in running : h \in held[j]} = {}
    BY DEF Init
<1>4. CapsRespected
    BY <1>1, <1>3, QueueAssumption DEF Init, CapsRespected
<1>5. TypeOK
    <2>1. used \in [Counters -> Nat]
        BY DEF Init, Counters
    <2>2. item \in [Jobs -> [Items -> ItemStatus]]
        BY DEF Init, ItemStatus
    <2>3. /\ row \in [Jobs -> RowStatus]
          /\ run \in [Jobs -> RunPlace] /\ \A j \in Jobs : run[j] # "off" <=> j \in running
        BY DEF Init, RowStatus, RunPlace
    <2>4. /\ born \in [Jobs -> 0 .. Cardinality(Jobs)]
          /\ line \in [Jobs -> 0 .. Cardinality(Jobs)]
        BY <1>1 DEF Init
    <2>5. QED
        BY <2>1, <2>2, <2>3, <2>4 DEF Init, TypeOK
<1>6. AbsentIsNowhere /\ BornInOrder /\ OutcomeKnown
    BY <1>2 DEF Init, AbsentIsNowhere, BornInOrder, OutcomeKnown
<1>7. LineIsALine /\ NoIdleSlot /\ DownIsEmpty
    BY <1>2 DEF Init, LineIsALine, NoIdleSlot, DownIsEmpty
<1>8. QED
    BY <1>4, <1>5, <1>6, <1>7 DEF QueueInv

LEMMA CreateKeeps ==
    ASSUME QueueInv, NEW j \in Jobs, Create(j)
    PROVE  QueueInv'
<1>1. CASE CreateRow(j)
    <2> DEFINE made == {k \in Jobs : row[k] # "absent"}
    <2>1. PoolInv'
        BY <1>1, PoolKept DEF CreateRow
    <2>2. row[j] = "absent" /\ j \notin made /\ create[j] = "new"
        BY <1>1 DEF QueueInv, AbsentIsNowhere, CreateRow
    <2>3. {k \in Jobs : row'[k] # "absent"} = made \cup {j}
        BY <1>1 DEF QueueInv, TypeOK, CreateRow
    <2>4. /\ Cardinality(made) \in Nat /\ Cardinality(Jobs) \in Nat
          /\ Cardinality(made \cup {j}) = Cardinality(made) + 1
          /\ Cardinality(made \cup {j}) <= Cardinality(Jobs)
        <3>1. IsFiniteSet(made) /\ made \in SUBSET Jobs /\ made \cup {j} \in SUBSET Jobs
            BY JobSets
        <3>2. QED
            BY <2>2, <3>1, JobSets, FS_AddElement
    <2>5. born' = [born EXCEPT ![j] = Cardinality(made) + 1]
        BY <1>1 DEF CreateRow
    <2>6. /\ born \in [Jobs -> 0 .. Cardinality(Jobs)]
          /\ \A k \in made : born[k] \in 1 .. Cardinality(made)
          /\ \A k, m \in made : born[k] = born[m] => k = m
        BY DEF QueueInv, TypeOK, BornInOrder
    <2>7. DataTypes'
        <3>1. born' \in [Jobs -> 0 .. Cardinality(Jobs)]
            BY <2>4, <2>5, <2>6
        <3>2. QED
            BY <1>1, <3>1 DEF QueueInv, TypeOK, DataTypes, RowStatus, CreateRow, work, proc
    <2>8. AbsentIsNowhere'
        BY <1>1, <2>2 DEF QueueInv, TypeOK, AbsentIsNowhere, Waiting, CreateRow, pool
    <2>9. BornInOrder'
        <3>1. \A k \in made : born'[k] = born[k]
            BY <2>2, <2>5, <2>6
        <3>2. born'[j] = Cardinality(made) + 1
            BY <2>5, <2>6
        <3> HIDE DEF made
        <3>3. \A k \in made \cup {j} : born'[k] \in 1 .. Cardinality(made \cup {j})
            BY <2>4, <2>6, <3>1, <3>2
        <3>4. \A k, m \in made \cup {j} : born'[k] = born'[m] => k = m
            BY <2>4, <2>6, <3>1, <3>2
        <3>5. QED
            BY <2>3, <3>3, <3>4 DEF BornInOrder
    <2>10. OutcomeKnown'
        BY <1>1 DEF QueueInv, OutcomeKnown, CreateRow, pool, work
    <2>11. QED
        BY <2>1, <2>7, <2>8, <2>9, <2>10, HalvesPrimed DEF DataInv
<1>2. CASE CreateItems(j)
    <2>1. PoolInv'
        BY <1>2, PoolKept DEF CreateItems
    <2>2. create[j] = "items" /\ create'[j] \in {"items", "enqueue"}
          /\ create' = [create EXCEPT ![j] = create'[j]]
        BY <1>2 DEF QueueInv, TypeOK, CreateItems
    <2>3. row[j] # "absent"
        BY <2>2 DEF QueueInv, AbsentIsNowhere
    <2>4. DataTypes'
        <3>1. item' \in [Jobs -> [Items -> ItemStatus]]
            BY <1>2 DEF QueueInv, TypeOK, CreateItems, ItemStatus
        <3>2. create' \in [Jobs -> {"new", "items", "enqueue", "done"}]
            BY <2>2 DEF QueueInv, TypeOK
        <3>3. QED
            BY <1>2, <3>1, <3>2 DEF QueueInv, TypeOK, DataTypes, CreateItems, work, proc
    <2>5. AbsentIsNowhere'
        <3>1. UNCHANGED <<row, line, running, cancel, retry>>
            BY <1>2 DEF CreateItems, pool
        <3>2. create'[j] # "new" /\ \A k \in Jobs : k # j => create'[k] = create[k]
            BY <2>2 DEF QueueInv, TypeOK
        <3>3. QED
            BY <2>3, <3>1, <3>2, AbsentKept DEF Waiting
    <2>6. BornInOrder' /\ OutcomeKnown'
        BY <1>2 DEF QueueInv, BornInOrder, OutcomeKnown, CreateItems, pool, work
    <2>7. QED
        BY <2>1, <2>4, <2>5, <2>6, HalvesPrimed DEF DataInv
<1>3. CASE CreateEnqueue(j)
    <2>1. HostsOf[j] \in SUBSET Hosts /\ up /\ Enqueue(j, HostsOf[j]) /\ UNCHANGED proc
        BY <1>3, QueueAssumption DEF CreateEnqueue
    <2>2. /\ PoolInv'
          /\ \A k \in Jobs : k \in Waiting' \/ k \in running'
                                => k = j \/ k \in Waiting \/ k \in running
          /\ \A k \in Jobs : k \in Waiting \/ k \in running
                                => k \in Waiting' \/ k \in running'
          /\ \A k \in Jobs : run'[k] \notin {"load", "off"} => run'[k] = run[k]
          /\ \A k \in Jobs : abort'[k] # "none" => abort'[k] = abort[k]
        BY <2>1, PoolEnqueue
    <2>3. row[j] # "absent"
        BY <1>3 DEF QueueInv, AbsentIsNowhere, CreateEnqueue
    <2>4. DataTypes'
        BY <1>3 DEF QueueInv, TypeOK, DataTypes, CreateEnqueue, db, work, proc
    <2>5. AbsentIsNowhere'
        BY <1>3, <2>2, <2>3 DEF QueueInv, TypeOK, AbsentIsNowhere, CreateEnqueue, db
    <2>6. BornInOrder' /\ OutcomeKnown'
        BY <1>3, <2>2 DEF QueueInv, BornInOrder, OutcomeKnown, CreateEnqueue, db, work
    <2>7. QED
        BY <2>2, <2>4, <2>5, <2>6, HalvesPrimed DEF DataInv
<1>4. QED
    BY <1>1, <1>2, <1>3 DEF Create

LEMMA CancelKeeps ==
    ASSUME QueueInv, NEW j \in Jobs, Cancel(j)
    PROVE  QueueInv'
<1>1. CASE CancelRead(j)
    <2>1. PoolInv'
        BY <1>1, PoolKept DEF CancelRead
    <2>2. row[j] # "absent" /\ create[j] # "new"
        BY <1>1 DEF QueueInv, AbsentIsNowhere, CancelRead
    <2>3. AbsentIsNowhere'
        BY <1>1, <2>2, AbsentKept DEF QueueInv, TypeOK, Waiting, CancelRead, db, pool
    <2>4. used' \in [Counters -> Nat]
        BY <1>1, Counted DEF QueueInv, TypeOK, Counters, CancelRead
    <2>5. DataTypes'
        BY <1>1, <2>4 DEF QueueInv, TypeOK, DataTypes, CancelRead, db, work, proc
    <2>6. BornInOrder' /\ OutcomeKnown'
        BY <1>1 DEF QueueInv, BornInOrder, OutcomeKnown, CancelRead, db, pool, work
    <2>7. QED
        BY <2>1, <2>3, <2>5, <2>6, HalvesPrimed DEF DataInv
<1>2. CASE CancelAct(j)
    <2>1. row[j] # "absent" /\ create[j] # "new"
        BY <1>2 DEF QueueInv, AbsentIsNowhere, CancelAct
    <2>2. DataTypes'
        <3>1. UNCHANGED <<db, work, create, retry, asked, proc, used>>
            BY <1>2 DEF CancelAct
        <3>2. cancel' \in [Jobs -> {"idle", "read", "write"}]
            <4>1. cancel' = [cancel EXCEPT ![j] = "idle"] \/ cancel' = [cancel EXCEPT ![j] = "write"]
                BY <1>2 DEF CancelAct
            <4>2. QED
                BY <4>1 DEF QueueInv, TypeOK
        <3>3. QED
            BY <3>1, <3>2 DEF QueueInv, TypeOK, DataTypes, db, work, proc
    <2>3. BornInOrder' /\ OutcomeKnown'
        BY <1>2 DEF QueueInv, BornInOrder, OutcomeKnown, CancelAct, db, work
    <2>4. UNCHANGED <<row, create, retry, running, run, up, stopping>>
          /\ \A k \in Jobs : k # j => cancel'[k] = cancel[k]
        BY <1>2 DEF QueueInv, TypeOK, CancelAct, db, proc
    <2>5. CASE j \in running
        <3>1. UNCHANGED <<line, held>> /\ abort' \in [Jobs -> {"none", "user", "shutdown"}]
            BY <1>2, <2>5 DEF QueueInv, TypeOK, CancelAct
        <3>2. PoolInv'
            <4>1. PoolInv
                BY DEF QueueInv, TypeOK, PoolInv, PoolTypes
            <4>2. QED
                BY <2>4, <3>1, <4>1 DEF PoolInv, PoolTypes, CapsRespected, LineIsALine,
                   NoIdleSlot, DownIsEmpty, Waiting, Fits
        <3>3. AbsentIsNowhere'
            BY <2>1, <2>4, <3>1, AbsentKept DEF Waiting
        <3>4. QED
            BY <2>2, <2>3, <3>2, <3>3, HalvesPrimed DEF DataInv
    <2>6. CASE j \notin running
        <3>1. /\ line' = Without(line, {j}) /\ held' = [held EXCEPT ![j] = {}]
              /\ UNCHANGED abort
            BY <1>2, <2>6 DEF CancelAct
        <3>2. /\ IsLine(line')
              /\ \A k \in Jobs : line'[k] > 0 <=> line[k] > 0 /\ k # j
              /\ \A k \in Jobs : line'[k] <= Cardinality({m \in Jobs : line'[m] > 0})
            BY <3>1, QueueIsLine, WithoutIsLine
        <3>3. Waiting' = Waiting \ {j}
            BY <3>2 DEF Waiting
        <3>4. /\ \A k \in running : held'[k] = held[k]
              /\ \A k \in Jobs : k # j => held'[k] = held[k]
              /\ held' \in [Jobs -> SUBSET Hosts]
            BY <2>6, <3>1 DEF QueueInv, TypeOK
        <3>5. \A h : {k \in running : h \in held'[k]} = {k \in running : h \in held[k]}
            BY <3>4
        <3>6. PoolTypes' /\ DownIsEmpty'
            <4>1. line' \in [Jobs -> 0 .. Cardinality(Jobs)]
                BY <3>2 DEF IsLine
            <4>2. PoolTypes
                BY DEF QueueInv, TypeOK, PoolTypes
            <4>3. PoolTypes'
                BY <2>4, <3>1, <3>4, <4>1, <4>2 DEF PoolTypes
            <4>4. DownIsEmpty'
                BY <2>4, <3>3 DEF QueueInv, DownIsEmpty
            <4>5. QED
                BY <4>3, <4>4
        <3>7. CapsRespected'
            BY <2>4, <3>5 DEF QueueInv, CapsRespected
        <3>8. LineIsALine'
            BY <2>4, <3>2, <3>3 DEF QueueInv, LineIsALine, IsLine, Waiting
        <3>9. NoIdleSlot'
            <4>1. ASSUME up, ~stopping, NEW k \in Waiting' PROVE ~Fits(k, running, held')
                <5>1. k \in Waiting /\ held'[k] = held[k]
                    BY <3>3, <3>4 DEF Waiting
                <5>2. ~Fits(k, running, held)
                    BY <4>1, <5>1 DEF QueueInv, NoIdleSlot
                <5>3. QED
                    BY <3>5, <5>1, <5>2 DEF Fits
            <4>2. QED
                BY <2>4, <4>1 DEF NoIdleSlot
        <3>10. AbsentIsNowhere'
            BY <2>1, <2>4, <3>3, AbsentKept
        <3>11. QED
            BY <2>2, <2>3, <3>6, <3>7, <3>8, <3>9, <3>10, HalvesPrimed DEF PoolInv, DataInv
    <2>7. QED
        BY <2>5, <2>6
<1>3. CASE CancelWrite(j)
    <2>1. PoolInv'
        BY <1>3, PoolKept DEF CancelWrite
    <2>2. row[j] # "absent" /\ create[j] # "new"
        BY <1>3 DEF QueueInv, AbsentIsNowhere, CancelWrite
    <2>3. row'[j] = "CANCELLED" /\ \A k \in Jobs : k # j => row'[k] = row[k]
        BY <1>3 DEF QueueInv, TypeOK, CancelWrite
    <2>4. AbsentIsNowhere'
        BY <1>3, <2>2, <2>3, AbsentKept DEF QueueInv, TypeOK, Waiting, CancelWrite, pool
    <2>5. DataTypes'
        BY <1>3 DEF QueueInv, TypeOK, DataTypes, RowStatus, Terminal, CancelWrite, work, proc
    <2>6. BornInOrder'
        BY <1>3, <2>2, <2>3, BornKept DEF QueueInv, CancelWrite
    <2>7. OutcomeKnown'
        BY <1>3 DEF QueueInv, OutcomeKnown, CancelWrite, pool, work
    <2>8. QED
        BY <2>1, <2>4, <2>5, <2>6, <2>7, HalvesPrimed DEF DataInv
<1>4. QED
    BY <1>1, <1>2, <1>3 DEF Cancel

LEMMA RetryKeeps ==
    ASSUME QueueInv, NEW j \in Jobs, Retry(j)
    PROVE  QueueInv'
<1>1. row[j] # "absent" /\ create[j] # "new"
    BY DEF QueueInv, AbsentIsNowhere, Terminal, Retry, RetryRead, RetryItems, RetryRow,
           RetryEnqueue
<1>2. CASE RetryRead(j)
    <2>1. PoolInv'
        BY <1>2, PoolKept DEF RetryRead
    <2>2. AbsentIsNowhere'
        BY <1>1, <1>2, AbsentKept DEF QueueInv, TypeOK, Waiting, RetryRead, db, pool
    <2>3. used' \in [Counters -> Nat]
        BY <1>2, Counted DEF QueueInv, TypeOK, Counters, RetryRead
    <2>4. asked' \in [Jobs -> SUBSET Hosts]
        BY <1>2, QueueAssumption DEF QueueInv, TypeOK, RetryRead
    <2>5. DataTypes'
        BY <1>2, <2>3, <2>4 DEF QueueInv, TypeOK, DataTypes, RetryRead, db, work, proc
    <2>6. BornInOrder' /\ OutcomeKnown'
        BY <1>2 DEF QueueInv, BornInOrder, OutcomeKnown, RetryRead, db, pool, work
    <2>7. QED
        BY <2>1, <2>2, <2>5, <2>6, HalvesPrimed DEF DataInv
<1>3. CASE RetryItems(j)
    <2>1. PoolInv'
        BY <1>3, PoolKept DEF RetryItems
    <2>2. AbsentIsNowhere'
        BY <1>1, <1>3, AbsentKept DEF QueueInv, TypeOK, Waiting, RetryItems, pool
    <2>3. item' \in [Jobs -> [Items -> ItemStatus]]
        BY <1>3 DEF QueueInv, TypeOK, ItemStatus, RetryItems
    <2>4. DataTypes'
        BY <1>3, <2>3 DEF QueueInv, TypeOK, DataTypes, RetryItems, work, proc
    <2>5. BornInOrder' /\ OutcomeKnown'
        BY <1>3 DEF QueueInv, BornInOrder, OutcomeKnown, RetryItems, pool, work
    <2>6. QED
        BY <2>1, <2>2, <2>4, <2>5, HalvesPrimed DEF DataInv
<1>4. CASE RetryRow(j)
    <2>1. PoolInv'
        BY <1>4, PoolKept DEF RetryRow
    <2>2. row'[j] = "QUEUED" /\ \A k \in Jobs : k # j => row'[k] = row[k]
        BY <1>4 DEF QueueInv, TypeOK, RetryRow
    <2>3. AbsentIsNowhere'
        BY <1>1, <1>4, <2>2, AbsentKept DEF QueueInv, TypeOK, Waiting, RetryRow, pool
    <2>4. DataTypes'
        BY <1>4 DEF QueueInv, TypeOK, DataTypes, RowStatus, RetryRow, work, proc
    <2>5. BornInOrder'
        BY <1>1, <1>4, <2>2, BornKept DEF QueueInv, RetryRow
    <2>6. OutcomeKnown'
        BY <1>4 DEF QueueInv, OutcomeKnown, RetryRow, pool, work
    <2>7. QED
        BY <2>1, <2>3, <2>4, <2>5, <2>6, HalvesPrimed DEF DataInv
<1>5. CASE RetryEnqueue(j)
    <2>1. asked[j] \in SUBSET Hosts /\ up /\ Enqueue(j, asked[j]) /\ UNCHANGED proc
        BY <1>5 DEF QueueInv, TypeOK, RetryEnqueue
    <2>2. /\ PoolInv'
          /\ \A k \in Jobs : k \in Waiting' \/ k \in running'
                                => k = j \/ k \in Waiting \/ k \in running
          /\ \A k \in Jobs : k \in Waiting \/ k \in running
                                => k \in Waiting' \/ k \in running'
          /\ \A k \in Jobs : run'[k] \notin {"load", "off"} => run'[k] = run[k]
          /\ \A k \in Jobs : abort'[k] # "none" => abort'[k] = abort[k]
        BY <2>1, PoolEnqueue
    <2>3. DataTypes'
        BY <1>5 DEF QueueInv, TypeOK, DataTypes, RetryEnqueue, db, work, proc
    <2>4. AbsentIsNowhere'
        BY <1>1, <1>5, <2>2, AbsentKept DEF QueueInv, TypeOK, RetryEnqueue, db
    <2>5. BornInOrder' /\ OutcomeKnown'
        BY <1>5, <2>2 DEF QueueInv, BornInOrder, OutcomeKnown, RetryEnqueue, db, work
    <2>6. QED
        BY <2>2, <2>3, <2>4, <2>5, HalvesPrimed DEF DataInv
<1>6. QED
    BY <1>2, <1>3, <1>4, <1>5 DEF Retry

\* A run that moves to another place keeps the invariant, if the tables keep
\* their types and the run knows its outcome when it is about to write it.
LEMMA StepKeeps ==
    ASSUME QueueInv, NEW j \in Jobs, run[j] # "off",
           NEW to \in RunPlace \ {"off"}, Step(j, to),
           UNCHANGED <<born, http, proc>>, DataTypes',
           \A k \in Jobs : row'[k] = "absent" <=> row[k] = "absent",
           \A k \in Jobs : k # j => outcome'[k] = outcome[k],
           to \in {"count", "write"} => outcome'[j] \in Terminal
    PROVE  QueueInv'
<1>1. PoolInv'
    BY PoolStep
<1>2. UNCHANGED <<line, running, create, cancel, retry>>
    BY DEF Step, http
<1>3. AbsentIsNowhere'
    BY <1>2 DEF QueueInv, AbsentIsNowhere, Waiting
<1>4. BornInOrder'
    BY BornKept DEF QueueInv
<1>5. run'[j] = to /\ \A k \in Jobs : k # j => run'[k] = run[k]
    BY DEF QueueInv, TypeOK, Step
<1>6. OutcomeKnown'
    BY <1>5 DEF QueueInv, OutcomeKnown
<1>7. QED
    BY <1>1, <1>3, <1>4, <1>6, HalvesPrimed DEF DataInv

\* A job with a run has a row.
LEMMA RunHasRow ==
    ASSUME QueueInv, NEW j \in Jobs, run[j] # "off"
    PROVE  row[j] # "absent" /\ j \in running
BY DEF QueueInv, TypeOK, AbsentIsNowhere

LEMMA RunKeeps ==
    ASSUME QueueInv, NEW j \in Jobs, Run(j) \/ RunEscape(j)
    PROVE  QueueInv'
<1>1. CASE RunLoad(j)
    <2>1. PICK to \in {"fail", "mark"} : Step(j, to)
        BY <1>1 DEF RunLoad
    <2>2. todo' \in [Jobs -> SUBSET Items]
        <3> DEFINE left == {i \in Items : item[j][i] \notin Settled \cup {"absent"}}
        <3>1. left \in SUBSET Items
            OBVIOUS
        <3>2. UNCHANGED todo \/ todo' = [todo EXCEPT ![j] = left]
            BY <1>1 DEF RunLoad
        <3> HIDE DEF left
        <3>3. QED
            BY <3>1, <3>2 DEF QueueInv, TypeOK
    <2>3. DataTypes'
        BY <1>1, <2>2 DEF QueueInv, TypeOK, DataTypes, RunLoad, db, http, proc
    <2>4. QED
        BY <1>1, <2>1, <2>3, StepKeeps DEF RunLoad, RunPlace, db
<1>2. CASE RunFail(j)
    <2>1. DataTypes'
        BY <1>2 DEF QueueInv, TypeOK, DataTypes, RowStatus, Terminal, RunFail, work, http, proc
    <2>2. \A k \in Jobs : row'[k] = "absent" <=> row[k] = "absent"
        BY <1>2, RunHasRow DEF QueueInv, TypeOK, RunFail
    <2>3. QED
        BY <1>2, <2>1, <2>2, StepKeeps DEF RunFail, RunPlace, work
<1>3. CASE RunMark(j)
    <2>1. DataTypes'
        BY <1>3 DEF QueueInv, TypeOK, DataTypes, RowStatus, RunMark, work, http, proc
    <2>2. \A k \in Jobs : row'[k] = "absent" <=> row[k] = "absent"
        BY <1>3, RunHasRow DEF QueueInv, TypeOK, RunMark
    <2>3. QED
        BY <1>3, <2>1, <2>2, StepKeeps DEF RunMark, RunPlace, work
<1>4. CASE RunNext(j)
    <2>1. DataTypes'
        BY <1>4 DEF QueueInv, TypeOK, DataTypes, RunNext, db, work, http, proc
    <2>2. QED
        BY <1>4, <2>1, StepKeeps DEF RunNext, RunPlace, db, work
<1>5. CASE RunSettle(j)
    <2>1. item' \in [Jobs -> [Items -> ItemStatus]] /\ todo' \in [Jobs -> SUBSET Items]
        BY <1>5 DEF QueueInv, TypeOK, ItemStatus, Settled, RunSettle
    <2>2. DataTypes'
        BY <1>5, <2>1 DEF QueueInv, TypeOK, DataTypes, RunSettle, http, proc
    <2>3. QED
        BY <1>5, <2>2, StepKeeps DEF RunSettle, RunPlace
<1>6. CASE RunUnverified(j)
    <2>1. PoolInv'
        BY <1>6, PoolKept DEF RunUnverified
    <2>2. item' \in [Jobs -> [Items -> ItemStatus]]
        BY <1>6 DEF QueueInv, TypeOK, ItemStatus, RunUnverified
    <2>3. DataTypes'
        BY <1>6, <2>2 DEF QueueInv, TypeOK, DataTypes, RunUnverified, work, http, proc
    <2>4. AbsentIsNowhere' /\ BornInOrder' /\ OutcomeKnown'
        BY <1>6 DEF QueueInv, AbsentIsNowhere, BornInOrder, OutcomeKnown, Waiting,
           RunUnverified, pool, work, http
    <2>5. QED
        BY <2>1, <2>3, <2>4, HalvesPrimed DEF DataInv
<1>7. CASE RunReturn(j)
    <2>1. /\ outcome' \in [Jobs -> Terminal \cup {"none"}] /\ outcome'[j] \in Terminal
          /\ \A k \in Jobs : k # j => outcome'[k] = outcome[k]
        BY <1>7 DEF QueueInv, TypeOK, Terminal, RunReturn
    <2>2. DataTypes'
        BY <1>7, <2>1 DEF QueueInv, TypeOK, DataTypes, RunReturn, db, http, proc
    <2>3. QED
        BY <1>7, <2>1, <2>2, StepKeeps DEF RunReturn, RunPlace, db
<1>8. CASE RunThrow(j)
    <2>1. PICK to \in {"leave", "count"} :
            /\ Step(j, to)
            /\ to = "leave" => UNCHANGED outcome
            /\ to = "count" => \E o \in {"CANCELLED", "FAILED"} :
                                    outcome' = [outcome EXCEPT ![j] = o]
        BY <1>8 DEF RunThrow
    <2>2. /\ outcome' \in [Jobs -> Terminal \cup {"none"}]
          /\ to = "count" => outcome'[j] \in Terminal
          /\ \A k \in Jobs : k # j => outcome'[k] = outcome[k]
        BY <2>1 DEF QueueInv, TypeOK, Terminal
    <2>3. DataTypes'
        BY <1>8, <2>2 DEF QueueInv, TypeOK, DataTypes, RunThrow, db, http, proc
    <2>4. QED
        BY <1>8, <2>1, <2>2, <2>3, StepKeeps DEF RunThrow, RunPlace, db
<1>9. CASE RunCount(j)
    <2>1. outcome[j] \in Terminal
        BY <1>9 DEF QueueInv, OutcomeKnown, RunCount
    <2>2. \E o \in Terminal : outcome' = [outcome EXCEPT ![j] = o]
        BY <1>9, <2>1 DEF RunCount, Terminal
    <2>3. /\ outcome' \in [Jobs -> Terminal \cup {"none"}] /\ outcome'[j] \in Terminal
          /\ \A k \in Jobs : k # j => outcome'[k] = outcome[k]
        BY <2>2 DEF QueueInv, TypeOK
    <2>4. DataTypes'
        BY <1>9, <2>3 DEF QueueInv, TypeOK, DataTypes, RunCount, db, http, proc
    <2>5. QED
        BY <1>9, <2>3, <2>4, StepKeeps DEF RunCount, RunPlace, db
<1>10. CASE RunWrite(j)
    <2>1. outcome[j] \in Terminal
        BY <1>10 DEF QueueInv, OutcomeKnown, RunWrite
    <2>2. DataTypes'
        BY <1>10, <2>1 DEF QueueInv, TypeOK, DataTypes, RowStatus, RunWrite, work, http, proc
    <2>3. \A k \in Jobs : row'[k] = "absent" <=> row[k] = "absent"
        BY <1>10, <2>1, RunHasRow DEF QueueInv, TypeOK, Terminal, RunWrite
    <2>4. QED
        BY <1>10, <2>2, <2>3, StepKeeps DEF RunWrite, RunPlace, work
<1>11. CASE RunLeave(j)
    <2> DEFINE busy == running \ {j}
    <2>1. /\ IsLine(line) /\ Within(running, held) /\ \A k \in running : line[k] = 0
          /\ running \in SUBSET Jobs
        BY QueueIsLine
    <2>2. Pump(line, busy, held) /\ UNCHANGED proc
        BY <1>11 DEF RunLeave
    <2>3. held \in [Jobs -> SUBSET Hosts] /\ busy \in SUBSET running
        BY DEF QueueInv, TypeOK
    <2>4. Within(busy, held)
        BY <2>1, FewerWithin
    <2>5. up
        <3>1. j \in running
            BY <1>11, RunHasRow DEF RunLeave
        <3>2. QED
            BY <3>1 DEF QueueInv, TypeOK, DownIsEmpty
    <2>6. up' /\ stopping' = stopping
        BY <2>2, <2>5 DEF proc
    <2>7. /\ PoolInv'
          /\ \A k \in Jobs : k \in Waiting' \/ k \in running' <=> k \in busy \/ line[k] > 0
          /\ \A k \in Jobs : run'[k] \notin {"load", "off"} => run'[k] = run[k]
          /\ \A k \in Jobs : abort'[k] # "none" => abort'[k] = abort[k]
        BY <2>1, <2>2, <2>3, <2>4, <2>6, PoolPump
    <2>8. DataTypes'
        BY <1>11 DEF QueueInv, TypeOK, DataTypes, RunLeave, db, http, proc
    <2>9. AbsentIsNowhere'
        <3>1. \A k \in Jobs : k \in Waiting' \/ k \in running' => k \in Waiting \/ k \in running
            BY <2>7 DEF Waiting
        <3>2. QED
            BY <1>11, <3>1 DEF QueueInv, AbsentIsNowhere, RunLeave, db, http
    <2>10. BornInOrder'
        BY <1>11 DEF QueueInv, BornInOrder, RunLeave, db
    <2>11. OutcomeKnown'
        <3>1. run[j] = "leave" /\ \A k \in Jobs : k # j => outcome'[k] = outcome[k]
            BY <1>11 DEF QueueInv, TypeOK, RunLeave
        <3>2. QED
            BY <2>7, <3>1 DEF QueueInv, OutcomeKnown
    <2>12. QED
        BY <2>7, <2>8, <2>9, <2>10, <2>11, HalvesPrimed DEF DataInv
<1>12. CASE RunEscape(j)
    <2>1. used' \in [Counters -> Nat]
        BY <1>12, Counted DEF QueueInv, TypeOK, Counters, RunEscape
    <2>2. DataTypes'
        BY <1>12, <2>1 DEF QueueInv, TypeOK, DataTypes, RunEscape, db, work, http, proc
    <2>3. QED
        BY <1>12, <2>2, StepKeeps DEF RunEscape, RunPlace, db, work
<1>13. QED
    BY <1>1, <1>2, <1>3, <1>4, <1>5, <1>6, <1>7, <1>8, <1>9, <1>10, <1>11, <1>12 DEF Run

LEMMA ProcessKeeps ==
    ASSUME QueueInv, (\E h \in Hosts : DeleteHost(h)) \/ Shutdown \/ Exit \/ Boot \/ BootUnreclaimed
    PROVE  QueueInv'
<1>1. CASE \E h \in Hosts : DeleteHost(h)
    <2>1. PICK h \in Hosts : DeleteHost(h)
        BY <1>1
    <2>2. PoolInv'
        BY <2>1, PoolKept DEF DeleteHost
    <2>3. DataInv'
        BY <2>1 DEF QueueInv, TypeOK, DataInv, DataTypes, AbsentIsNowhere, BornInOrder,
           OutcomeKnown, Waiting, DeleteHost, pool, work, http, proc
    <2>4. QED
        BY <2>2, <2>3, HalvesPrimed
<1>2. CASE Shutdown
    <2>1. Waiting' = {}
        BY <1>2 DEF Shutdown, Waiting
    <2>2. \A k \in running : held'[k] = held[k]
        BY <1>2 DEF QueueInv, TypeOK, Shutdown
    <2>3. \A h : {k \in running : h \in held'[k]} = {k \in running : h \in held[k]}
        BY <2>2
    <2>4. CapsRespected'
        BY <1>2, <2>3 DEF QueueInv, CapsRespected, Shutdown
    <2>5. LineIsALine' /\ NoIdleSlot' /\ DownIsEmpty'
        BY <1>2, <2>1 DEF LineIsALine, NoIdleSlot, DownIsEmpty, Shutdown
    <2>6. PoolTypes'
        <3>1. line' \in [Jobs -> 0 .. Cardinality(Jobs)]
            BY <1>2, JobSets DEF Shutdown
        <3>2. QED
            BY <1>2, <3>1 DEF QueueInv, TypeOK, PoolTypes, Shutdown
    <2>7. used' \in [Counters -> Nat]
        BY <1>2, Counted DEF QueueInv, TypeOK, Counters, Shutdown
    <2>8. DataTypes'
        BY <1>2, <2>7 DEF QueueInv, TypeOK, DataTypes, Shutdown, db, work, http
    <2>9. AbsentIsNowhere' /\ BornInOrder' /\ OutcomeKnown'
        BY <1>2, <2>1 DEF QueueInv, AbsentIsNowhere, BornInOrder, OutcomeKnown, Shutdown,
           db, work, http
    <2>10. QED
        BY <2>4, <2>5, <2>6, <2>8, <2>9, HalvesPrimed DEF PoolInv, DataInv
<1>3. CASE Exit
    <2>1. Waiting' = {} /\ running' = {}
        BY <1>3 DEF Exit, Waiting
    <2>2. \A h : {k \in running' : h \in held'[k]} = {}
        BY <2>1
    <2>3. CapsRespected'
        BY <2>1, <2>2, FS_EmptySet, QueueAssumption DEF CapsRespected
    <2>4. LineIsALine' /\ NoIdleSlot' /\ DownIsEmpty'
        BY <1>3, <2>1 DEF LineIsALine, NoIdleSlot, DownIsEmpty, Exit
    <2>5. PoolTypes'
        <3>1. line' \in [Jobs -> 0 .. Cardinality(Jobs)]
            BY <1>3, JobSets DEF Exit
        <3>2. QED
            BY <1>3, <3>1 DEF PoolTypes, RunPlace, Exit
    <2>6. used' \in [Counters -> Nat]
        BY <1>3, Counted DEF QueueInv, TypeOK, Counters, Exit
    <2>7. /\ create' \in [Jobs -> {"new", "items", "enqueue", "done"}]
          /\ \A j \in Jobs : create'[j] = "new" <=> create[j] = "new"
        BY <1>3 DEF Exit
    <2>8. DataTypes'
        BY <1>3, <2>6, <2>7 DEF QueueInv, TypeOK, DataTypes, Exit, db
    <2>9. AbsentIsNowhere'
        BY <1>3, <2>1, <2>7 DEF QueueInv, AbsentIsNowhere, Exit, db
    <2>10. BornInOrder' /\ OutcomeKnown'
        BY <1>3 DEF QueueInv, BornInOrder, OutcomeKnown, Exit, db
    <2>11. QED
        BY <2>3, <2>4, <2>5, <2>8, <2>9, <2>10, HalvesPrimed DEF PoolInv, DataInv
<1>4. CASE Boot
    <2> DEFINE stranded == {j \in Jobs : row[j] \in {"QUEUED", "RUNNING"}}
               ln == [j \in Jobs |-> IF j \notin stranded THEN 0
                                     ELSE Cardinality({k \in stranded : born[k] <= born[j]})]
               hs == [j \in Jobs |-> HostsOf[j] \ gone]
    <2>1. ~up /\ up' /\ ~stopping /\ UNCHANGED <<db, work, http, stopping, used>>
        BY <1>4 DEF QueueInv, DownIsEmpty, Boot
    <2>2. Pump(ln, {}, hs)
        BY <1>4 DEF Boot
    <2>3. stranded \in SUBSET Jobs /\ \A j \in stranded : row[j] # "absent"
        OBVIOUS
    <2>4. hs \in [Jobs -> SUBSET Hosts]
        BY QueueAssumption
    <2> HIDE DEF stranded
    <2>5. IsLine(ln) /\ \A j \in Jobs : ln[j] > 0 <=> j \in stranded
        BY <2>3, ReclaimIsLine
    <2> HIDE DEF ln, hs
    <2>6. Within({}, hs)
        BY EmptyWithin
    <2>7. /\ PoolInv'
          /\ \A j \in Jobs : j \in Waiting' \/ j \in running' <=> j \in {} \/ ln[j] > 0
          /\ \A j \in Jobs : run'[j] \notin {"load", "off"} => run'[j] = run[j]
          /\ \A j \in Jobs : abort'[j] # "none" => abort'[j] = abort[j]
        BY <2>1, <2>2, <2>4, <2>5, <2>6, PoolPump
    <2>8. DataTypes'
        BY <2>1 DEF QueueInv, TypeOK, DataTypes, db, work, http
    <2>9. AbsentIsNowhere'
        <3>1. \A j \in Jobs : j \in Waiting' \/ j \in running' => row[j] # "absent"
            BY <2>3, <2>5, <2>7
        <3>2. QED
            BY <2>1, <3>1 DEF QueueInv, AbsentIsNowhere, db, http
    <2>10. BornInOrder' /\ OutcomeKnown'
        BY <2>1, <2>7 DEF QueueInv, BornInOrder, OutcomeKnown, db, work
    <2>11. QED
        BY <2>7, <2>8, <2>9, <2>10, HalvesPrimed DEF DataInv
<1>5. CASE BootUnreclaimed
    <2>1. Waiting = {} /\ Waiting' = {} /\ UNCHANGED <<db, pool, work, http, stopping>> /\ up'
        BY <1>5 DEF QueueInv, DownIsEmpty, Waiting, pool, BootUnreclaimed
    <2>2. PoolInv'
        BY <2>1 DEF QueueInv, TypeOK, PoolInv, PoolTypes, CapsRespected, LineIsALine,
           NoIdleSlot, DownIsEmpty, pool
    <2>3. used' \in [Counters -> Nat]
        BY <1>5, Counted DEF QueueInv, TypeOK, Counters, BootUnreclaimed
    <2>4. DataTypes'
        BY <2>1, <2>3 DEF QueueInv, TypeOK, DataTypes, db, work, http
    <2>5. AbsentIsNowhere' /\ BornInOrder' /\ OutcomeKnown'
        BY <2>1 DEF QueueInv, AbsentIsNowhere, BornInOrder, OutcomeKnown, db, pool, work, http
    <2>6. QED
        BY <2>2, <2>4, <2>5, HalvesPrimed DEF DataInv
<1>6. QED
    BY <1>1, <1>2, <1>3, <1>4, <1>5

LEMMA QueueInvStep == QueueInv /\ [Next]_vars => QueueInv'
<1> SUFFICES ASSUME QueueInv, [Next]_vars PROVE QueueInv'
    OBVIOUS
<1>1. CASE UNCHANGED vars
    <2>1. UNCHANGED <<db, pool, work, http, proc, used>>
        BY <1>1 DEF vars
    <2>2. PoolInv'
        BY <2>1, PoolKept
    <2>3. DataInv'
        BY <2>1 DEF QueueInv, TypeOK, DataInv, DataTypes, AbsentIsNowhere, BornInOrder,
           OutcomeKnown, Waiting, db, pool, work, http, proc
    <2>4. QED
        BY <2>2, <2>3, HalvesPrimed
<1>2. CASE Next
    BY <1>2, CreateKeeps, CancelKeeps, RetryKeeps, RunKeeps, ProcessKeeps DEF Next
<1>3. QED
    BY <1>1, <1>2

-----------------------------------------------------------------------------
(* The theorems.                                                           *)

\* QueueInv holds in every reachable state, for any jobs, hosts and caps.
THEOREM QueueInvariant == Spec => []QueueInv
<1>1. Init => QueueInv
    BY InitQueueInv
<1>2. QueueInv /\ [Next]_vars => QueueInv'
    BY QueueInvStep
<1>3. QED
    BY <1>1, <1>2, PTL DEF Spec

\* Every variable keeps its type: no row takes a status the schema does not
\* know, and a job has a run exactly while it is in `running`.
THEOREM TypeCorrect == Spec => []TypeOK
<1>1. QueueInv => TypeOK
    BY DEF QueueInv
<1>2. QED
    BY <1>1, QueueInvariant, PTL

\* Never more transfers in flight, in all or on one machine, than configured,
\* through every overlap of requests, finishes, aborts, restarts and failing
\* database calls.
THEOREM CapsAlways == Spec => []CapsRespected
<1>1. QueueInv => CapsRespected
    BY DEF QueueInv
<1>2. QED
    BY <1>1, QueueInvariant, PTL

\* The waiting array is a line and no job in it is also running: a job never
\* has two runs.
THEOREM LineAlways == Spec => []LineIsALine
<1>1. QueueInv => LineIsALine
    BY DEF QueueInv
<1>2. QED
    BY <1>1, QueueInvariant, PTL

\* No slot sits idle while a job that could use it waits.
THEOREM NoIdleSlotAlways == Spec => []NoIdleSlot
<1>1. QueueInv => NoIdleSlot
    BY DEF QueueInv
<1>2. QED
    BY <1>1, QueueInvariant, PTL

-----------------------------------------------------------------------------
(* RUNNING rows, while no database call fails outside the runner's `try`.  *)

\* A step that moves no run, takes nobody out of the queue and writes no row
\* RUNNING.
LEMMA RowPoolGrows ==
    ASSUME QueueInv, RowInv, UNCHANGED <<up, stopping>>,
           \A k \in Jobs : k \in Waiting \/ k \in running => k \in Waiting' \/ k \in running',
           \A k \in Jobs : run'[k] = "leave" => run[k] = "leave",
           \A k \in Jobs : abort'[k] = "shutdown" => abort[k] = "shutdown",
           \A k \in Jobs : row'[k] = "RUNNING" => row[k] = "RUNNING",
           \A k \in Jobs : row'[k] = "RUNNING" /\ cancel[k] = "write" => cancel'[k] = "write"
    PROVE  RowInv'
BY DEF RowInv, RowsOwned

LEMMA RowRequests ==
    ASSUME QueueInv, RowInv, NEW j \in Jobs, Create(j) \/ Cancel(j) \/ Retry(j)
    PROVE  RowInv'
<1>1. ASSUME UNCHANGED pool
      PROVE  /\ \A k \in Jobs : k \in Waiting \/ k \in running
                                    => k \in Waiting' \/ k \in running'
             /\ \A k \in Jobs : run'[k] = "leave" => run[k] = "leave"
             /\ \A k \in Jobs : abort'[k] = "shutdown" => abort[k] = "shutdown"
    BY <1>1 DEF pool, Waiting
<1>2. CASE CreateRow(j) \/ CreateItems(j)
    <2>1. UNCHANGED <<pool, cancel, up, stopping>>
          /\ \A k \in Jobs : row'[k] = "RUNNING" => row[k] = "RUNNING"
        BY <1>2 DEF QueueInv, TypeOK, CreateRow, CreateItems, proc
    <2>2. QED
        BY <1>1, <2>1, RowPoolGrows
<1>3. CASE CreateEnqueue(j) \/ RetryEnqueue(j)
    <2>1. PICK hs \in SUBSET Hosts : Enqueue(j, hs)
        <3>1. HostsOf[j] \in SUBSET Hosts /\ asked[j] \in SUBSET Hosts
            BY QueueAssumption DEF QueueInv, TypeOK
        <3>2. QED
            BY <1>3, <3>1 DEF CreateEnqueue, RetryEnqueue
    <2>2. up /\ UNCHANGED <<row, cancel, proc>>
        BY <1>3 DEF CreateEnqueue, RetryEnqueue, db
    <2>3. /\ \A k \in Jobs : k \in Waiting \/ k \in running
                                => k \in Waiting' \/ k \in running'
          /\ \A k \in Jobs : run'[k] \notin {"load", "off"} => run'[k] = run[k]
          /\ \A k \in Jobs : abort'[k] # "none" => abort'[k] = abort[k]
        BY <2>1, <2>2, PoolEnqueue
    <2>4. /\ \A k \in Jobs : run'[k] = "leave" => run[k] = "leave"
          /\ \A k \in Jobs : abort'[k] = "shutdown" => abort[k] = "shutdown"
        BY <2>3
    <2>5. QED
        BY <2>2, <2>3, <2>4, RowPoolGrows DEF proc
<1>4. CASE CancelRead(j)
    <2>1. UNCHANGED <<pool, row, up, stopping>>
          /\ \A k \in Jobs : cancel[k] = "write" => cancel'[k] = "write"
        BY <1>4 DEF QueueInv, TypeOK, CancelRead, db, proc
    <2>2. QED
        BY <1>1, <2>1, RowPoolGrows
<1>5. CASE CancelAct(j)
    <2>1. UNCHANGED <<row, running, run, up, stopping>> /\ cancel[j] = "read"
          /\ \A k \in Jobs : k # j => cancel'[k] = cancel[k]
        BY <1>5 DEF QueueInv, TypeOK, CancelAct, db, proc
    <2>2. CASE j \in running
        <3>1. UNCHANGED line /\ \A k \in Jobs : abort'[k] = "shutdown" => abort[k] = "shutdown"
            BY <1>5, <2>2 DEF QueueInv, TypeOK, CancelAct
        <3>2. QED
            BY <2>1, <3>1, RowPoolGrows DEF Waiting
    <2>3. CASE j \notin running
        <3>1. line' = Without(line, {j}) /\ UNCHANGED abort /\ cancel'[j] = "write"
            BY <1>5, <2>3 DEF QueueInv, TypeOK, CancelAct
        <3>2. \A k \in Jobs : line'[k] > 0 <=> line[k] > 0 /\ k \notin {j}
            BY <3>1, QueueIsLine, WithoutIsLine
        <3>3. \A k \in Waiting : k # j => k \in Waiting'
            BY <3>2 DEF Waiting
        <3>4. QED
            BY <2>1, <3>1, <3>3 DEF RowInv, RowsOwned
    <2>4. QED
        BY <2>2, <2>3
<1>6. CASE CancelWrite(j)
    <2>1. /\ UNCHANGED <<pool, up, stopping>> /\ row'[j] = "CANCELLED"
          /\ \A k \in Jobs : k # j => row'[k] = row[k] /\ cancel'[k] = cancel[k]
        BY <1>6 DEF QueueInv, TypeOK, CancelWrite, proc
    <2>2. \A k \in Jobs : /\ row'[k] = "RUNNING" => row[k] = "RUNNING"
                         /\ row'[k] = "RUNNING" /\ cancel[k] = "write" => cancel'[k] = "write"
        BY <2>1
    <2>3. QED
        BY <1>1, <2>1, <2>2, RowPoolGrows
<1>7. CASE RetryRead(j) \/ RetryItems(j) \/ RetryRow(j)
    <2>1. UNCHANGED <<pool, cancel, up, stopping>>
          /\ \A k \in Jobs : row'[k] = "RUNNING" => row[k] = "RUNNING"
        BY <1>7 DEF QueueInv, TypeOK, RetryRead, RetryItems, RetryRow, db, proc
    <2>2. QED
        BY <1>1, <2>1, RowPoolGrows
<1>8. QED
    BY <1>2, <1>3, <1>4, <1>5, <1>6, <1>7 DEF Create, Cancel, Retry

\* A run that moves on without leaving the queue.  It may mark its own row
\* RUNNING: it is in the running map.
LEMMA RowStep ==
    ASSUME QueueInv, RowInv, NEW j \in Jobs, run[j] # "off",
           NEW to \in RunPlace \ {"off"}, Step(j, to), UNCHANGED <<http, proc>>,
           \A k \in Jobs : k # j => row'[k] = row[k],
           ~stopping /\ to = "leave" => row'[j] # "RUNNING"
    PROVE  RowInv'
<1>1. /\ UNCHANGED <<line, running, abort, cancel, up, stopping>> /\ j \in running
      /\ run'[j] = to /\ \A k \in Jobs : k # j => run'[k] = run[k]
    BY DEF QueueInv, TypeOK, Step, http, proc
<1>2. RowsOwned'
    BY <1>1 DEF RowInv, RowsOwned, Waiting
<1>3. QED
    BY <1>1, <1>2 DEF RowInv

LEMMA RowRun ==
    ASSUME QueueInv, RowInv, NEW j \in Jobs, Run(j)
    PROVE  RowInv'
<1>1. CASE RunLoad(j) \/ RunNext(j) \/ RunReturn(j) \/ RunCount(j) \/ RunSettle(j)
    <2>1. PICK to \in RunPlace \ {"off", "leave"} : Step(j, to)
        BY <1>1 DEF RunPlace, RunLoad, RunNext, RunReturn, RunCount, RunSettle
    <2>2. run[j] # "off" /\ UNCHANGED <<row, http, proc>>
        BY <1>1 DEF RunLoad, RunNext, RunReturn, RunCount, RunSettle, db
    <2>3. QED
        BY <2>1, <2>2, RowStep
<1>2. CASE RunMark(j)
    <2>1. Step(j, "exec") /\ run[j] # "off" /\ UNCHANGED <<http, proc>>
          /\ \A k \in Jobs : k # j => row'[k] = row[k]
        BY <1>2 DEF QueueInv, TypeOK, RunMark
    <2>2. QED
        BY <2>1, RowStep DEF RunPlace
<1>3. CASE RunFail(j) \/ RunWrite(j)
    <2>1. outcome[j] # "RUNNING" \/ RunFail(j)
        BY <1>3 DEF QueueInv, OutcomeKnown, Terminal, RunWrite
    <2>2. Step(j, "leave") /\ run[j] # "off" /\ UNCHANGED <<http, proc>>
          /\ row'[j] # "RUNNING" /\ \A k \in Jobs : k # j => row'[k] = row[k]
        BY <1>3, <2>1 DEF QueueInv, TypeOK, RunFail, RunWrite
    <2>3. QED
        BY <2>2, RowStep DEF RunPlace
<1>4. CASE RunUnverified(j)
    <2>1. UNCHANGED <<row, line, running, run, abort, cancel, up, stopping>>
        BY <1>4 DEF RunUnverified, pool, http, proc
    <2>2. QED
        BY <2>1, RowPoolGrows DEF Waiting
<1>5. CASE RunThrow(j)
    <2>1. PICK to \in {"leave", "count"} : Step(j, to) /\ (to = "leave" => abort[j] = "shutdown")
        BY <1>5 DEF RunThrow
    <2>2. to = "leave" => stopping
        BY <2>1 DEF RowInv
    <2>3. run[j] # "off" /\ UNCHANGED <<row, http, proc>>
        BY <1>5 DEF RunThrow, db
    <2>4. QED
        BY <2>1, <2>2, <2>3, RowStep DEF RunPlace
<1>6. CASE RunLeave(j)
    <2>1. /\ run[j] = "leave" /\ run' = run' /\ Pump(line, running \ {j}, held)
          /\ UNCHANGED <<row, cancel, proc>>
        BY <1>6 DEF RunLeave, db, http
    <2>2. Pumped(line, running \ {j})
        <3>1. /\ IsLine(line) /\ Within(running, held) /\ \A k \in running : line[k] = 0
              /\ running \in SUBSET Jobs
            BY QueueIsLine
        <3>2. held \in [Jobs -> SUBSET Hosts] /\ TypeOK
            BY DEF QueueInv, TypeOK
        <3>3. Within(running \ {j}, held)
            BY <3>1, FewerWithin
        <3>4. QED
            BY <2>1, <3>1, <3>2, <3>3, PumpStep
    <2>3. /\ \A k \in Jobs : k # j /\ (k \in Waiting \/ k \in running)
                                => k \in Waiting' \/ k \in running'
          /\ \A k \in Jobs : run'[k] = "leave" => run[k] = "leave"
          /\ \A k \in Jobs : abort'[k] = "shutdown" => abort[k] = "shutdown"
        BY <2>2 DEF Pumped, Waiting
    <2>4. UNCHANGED <<up, stopping>> /\ (~stopping => row[j] # "RUNNING")
        BY <2>1 DEF RowInv, proc
    <2>5. QED
        BY <2>1, <2>3, <2>4 DEF RowInv, RowsOwned
<1>7. QED
    BY <1>1, <1>2, <1>3, <1>4, <1>5, <1>6 DEF Run

LEMMA RowProcess ==
    ASSUME QueueInv, RowInv, (\E h \in Hosts : DeleteHost(h)) \/ Shutdown \/ Exit \/ Boot
    PROVE  RowInv'
<1>1. CASE \E h \in Hosts : DeleteHost(h)
    <2>1. UNCHANGED <<row, line, running, run, abort, cancel, up, stopping>>
        BY <1>1 DEF DeleteHost, pool, http, proc
    <2>2. QED
        BY <2>1, RowPoolGrows DEF Waiting
<1>2. CASE Shutdown
    BY <1>2 DEF Shutdown, RowInv, RowsOwned
<1>3. CASE Exit
    BY <1>3 DEF Exit, RowInv, RowsOwned
<1>4. CASE Boot
    <2> DEFINE stranded == {j \in Jobs : row[j] \in {"QUEUED", "RUNNING"}}
               ln == [j \in Jobs |-> IF j \notin stranded THEN 0
                                     ELSE Cardinality({k \in stranded : born[k] <= born[j]})]
               hs == [j \in Jobs |-> HostsOf[j] \ gone]
    <2>1. ~up /\ up' /\ UNCHANGED <<row, stopping>> /\ Pump(ln, {}, hs)
        BY <1>4 DEF Boot, db
    <2>2. stranded \in SUBSET Jobs /\ \A j \in stranded : row[j] # "absent"
        OBVIOUS
    <2>3. \A j \in Jobs : row[j] = "RUNNING" => j \in stranded
        OBVIOUS
    <2>4. hs \in [Jobs -> SUBSET Hosts] /\ TypeOK
        BY QueueAssumption DEF QueueInv
    <2> HIDE DEF stranded
    <2>5. IsLine(ln) /\ \A j \in Jobs : ln[j] > 0 <=> j \in stranded
        BY <2>2, ReclaimIsLine
    <2> HIDE DEF ln, hs
    <2>6. Pumped(ln, {})
        BY <2>1, <2>4, <2>5, EmptyWithin, PumpStep
    <2>7. /\ \A j \in Jobs : j \in stranded => j \in Waiting' \/ j \in running'
          /\ \A j \in Jobs : run'[j] # "leave" /\ abort'[j] # "shutdown"
        BY <2>5, <2>6 DEF Pumped, Waiting
    <2>8. QED
        BY <2>1, <2>3, <2>7 DEF RowInv, RowsOwned
<1>5. QED
    BY <1>1, <1>2, <1>3, <1>4

\* The counter of failing calls never goes back, and only two steps raise it.
LEMMA FaultsOnlyGrow ==
    ASSUME TypeOK, Next, used'.faults = 0
    PROVE  used.faults = 0 /\ ~BootUnreclaimed /\ \A j \in Jobs : ~RunEscape(j)
<1>1. used \in [Counters -> Nat]
    BY DEF TypeOK
<1>2. ~BootUnreclaimed /\ \A j \in Jobs : ~RunEscape(j)
    BY <1>1 DEF BootUnreclaimed, RunEscape, Counters
<1>3. ASSUME NEW j \in Jobs, Create(j) \/ Cancel(j) \/ Retry(j)
      PROVE  used'.faults = used.faults
    BY <1>1, <1>3 DEF Create, CreateRow, CreateItems, CreateEnqueue, Cancel, CancelRead, CancelAct,
              CancelWrite, Retry, RetryRead, RetryItems, RetryRow, RetryEnqueue, Counters
<1>4. ASSUME NEW j \in Jobs, Run(j)
      PROVE  used'.faults = used.faults
    BY <1>4 DEF Run, RunLoad, RunFail, RunMark, RunNext, RunSettle, RunUnverified, RunReturn,
              RunThrow, RunCount, RunWrite, RunLeave
<1>5. ASSUME (\E h \in Hosts : DeleteHost(h)) \/ Shutdown \/ Exit \/ Boot
      PROVE  used'.faults = used.faults
    <2>1. CASE \E h \in Hosts : DeleteHost(h)
        BY <2>1 DEF DeleteHost
    <2>2. CASE Shutdown \/ Exit
        BY <1>1, <2>2 DEF Shutdown, Exit, Counters
    <2>3. CASE Boot
        BY <2>3 DEF Boot
    <2>4. QED
        BY <1>5, <2>1, <2>2, <2>3
<1>6. used'.faults = used.faults
    <2>1. ASSUME NEW j \in Jobs, Create(j) \/ Cancel(j) \/ Retry(j) \/ Run(j) \/ RunEscape(j)
          PROVE  used'.faults = used.faults
        BY <1>2, <1>3, <1>4, <2>1
    <2>2. QED
        BY <1>2, <1>5, <2>1 DEF Next
<1>7. QED
    BY <1>2, <1>6

\* "Nothing else can leave one there": as long as no database call fails
\* outside the runner's `try`, a RUNNING row of a live process has a run
\* behind it, a place in line, or a cancel about to overwrite it.
THEOREM RunningRowAlways == Spec => []RunningRowHasRun
<1> DEFINE Inv == used.faults = 0 => RowInv
<1>1. Init => Inv
    BY DEF Init, RowInv, RowsOwned
<1>2. QueueInv /\ Inv /\ [Next]_vars => Inv'
    <2> SUFFICES ASSUME QueueInv, Inv, [Next]_vars, used'.faults = 0 PROVE RowInv'
        OBVIOUS
    <2>1. CASE UNCHANGED vars
        BY <2>1 DEF RowInv, RowsOwned, Waiting, vars, db, pool, http, proc
    <2>2. CASE Next
        <3>1. RowInv /\ ~BootUnreclaimed /\ \A j \in Jobs : ~RunEscape(j)
            BY <2>2, FaultsOnlyGrow DEF QueueInv
        <3>2. QED
            BY <2>2, <3>1, RowRequests, RowRun, RowProcess DEF Next
    <2>3. QED
        BY <2>1, <2>2
<1>3. Inv => RunningRowHasRun
    BY DEF RowInv, RunningRowHasRun
<1> HIDE DEF Inv
<1>4. QED
    BY <1>1, <1>2, <1>3, QueueInvariant, PTL DEF Spec

-----------------------------------------------------------------------------
(* DONE rows.                                                              *)

\* A step that fails no item, writes no row DONE and takes no run past its
\* mark keeps DoneInv; it may start runs and end them.
LEMMA DoneQuiet ==
    ASSUME TypeOK, DoneInv,
           \A k \in Jobs : row'[k] = "DONE" => row[k] = "DONE",
           \A k \in Jobs, i \in Items : item'[k][i] = "FAILED" => item[k][i] = "FAILED",
           \A k \in Jobs : run'[k] \in {"exec", "item", "count", "write"} =>
                             run[k] \in {"exec", "item", "count", "write"},
           \A k \in Jobs : run'[k] = "write" =>
                             run[k] = "write" /\ (outcome'[k] = "DONE" => outcome[k] = "DONE")
    PROVE  DoneInv'
<1>1. DoneHasNoFailure'
    BY DEF DoneInv, DoneHasNoFailure
<1>2. QED
    BY <1>1 DEF DoneInv

\* The requests: a retry only takes failures back, and nobody but a run writes
\* DONE.
LEMMA DoneRequests ==
    ASSUME QueueInv, DoneInv, NEW j \in Jobs, Create(j) \/ Cancel(j) \/ Retry(j)
    PROVE  DoneInv'
<1>1. /\ row \in [Jobs -> RowStatus] /\ item \in [Jobs -> [Items -> ItemStatus]]
      /\ UNCHANGED outcome
    BY DEF QueueInv, TypeOK, Create, CreateRow, CreateItems, CreateEnqueue, Cancel, CancelRead, CancelAct,
           CancelWrite, Retry, RetryRead, RetryItems, RetryRow, RetryEnqueue, work
<1>2. /\ \A k \in Jobs : row'[k] = "DONE" => row[k] = "DONE"
      /\ \A k \in Jobs, i \in Items : item'[k][i] = "FAILED" => item[k][i] = "FAILED"
    <2>1. CASE CreateRow(j) \/ CancelWrite(j) \/ RetryRow(j)
        BY <1>1, <2>1 DEF CreateRow, CancelWrite, RetryRow
    <2>2. CASE CreateItems(j)
        BY <1>1, <2>2 DEF CreateItems
    <2>3. CASE RetryItems(j)
        BY <1>1, <2>3 DEF RetryItems
    <2>4. CASE CreateEnqueue(j) \/ CancelRead(j) \/ CancelAct(j) \/ RetryRead(j) \/ RetryEnqueue(j)
        BY <1>1, <2>4 DEF CreateEnqueue, CancelRead, CancelAct, RetryRead, RetryEnqueue, db
    <2>5. QED
        BY <2>1, <2>2, <2>3, <2>4 DEF Create, Cancel, Retry
<1>3. \A k \in Jobs : run'[k] \notin {"load", "off"} => run'[k] = run[k]
    <2>1. CASE CreateEnqueue(j) \/ RetryEnqueue(j)
        <3>1. PICK hs \in SUBSET Hosts : Enqueue(j, hs)
            <4>1. HostsOf[j] \in SUBSET Hosts /\ asked[j] \in SUBSET Hosts
                BY QueueAssumption DEF QueueInv, TypeOK
            <4>2. QED
                BY <2>1, <4>1 DEF CreateEnqueue, RetryEnqueue
        <3>2. up /\ UNCHANGED proc
            BY <2>1 DEF CreateEnqueue, RetryEnqueue
        <3>3. QED
            BY <3>1, <3>2, PoolEnqueue
    <2>2. CASE ~(CreateEnqueue(j) \/ RetryEnqueue(j))
        <3>1. UNCHANGED run
            BY <2>2 DEF Create, CreateRow, CreateItems, Cancel, CancelRead, CancelAct, CancelWrite,
                        Retry, RetryRead, RetryItems, RetryRow, pool
        <3>2. QED
            BY <3>1
    <2>3. QED
        BY <2>1, <2>2
<1>4. TypeOK
    BY DEF QueueInv
<1>5. QED
    BY <1>1, <1>2, <1>3, <1>4, DoneQuiet

\* The runs: items fail while the row is not DONE, and what is written DONE was
\* counted.
LEMMA DoneRun ==
    ASSUME QueueInv, DoneInv, NEW j \in Jobs, Run(j) \/ RunEscape(j)
    PROVE  DoneInv'
<1> USE DEF Step
<1>1. /\ TypeOK /\ row \in [Jobs -> RowStatus] /\ item \in [Jobs -> [Items -> ItemStatus]]
      /\ run \in [Jobs -> RunPlace] /\ outcome \in [Jobs -> Terminal \cup {"none"}]
    BY DEF QueueInv, TypeOK
<1>2. CASE RunLoad(j) \/ RunFail(j) \/ RunNext(j) \/ RunEscape(j)
    <2>1. UNCHANGED <<item, outcome>>
        BY <1>2 DEF RunLoad, RunFail, RunNext, RunEscape, db, work
    <2>2. \A k \in Jobs : row'[k] = "DONE" => row[k] = "DONE"
        BY <1>1, <1>2 DEF RunLoad, RunFail, RunNext, RunEscape, db
    <2>3. /\ \A k \in Jobs : run'[k] \in {"exec", "item", "count", "write"} =>
                                run[k] \in {"exec", "item", "count", "write"}
          /\ \A k \in Jobs : run'[k] = "write" => run[k] = "write"
        BY <1>1, <1>2 DEF RunLoad, RunFail, RunNext, RunEscape
    <2>4. QED
        BY <1>1, <2>1, <2>2, <2>3, DoneQuiet
<1>3. CASE RunMark(j)
    <2>1. /\ UNCHANGED <<item, outcome>> /\ row'[j] = "RUNNING" /\ run'[j] = "exec"
          /\ \A k \in Jobs : k # j => row'[k] = row[k] /\ run'[k] = run[k]
        BY <1>1, <1>3 DEF RunMark, work
    <2>2. QED
        BY <2>1 DEF DoneInv, DoneHasNoFailure
<1>4. CASE RunSettle(j) \/ RunUnverified(j)
    <2>1. /\ UNCHANGED <<row, outcome>> /\ run[j] \in {"exec", "item"} /\ run'[j] = "exec"
          /\ \A k \in Jobs : k # j => item'[k] = item[k] /\ run'[k] = run[k]
        BY <1>1, <1>4 DEF RunSettle, RunUnverified, pool, work
    <2>2. QED
        BY <2>1 DEF DoneInv, DoneHasNoFailure
<1>5. CASE RunReturn(j) \/ RunThrow(j)
    <2>1. /\ UNCHANGED <<row, item>> /\ run[j] \in {"exec", "item"} /\ run'[j] \in {"count", "leave"}
          /\ \A k \in Jobs : k # j => outcome'[k] = outcome[k] /\ run'[k] = run[k]
        BY <1>1, <1>5 DEF RunReturn, RunThrow, db
    <2>2. QED
        BY <2>1 DEF DoneInv, DoneHasNoFailure
<1>6. CASE RunCount(j)
    <2>1. /\ UNCHANGED <<row, item>> /\ run[j] = "count" /\ run'[j] = "write"
          /\ \A k \in Jobs : k # j => outcome'[k] = outcome[k] /\ run'[k] = run[k]
          /\ outcome'[j] = "DONE" => \A i \in Items : item[j][i] # "FAILED"
        BY <1>1, <1>6 DEF RunCount, db
    <2>2. QED
        BY <2>1 DEF DoneInv, DoneHasNoFailure
<1>7. CASE RunWrite(j)
    <2>1. /\ UNCHANGED <<item, outcome>> /\ run[j] = "write" /\ run'[j] = "leave"
          /\ row'[j] = outcome[j]
          /\ \A k \in Jobs : k # j => row'[k] = row[k] /\ run'[k] = run[k]
        BY <1>1, <1>7 DEF RunWrite, work
    <2>2. QED
        BY <2>1 DEF DoneInv, DoneHasNoFailure
<1>8. CASE RunLeave(j)
    <2>1. /\ Pump(line, running \ {j}, held) /\ UNCHANGED <<row, item>>
          /\ \A k \in Jobs : k # j => outcome'[k] = outcome[k]
          /\ run[j] = "leave"
        BY <1>1, <1>8 DEF RunLeave, db
    <2>2. \A k \in Jobs : run'[k] \notin {"load", "off"} => run'[k] = run[k] /\ k # j
        BY <1>1, <2>1 DEF Pump
    <2>3. QED
        BY <1>1, <2>1, <2>2, DoneQuiet
<1>9. QED
    BY <1>2, <1>3, <1>4, <1>5, <1>6, <1>7, <1>8 DEF Run

\* A DONE row never stands over an item that failed, whatever was cancelled,
\* retried, reclaimed or lost in a crash on the way, and whichever database
\* calls failed.
THEOREM DoneAlways == Spec => []DoneHasNoFailure
<1>1. Init => DoneInv
    BY DEF Init, DoneInv, DoneHasNoFailure
<1>2. QueueInv /\ DoneInv /\ [Next]_vars => DoneInv'
    <2> SUFFICES ASSUME QueueInv, DoneInv, [Next]_vars PROVE DoneInv'
        OBVIOUS
    <2>1. TypeOK
        BY DEF QueueInv
    <2>2. CASE UNCHANGED vars \/ (\E h \in Hosts : DeleteHost(h)) \/ Shutdown \/ BootUnreclaimed
        <3>1. UNCHANGED <<row, item, outcome, run>>
            BY <2>2 DEF vars, db, pool, work, DeleteHost, Shutdown, BootUnreclaimed
        <3>2. QED
            BY <2>1, <3>1, DoneQuiet
    <2>3. CASE Exit \/ Boot
        <3>1. UNCHANGED <<row, item>> /\ \A k \in Jobs : run'[k] \in {"off", "load"}
            BY <2>3 DEF Exit, Boot, Pump, db
        <3>2. QED
            BY <2>1, <3>1, DoneQuiet
    <2>4. QED
        BY <2>2, <2>3, DoneRequests, DoneRun DEF Next
<1>3. DoneInv => DoneHasNoFailure
    BY DEF DoneInv
<1>4. QED
    BY <1>1, <1>2, <1>3, QueueInvariant, PTL DEF Spec

-----------------------------------------------------------------------------
(* What ended.                                                             *)

\* What a run loaded and has not settled is not settled.
TodoOpen == \A j \in Jobs \ Moves : \A i \in todo[j] : item[j][i] \notin Settled

\* A job that is being created, is in line or has a run that may still write
\* its row has not ended; it is put in line when it has been created.
Ended == {"DONE", "FAILED"}
Unended(j) ==
    /\ create[j] \in {"items", "enqueue"} \/ j \in Waiting \/ run[j] \notin {"off", "leave"}
         => row[j] \notin Ended
    /\ j \in Waiting \/ run[j] # "off" => create[j] = "done"
OnceInv ==
    /\ ~up => \A j \in Jobs : create[j] \in {"new", "done"}
    /\ used.retries = 0 => \A j \in Jobs : retry[j] = "idle" /\ Unended(j)

\* Only a request spends a retry.
LEMMA RetriesSpent ==
    ASSUME TypeOK, Next, \A j \in Jobs : ~RetryRead(j)
    PROVE  used'.retries = used.retries
<1>1. used \in [Counters -> Nat]
    BY DEF TypeOK
<1>2. ASSUME NEW j \in Jobs, Create(j) \/ Cancel(j) \/ Retry(j)
      PROVE  used'.retries = used.retries
    BY <1>1, <1>2 DEF Create, CreateRow, CreateItems, CreateEnqueue, Cancel, CancelRead, CancelAct,
              CancelWrite, Retry, RetryItems, RetryRow, RetryEnqueue, Counters
<1>3. ASSUME NEW j \in Jobs, Run(j) \/ RunEscape(j)
      PROVE  used'.retries = used.retries
    BY <1>1, <1>3 DEF Run, RunLoad, RunFail, RunMark, RunNext, RunSettle, RunUnverified, RunReturn,
              RunThrow, RunCount, RunWrite, RunLeave, RunEscape, Counters
<1>4. ASSUME (\E h \in Hosts : DeleteHost(h)) \/ Shutdown \/ Exit \/ Boot \/ BootUnreclaimed
      PROVE  used'.retries = used.retries
    <2>1. CASE (\E h \in Hosts : DeleteHost(h)) \/ Boot
        BY <2>1 DEF DeleteHost, Boot
    <2>2. CASE Shutdown \/ Exit \/ BootUnreclaimed
        BY <1>1, <2>2 DEF Shutdown, Exit, BootUnreclaimed, Counters
    <2>3. QED
        BY <1>4, <2>1, <2>2
<1>5. QED
    BY <1>2, <1>3, <1>4 DEF Next

\* What a copy settled, its runs leave alone.
LEMMA ItemsStay ==
    ASSUME QueueInv, TodoOpen, [Next]_vars
    PROVE  /\ TodoOpen'
           /\ \A j \in Jobs \ Moves, i \in Items : item[j][i] \in Settled => item'[j][i] = item[j][i]
<1> DEFINE Stays == \A j \in Jobs \ Moves, i \in Items : item[j][i] \in Settled => item'[j][i] = item[j][i]
<1>1. item \in [Jobs -> [Items -> ItemStatus]] /\ todo \in [Jobs -> SUBSET Items]
    BY DEF QueueInv, TypeOK
<1>2. ASSUME UNCHANGED <<item, todo>> PROVE TodoOpen' /\ Stays
    BY <1>2 DEF TodoOpen
<1>3. ASSUME UNCHANGED item, NEW j \in Jobs, todo' = [todo EXCEPT ![j] = {}] PROVE TodoOpen' /\ Stays
    BY <1>1, <1>3 DEF TodoOpen
<1>4. ASSUME NEW j \in Jobs, CreateItems(j) \/ RetryItems(j) PROVE TodoOpen' /\ Stays
    <2>1. UNCHANGED todo /\ item' \in [Jobs -> [Items -> ItemStatus]]
        BY <1>1, <1>4 DEF CreateItems, RetryItems, work, ItemStatus
    <2>2. \A k \in Jobs, i \in Items :
             item'[k][i] = item[k][i] \/ (item[k][i] \in {"absent", "FAILED"} /\ item'[k][i] = "PENDING")
        BY <1>1, <1>4 DEF CreateItems, RetryItems
    <2>3. QED
        BY <1>1, <2>1, <2>2 DEF TodoOpen, Settled
<1>5. ASSUME NEW j \in Jobs, RunSettle(j) PROVE TodoOpen' /\ Stays
    <2>1. PICK i \in todo[j], s \in {"DONE", "SKIPPED", "FAILED"} :
             item' = [item EXCEPT ![j][i] = s] /\ todo' = [todo EXCEPT ![j] = @ \ {i}]
        BY <1>5 DEF RunSettle
    <2>2. QED
        BY <1>1, <2>1 DEF TodoOpen
<1>6. ASSUME NEW j \in Jobs, RunUnverified(j) PROVE TodoOpen' /\ Stays
    <2>1. UNCHANGED todo /\ \A k \in Jobs \ Moves : item'[k] = item[k]
        BY <1>1, <1>6 DEF RunUnverified, work
    <2>2. QED
        BY <2>1 DEF TodoOpen
<1>7. ASSUME NEW j \in Jobs, RunLoad(j) PROVE TodoOpen' /\ Stays
    <2>1. UNCHANGED item /\ (UNCHANGED todo
             \/ todo' = [todo EXCEPT ![j] = {i \in Items : item[j][i] \notin Settled \cup {"absent"}}])
        BY <1>7 DEF RunLoad, db
    <2>2. QED
        BY <1>1, <2>1 DEF TodoOpen
<1>8. ASSUME NEW j \in Jobs, Create(j) \/ Cancel(j) \/ Retry(j) PROVE TodoOpen' /\ Stays
    <2>1. CreateItems(j) \/ RetryItems(j) \/ UNCHANGED <<item, todo>>
        BY <1>8 DEF Create, CreateRow, CreateEnqueue, Cancel, CancelRead, CancelAct, CancelWrite,
                    Retry, RetryRead, RetryRow, RetryEnqueue, db, work
    <2>2. QED
        BY <1>2, <1>4, <2>1
<1>9. ASSUME NEW j \in Jobs, Run(j) \/ RunEscape(j) PROVE TodoOpen' /\ Stays
    <2>1. \/ RunSettle(j) \/ RunUnverified(j) \/ RunLoad(j) \/ UNCHANGED <<item, todo>>
          \/ UNCHANGED item /\ todo' = [todo EXCEPT ![j] = {}]
        BY <1>9 DEF Run, RunFail, RunMark, RunNext, RunReturn, RunThrow, RunCount, RunWrite, RunLeave,
                    RunEscape, db, work
    <2>2. QED
        BY <1>2, <1>3, <1>5, <1>6, <1>7, <2>1
<1>10. ASSUME (\E h \in Hosts : DeleteHost(h)) \/ Shutdown \/ Boot \/ BootUnreclaimed \/ UNCHANGED vars
       PROVE  TodoOpen' /\ Stays
    <2>1. UNCHANGED <<item, todo>>
        BY <1>10 DEF DeleteHost, Shutdown, Boot, BootUnreclaimed, vars, db, work
    <2>2. QED
        BY <1>2, <2>1
<1>11. ASSUME Exit PROVE TodoOpen' /\ Stays
    BY <1>11 DEF Exit, TodoOpen, db
<1>12. QED
    BY <1>8, <1>9, <1>10, <1>11 DEF Next

\* A step after which no more jobs are in line or have a run, and no more of
\* those have ended.
LEMMA OnceQuiet ==
    ASSUME \A k \in Jobs : Unended(k), UNCHANGED create,
           \A k \in Jobs : k \in Waiting' => k \in Waiting,
           \A k \in Jobs : run'[k] \notin {"off", "leave"} => k \in Waiting \/ run[k] \notin {"off", "leave"},
           \A k \in Jobs : run'[k] # "off" => k \in Waiting \/ run[k] # "off",
           \A k \in Jobs : row'[k] \in Ended => row[k] \in Ended
    PROVE  \A k \in Jobs : Unended(k)'
BY DEF Unended

\* A pump gives runs to jobs in line, and leaves the runs there are alone.
LEMMA PumpRuns ==
    ASSUME NEW ln \in [Jobs -> Nat], NEW busy, NEW hs, Pump(ln, busy, hs), \A k \in busy : ln[k] = 0, NEW k \in Jobs
    PROVE  /\ k \in busy => run'[k] = run[k]
           /\ k \notin busy => run'[k] = "off" \/ (run'[k] = "load" /\ ln[k] > 0)
           /\ k \in Waiting' => ln[k] > 0
<1>1. PICK S \in IF stopping THEN {{}} ELSE Scans(ln, busy, hs) :
         /\ line' = Without(ln, S)
         /\ run'  = [j \in Jobs |-> IF j \in S THEN "load" ELSE IF j \in busy THEN run[j] ELSE "off"]
    BY DEF Pump
<1>2. \A j \in S : ln[j] > 0
    BY <1>1 DEF Scans
<1>3. k \in S => k \notin busy
    BY <1>2
<1>4. ln[k] = 0 => line'[k] = 0
    BY <1>1 DEF Without
<1>5. QED
    BY <1>1, <1>2, <1>3, <1>4 DEF Waiting

LEMMA EnqueueRuns ==
    ASSUME QueueInv, NEW j \in Jobs, NEW hs, Enqueue(j, hs), NEW k \in Jobs
    PROVE  /\ k \in Waiting' => k \in Waiting \/ k = j
           /\ run'[k] # run[k] => k \in Waiting \/ k = j
<1>1. CASE stopping \/ j \in running \/ j \in Waiting
    BY <1>1 DEF Enqueue, pool, Waiting
<1>2. CASE ~(stopping \/ j \in running \/ j \in Waiting)
    <2> DEFINE ln == [line EXCEPT ![j] = Cardinality(Waiting) + 1]
    <2>1. Pump(ln, running, [held EXCEPT ![j] = hs])
        BY <1>2 DEF Enqueue
    <2>2. line \in [Jobs -> Nat] /\ Waiting \in SUBSET Jobs /\ \A i \in running : line[i] = 0
        BY JobSets, QueueIsLine DEF QueueInv, TypeOK
    <2>3. ln \in [Jobs -> Nat] /\ \A i \in running : ln[i] = 0
        BY <1>2, <2>2, JobSets DEF QueueInv, TypeOK
    <2>4. /\ k # j => ln[k] = line[k]
          /\ k \notin running => run[k] = "off"
        BY <2>2 DEF QueueInv, TypeOK
    <2> HIDE DEF ln
    <2>5. /\ k \in running => run'[k] = run[k]
          /\ k \notin running => run'[k] = "off" \/ (run'[k] = "load" /\ ln[k] > 0)
          /\ k \in Waiting' => ln[k] > 0
        BY <2>1, <2>3, PumpRuns
    <2>6. QED
        BY <2>4, <2>5 DEF Waiting
<1>3. QED
    BY <1>1, <1>2

\* The requests of a job nobody retried: a job goes in line when it is created,
\* and only a cancel that read its row before writes it afterwards.
LEMMA OnceRequests ==
    ASSUME QueueInv, OnceInv, used.retries = 0, NEW j \in Jobs, Create(j) \/ Cancel(j)
    PROVE  /\ \A k \in Jobs : Unended(k)'
           /\ \A k \in Jobs : row[k] \in Ended /\ row'[k] # row[k] => cancel[k] = "write" /\ row'[k] = "CANCELLED"
<1>1. /\ \A k \in Jobs : Unended(k)
      /\ row \in [Jobs -> RowStatus] /\ create \in [Jobs -> {"new", "items", "enqueue", "done"}]
      /\ \A k \in Jobs : run[k] # "off" <=> k \in running
    BY DEF QueueInv, TypeOK, OnceInv
<1>2. CASE CreateRow(j)
    <2>1. row[j] = "absent" /\ j \notin Waiting /\ run[j] = "off"
        BY <1>1, <1>2 DEF QueueInv, AbsentIsNowhere, CreateRow
    <2>2. UNCHANGED pool /\ row' = [row EXCEPT ![j] = "QUEUED"] /\ create' = [create EXCEPT ![j] = "items"]
        BY <1>2 DEF CreateRow
    <2>3. QED
        BY <1>1, <2>1, <2>2 DEF Unended, Ended, Waiting, pool
<1>3. CASE CreateItems(j)
    <2>1. /\ UNCHANGED <<pool, row>> /\ create[j] = "items" /\ create'[j] \in {"items", "enqueue"}
          /\ \A k \in Jobs : k # j => create'[k] = create[k]
        BY <1>1, <1>3 DEF CreateItems
    <2>2. QED
        BY <1>1, <2>1 DEF Unended, Waiting, pool
<1>4. CASE CreateEnqueue(j)
    <2>1. /\ UNCHANGED row /\ create[j] = "enqueue" /\ create' = [create EXCEPT ![j] = "done"]
          /\ Enqueue(j, HostsOf[j])
        BY <1>4 DEF CreateEnqueue, db
    <2>2. \A k \in Jobs : /\ k \in Waiting' => k \in Waiting \/ k = j
                          /\ run'[k] # run[k] => k \in Waiting \/ k = j
        BY <2>1, EnqueueRuns
    <2>3. QED
        BY <1>1, <2>1, <2>2 DEF Unended
<1>5. CASE CancelRead(j) \/ CancelWrite(j)
    <2>1. UNCHANGED <<pool, create>> /\ (UNCHANGED row \/ (cancel[j] = "write" /\ row' = [row EXCEPT ![j] = "CANCELLED"]))
        BY <1>5 DEF CancelRead, CancelWrite, db
    <2>2. \A k \in Jobs : row'[k] = row[k] \/ (k = j /\ cancel[j] = "write" /\ row'[k] = "CANCELLED")
        BY <1>1, <2>1
    <2>3. QED
        BY <1>1, <2>1, <2>2, OnceQuiet DEF Waiting, pool, Ended
<1>6. CASE CancelAct(j)
    <2>1. UNCHANGED <<row, run, create>> /\ (UNCHANGED line \/ line' = Without(line, {j}))
        BY <1>6 DEF CancelAct, db
    <2>2. line \in [Jobs -> Nat]
        BY JobSets DEF QueueInv, TypeOK
    <2>3. \A k \in Jobs : line[k] = 0 => line'[k] = 0
        BY <2>1 DEF Without
    <2>4. \A k \in Jobs : k \in Waiting' => k \in Waiting
        BY <2>2, <2>3 DEF Waiting
    <2>5. QED
        BY <1>1, <2>1, <2>4, OnceQuiet
<1>7. QED
    BY <1>2, <1>3, <1>4, <1>5, <1>6 DEF Create, Cancel

\* Its runs: one that writes an end writes it over a row that had none.
LEMMA OnceRuns ==
    ASSUME QueueInv, OnceInv, used.retries = 0, NEW j \in Jobs, Run(j) \/ RunEscape(j)
    PROVE  /\ \A k \in Jobs : Unended(k)'
           /\ \A k \in Jobs : row[k] \in Ended => row'[k] = row[k]
<1>1. /\ \A k \in Jobs : Unended(k)
      /\ row \in [Jobs -> RowStatus] /\ run \in [Jobs -> RunPlace]
      /\ \A k \in Jobs : run[k] # "off" <=> k \in running
      /\ \A k \in running : line[k] = 0 /\ k \notin Waiting
      /\ line \in [Jobs -> Nat]
    BY QueueIsLine, JobSets DEF QueueInv, TypeOK, OnceInv, Waiting
<1>2. UNCHANGED create
    BY DEF Run, RunLoad, RunFail, RunMark, RunNext, RunSettle, RunUnverified, RunReturn, RunThrow, RunCount,
           RunWrite, RunLeave, RunEscape, http
<1>3. CASE RunFail(j) \/ RunMark(j) \/ RunWrite(j)
    <2>1. PICK r \in RowStatus : row' = [row EXCEPT ![j] = r] /\ (r \in Ended => Step(j, "leave"))
        <3>1. RunWrite(j) => outcome[j] \in Terminal
            BY DEF QueueInv, OutcomeKnown, RunWrite
        <3>2. QED
            BY <1>3, <3>1 DEF RunFail, RunMark, RunWrite, RowStatus, Terminal, Ended
    <2>2. run[j] \notin {"off", "leave"} /\ UNCHANGED line
          /\ \E to \in {"leave", "exec"} : run' = [run EXCEPT ![j] = to] /\ (r \in Ended => to = "leave")
        BY <1>3, <2>1 DEF RunFail, RunMark, RunWrite, Step
    <2>3. row[j] \notin Ended /\ j \notin Waiting /\ create[j] = "done"
        BY <1>1, <2>2 DEF Unended
    <2>4. QED
        BY <1>1, <1>2, <2>1, <2>2, <2>3 DEF Unended, Waiting
<1>4. CASE RunLeave(j)
    <2>1. Pump(line, running \ {j}, held) /\ UNCHANGED row
        BY <1>4 DEF RunLeave, db
    <2>2. \A k \in Jobs : /\ k \in running \ {j} => run'[k] = run[k]
                          /\ k \notin running \ {j} => run'[k] = "off" \/ (run'[k] = "load" /\ line[k] > 0)
                          /\ k \in Waiting' => line[k] > 0
        BY <1>1, <2>1, PumpRuns
    <2>3. QED
        BY <1>1, <1>2, <2>1, <2>2, OnceQuiet DEF Waiting
<1>5. CASE ~(RunFail(j) \/ RunMark(j) \/ RunWrite(j) \/ RunLeave(j))
    <2>1. UNCHANGED <<row, line>>
          /\ (UNCHANGED run \/ \E to \in RunPlace : run[j] \notin {"off", "leave"} /\ run' = [run EXCEPT ![j] = to])
        BY <1>5 DEF Run, RunLoad, RunNext, RunSettle, RunUnverified, RunReturn, RunThrow, RunCount, RunEscape,
                    Step, db, pool, RunPlace
    <2>2. \A k \in Jobs : run'[k] = run[k] \/ run[k] \notin {"off", "leave"}
        BY <1>1, <2>1
    <2>3. QED
        BY <1>1, <1>2, <2>1, <2>2, OnceQuiet DEF Waiting
<1>6. QED
    BY <1>3, <1>4, <1>5

\* The process: a restart reclaims only what was not over.
LEMMA OnceProcess ==
    ASSUME QueueInv, OnceInv, used.retries = 0,
           (\E h \in Hosts : DeleteHost(h)) \/ Shutdown \/ Exit \/ Boot \/ BootUnreclaimed
    PROVE  (\A k \in Jobs : Unended(k)') /\ UNCHANGED row
<1>1. /\ \A k \in Jobs : Unended(k)
      /\ create \in [Jobs -> {"new", "items", "enqueue", "done"}]
      /\ \A k \in Jobs : row[k] = "absent" <=> create[k] = "new"
    BY DEF QueueInv, TypeOK, OnceInv, AbsentIsNowhere
<1>2. CASE (\E h \in Hosts : DeleteHost(h)) \/ BootUnreclaimed \/ Shutdown
    <2>1. UNCHANGED <<row, run, create>> /\ (UNCHANGED line \/ \A k \in Jobs : line'[k] = 0)
        BY <1>2 DEF DeleteHost, BootUnreclaimed, Shutdown, db, pool, http
    <2>2. \A k \in Jobs : k \in Waiting' => k \in Waiting
        BY <2>1 DEF Waiting
    <2>3. QED
        BY <1>1, <2>1, <2>2, OnceQuiet
<1>3. CASE Exit
    BY <1>3 DEF Exit, db, Unended, Waiting
<1>4. CASE Boot
    <2> DEFINE stranded == {j \in Jobs : row[j] \in {"QUEUED", "RUNNING"}}
               ln == [j \in Jobs |-> IF j \notin stranded THEN 0
                                     ELSE Cardinality({k \in stranded : born[k] <= born[j]})]
    <2>1. ~up /\ UNCHANGED <<row, create>> /\ Pump(ln, {}, [j \in Jobs |-> HostsOf[j] \ gone])
        BY <1>4 DEF Boot, db, http
    <2>2. stranded \in SUBSET Jobs /\ \A j \in stranded : row[j] \notin {"absent", "DONE", "FAILED"}
        OBVIOUS
    <2> HIDE DEF stranded
    <2>3. ln \in [Jobs -> Nat] /\ \A k \in Jobs : ln[k] > 0 => k \in stranded
        <3>1. IsLine(ln) /\ \A j \in Jobs : ln[j] > 0 <=> j \in stranded
            BY <2>2, ReclaimIsLine DEF QueueInv
        <3>2. QED
            BY <3>1, JobSets DEF IsLine
    <2> HIDE DEF ln
    <2>4. \A k \in Jobs : k \in Waiting' \/ run'[k] # "off" => k \in stranded
        BY <2>1, <2>3, PumpRuns
    <2>5. \A k \in Jobs : create[k] \in {"new", "done"}
        BY <2>1 DEF OnceInv
    <2>6. QED
        BY <1>1, <2>1, <2>2, <2>4, <2>5 DEF Unended, Ended
<1>5. QED
    BY <1>2, <1>3, <1>4

\* Nothing of a job is created while the process is down.
LEMMA DownCreates ==
    ASSUME QueueInv, OnceInv, [Next]_vars, ~up'
    PROVE  \A j \in Jobs : create'[j] \in {"new", "done"}
<1>1. CASE Exit
    BY <1>1 DEF QueueInv, TypeOK, Exit
<1>2. CASE ~Exit
    <2>1. ASSUME NEW j \in Jobs, Create(j) \/ Cancel(j) \/ Retry(j)
          PROVE  FALSE
        BY <2>1 DEF Create, CreateRow, CreateItems, CreateEnqueue, Cancel, CancelRead, CancelAct, CancelWrite,
                    Retry, RetryRead, RetryItems, RetryRow, RetryEnqueue, proc
    <2>2. ASSUME NEW j \in Jobs, Run(j) \/ RunEscape(j)
          PROVE  UNCHANGED <<http, proc>>
        BY <2>2 DEF Run, RunLoad, RunFail, RunMark, RunNext, RunSettle, RunUnverified, RunReturn, RunThrow,
                    RunCount, RunWrite, RunLeave, RunEscape
    <2>3. ~(Boot \/ BootUnreclaimed \/ Shutdown \/ \E h \in Hosts : DeleteHost(h))
        BY DEF Boot, BootUnreclaimed, Shutdown, DeleteHost, proc
    <2>4. UNCHANGED <<http, proc>>
        BY <1>2, <2>1, <2>2, <2>3 DEF Next, vars
    <2>5. QED
        BY <2>4 DEF OnceInv, http, proc
<1>3. QED
    BY <1>1, <1>2

LEMMA OnceStep ==
    ASSUME QueueInv, OnceInv, [Next]_vars
    PROVE  /\ OnceInv'
           /\ used.retries = 0 => \A j \in Jobs : row[j] \in Ended /\ row'[j] # row[j] =>
                                     cancel[j] = "write" /\ row'[j] = "CANCELLED"
<1> DEFINE Over == \A j \in Jobs : row[j] \in Ended /\ row'[j] # row[j] =>
                                     cancel[j] = "write" /\ row'[j] = "CANCELLED"
<1>1. CASE UNCHANGED vars
    BY <1>1 DEF vars, db, pool, http, proc, OnceInv, Unended, Waiting
<1>2. CASE Next /\ \A j \in Jobs : ~RetryRead(j)
    <2>1. used'.retries = used.retries
        BY <1>2, RetriesSpent DEF QueueInv
    <2>2. ASSUME used.retries = 0
          PROVE  (\A j \in Jobs : retry'[j] = "idle" /\ Unended(j)') /\ Over
        <3>1. retry \in [Jobs -> {"idle", "items", "row", "enqueue"}] /\ \A j \in Jobs : retry[j] = "idle"
            BY <2>2 DEF OnceInv, QueueInv, TypeOK
        <3>2. \A j \in Jobs : ~Retry(j)
            BY <1>2, <3>1 DEF Retry, RetryItems, RetryRow, RetryEnqueue
        <3>3. \A j \in Jobs : retry'[j] = "idle"
            BY <1>2, <3>1, <3>2 DEF Next, Create, CreateRow, CreateItems, CreateEnqueue, Cancel, CancelRead, CancelAct,
                    CancelWrite, Run, RunLoad, RunFail, RunMark, RunNext,
                    RunSettle, RunUnverified, RunReturn, RunThrow, RunCount, RunWrite, RunLeave, RunEscape,
                    DeleteHost, Shutdown, Exit, Boot, BootUnreclaimed, http
        <3>4. (\A j \in Jobs : Unended(j)') /\ Over
            BY <1>2, <2>2, <3>2, OnceRequests, OnceRuns, OnceProcess DEF Next
        <3>5. QED
            BY <3>3, <3>4
    <2>3. QED
        BY <1>2, <2>1, <2>2, DownCreates DEF OnceInv
<1>3. CASE \E j \in Jobs : RetryRead(j)
    <2>1. UNCHANGED row /\ used'.retries # 0
        <3>1. used \in [Counters -> Nat]
            BY DEF QueueInv, TypeOK
        <3>2. QED
            BY <1>3, <3>1 DEF RetryRead, db, Counters
    <2>2. QED
        BY <2>1, DownCreates DEF OnceInv
<1>4. QED
    BY <1>1, <1>2, <1>3

\* retry() and the reclaim: what a copy settled is not run again, and what the
\* run of a job nobody retries ended with is written over only by a cancel that
\* had read the row before, through any restarts and failing database calls.
THEOREM EndedAlwaysStays == Spec => EndedStays
<1> DEFINE Stays == \A j \in Jobs :
        /\ j \notin Moves => \A i \in Items : item[j][i] \in Settled => item'[j][i] = item[j][i]
        /\ used.retries = 0 /\ row[j] \in {"DONE", "FAILED"} /\ row'[j] # row[j] =>
              cancel[j] = "write" /\ row'[j] = "CANCELLED"
<1>1. Init => TodoOpen /\ OnceInv
    BY DEF Init, TodoOpen, OnceInv, Unended, Waiting
<1>2. QueueInv /\ TodoOpen /\ OnceInv /\ [Next]_vars => TodoOpen' /\ OnceInv' /\ Stays
    <2> SUFFICES ASSUME QueueInv, TodoOpen, OnceInv, [Next]_vars PROVE TodoOpen' /\ OnceInv' /\ Stays
        OBVIOUS
    <2>1. QED
        BY ItemsStay, OnceStep DEF Ended
<1>3. Stays => [Stays]_<<row, item>>
    OBVIOUS
<1> HIDE DEF Stays
<1>4. Spec => [][Stays]_<<row, item>>
    BY <1>1, <1>2, <1>3, QueueInvariant, PTL DEF Spec
<1>5. QED
    BY <1>4 DEF EndedStays, Stays

-----------------------------------------------------------------------------
(* The transfer queue implements SlotPool: every step of TransferQueue,    *)
(* whatever the constants, is a step of the abstract line or a stutter.    *)


\* A queue that is stopping has cleared its line, and nothing joins it.
StopIsEmpty == stopping => Waiting = {}

SlotsKept == UNCHANGED <<Waiting, running, held>>

\* SlotPool's Cardinality, which the instance renames, is the one used here.
LEMMA SameCardinality == ASSUME NEW S PROVE Slots!Cardinality(S) = Cardinality(S)
BY DEF Slots!Cardinality, Cardinality

\* A pump that admits: who is started, the caps after it, and that nobody who
\* still waits would fit.
LEMMA PumpAdmits ==
    ASSUME TypeOK, NEW ln, IsLine(ln), NEW busy \in SUBSET running,
           NEW hs \in [Jobs -> SUBSET Hosts], Within(busy, hs),
           \A j \in busy : ln[j] = 0,
           Pump(ln, busy, hs),
           stopping => \A j \in Jobs : ln[j] = 0
    PROVE  Slots!Admit({j \in Jobs : ln[j] > 0}, busy, hs)
<1>1. Pumped(ln, busy)
    BY PumpStep
<1>2. PICK S \in IF stopping THEN {{}} ELSE Scans(ln, busy, hs) :
        /\ line'    = Without(ln, S)
        /\ running' = busy \cup S
        /\ held'    = [j \in Jobs |-> IF j \in busy \/ ln[j] > 0 THEN hs[j] ELSE {}]
    BY DEF Pump
<1>3. S \in SUBSET {j \in Jobs : ln[j] > 0}
    BY <1>2 DEF Scans
<1>4. Waiting' = {j \in Jobs : ln[j] > 0} \ S
    <2>1. S \in SUBSET Jobs
        BY <1>3
    <2>2. \A j \in Jobs : line'[j] > 0 <=> ln[j] > 0 /\ j \notin S
        BY <1>2, <2>1, WithoutIsLine
    <2>3. QED
        BY <2>2 DEF Waiting
<1>5. held' = [j \in Jobs |-> IF j \in {k \in Jobs : ln[k] > 0} \cup busy THEN hs[j] ELSE {}]
    BY <1>2
<1>6. /\ Cardinality(running') <= MaxInFlight
      /\ \A h \in Hosts : Cardinality({j \in running' : h \in held'[j]}) <= MaxPerHost
    BY <1>1 DEF Pumped, Within
<1>7. \A j \in Waiting' : ~Slots!Room(j, running', held')
    <2>1. CASE stopping
        BY <1>4, <2>1
    <2>2. CASE ~stopping
        BY <1>1, <2>2, SameCardinality DEF Pumped, Waiting, Fits, Slots!Room
    <2>3. QED
        BY <2>1, <2>2
<1>8. QED
    BY <1>2, <1>3, <1>4, <1>5, <1>6, <1>7, SameCardinality DEF Slots!Admit

\* What a step of the queue is to SlotPool.
SlotStep == StopIsEmpty' /\ [Slots!Next]_(Slots!slotVars)

LEMMA KeptStep ==
    ASSUME StopIsEmpty, SlotsKept, stopping' => stopping
    PROVE  SlotStep
BY DEF StopIsEmpty, SlotsKept, SlotStep, Slots!slotVars

\* An enqueue is an arrival, or nothing.
LEMMA EnqueueStep ==
    ASSUME QueueInv, StopIsEmpty, NEW j \in Jobs, NEW hs \in SUBSET Hosts,
           Enqueue(j, hs), UNCHANGED stopping
    PROVE  SlotStep
<1>1. CASE stopping \/ j \in running \/ j \in Waiting
    <2>1. SlotsKept
        BY <1>1 DEF Enqueue, pool, SlotsKept, Waiting
    <2>2. QED
        BY <2>1, KeptStep
<1>2. CASE ~(stopping \/ j \in running \/ j \in Waiting)
    <2> DEFINE n == Cardinality(Waiting)
               ln == [line EXCEPT ![j] = n + 1]
               hh == [held EXCEPT ![j] = hs]
    <2>1. Pump(ln, running, hh)
        BY <1>2 DEF Enqueue
    <2>2. /\ IsLine(line) /\ Within(running, held) /\ Waiting \in SUBSET Jobs
          /\ \A k \in running : line[k] = 0
        BY QueueIsLine
    <2>3. n \in Nat /\ Cardinality(Jobs) \in Nat /\ n < Cardinality(Jobs)
        <3>1. Waiting # Jobs
            BY <1>2
        <3>2. QED
            BY <2>2, <3>1, JobSets
    <2>4. /\ line \in [Jobs -> 0 .. Cardinality(Jobs)]
          /\ \A k \in Jobs : line[k] > 0 => line[k] <= n
        BY DEF QueueInv, TypeOK, LineIsALine, Waiting
    <2> HIDE DEF n
    <2>5. IsLine(ln)
        BY <2>2, <2>3, <2>4 DEF IsLine
    <2>6. hh \in [Jobs -> SUBSET Hosts] /\ running \subseteq Jobs
        BY DEF QueueInv, TypeOK
    <2>7. Within(running, hh)
        <3>1. \A k \in running : hh[k] = held[k]
            BY <1>2 DEF QueueInv, TypeOK
        <3>2. \A h : {k \in running : h \in hh[k]} = {k \in running : h \in held[k]}
            BY <3>1
        <3>3. QED
            BY <2>2, <3>2 DEF Within
    <2>8. \A k \in running : ln[k] = 0
        BY <1>2, <2>2, <2>4 DEF QueueInv, TypeOK
    <2>9. {k \in Jobs : ln[k] > 0} = Waiting \cup {j}
        BY <2>3, <2>4 DEF Waiting
    <2> HIDE DEF ln
    <2> HIDE DEF hh
    <2>10. Slots!Admit(Waiting \cup {j}, running, hh)
        <3>1. TypeOK /\ running \in SUBSET running /\ (stopping => \A k \in Jobs : ln[k] = 0)
            BY <1>2 DEF QueueInv
        <3>2. Slots!Admit({k \in Jobs : ln[k] > 0}, running, hh)
            BY <2>1, <2>5, <2>6, <2>7, <2>8, <3>1, PumpAdmits
        <3>3. QED
            BY <2>9, <3>2
    <2> USE DEF hh
    <2>11. Slots!Arrive(j)
        BY <1>2, <2>10 DEF Slots!Arrive
    <2>12. QED
        BY <1>2, <2>11 DEF SlotStep, StopIsEmpty, Slots!Next
<1>3. QED
    BY <1>1, <1>2

\* The requests.
LEMMA RequestStep ==
    ASSUME QueueInv, StopIsEmpty, NEW j \in Jobs, Create(j) \/ Cancel(j) \/ Retry(j)
    PROVE  SlotStep
<1>1. CASE CreateEnqueue(j) \/ RetryEnqueue(j)
    <2>1. PICK hs \in SUBSET Hosts : Enqueue(j, hs)
        <3>1. HostsOf[j] \in SUBSET Hosts /\ asked[j] \in SUBSET Hosts
            BY QueueAssumption DEF QueueInv, TypeOK
        <3>2. QED
            BY <1>1, <3>1 DEF CreateEnqueue, RetryEnqueue
    <2>2. UNCHANGED stopping
        BY <1>1 DEF CreateEnqueue, RetryEnqueue, proc
    <2>3. QED
        BY <2>1, <2>2, EnqueueStep
<1>2. CASE CancelAct(j)
    <2>1. UNCHANGED <<running, stopping>>
        BY <1>2 DEF CancelAct, proc
    <2>2. CASE j \in running
        BY <1>2, <2>1, <2>2, KeptStep DEF CancelAct, SlotsKept, Waiting
    <2>3. CASE j \notin running
        <3>1. line' = Without(line, {j}) /\ held' = [held EXCEPT ![j] = {}]
            BY <1>2, <2>3 DEF CancelAct
        <3>2. \A k \in Jobs : line'[k] > 0 <=> line[k] > 0 /\ k \notin {j}
            BY <3>1, QueueIsLine, WithoutIsLine
        <3>3. Waiting' = Waiting \ {j}
            BY <3>2 DEF Waiting
        <3>4. Slots!Withdraw(j)
            BY <2>1, <2>3, <3>1, <3>3 DEF Slots!Withdraw
        <3>5. QED
            BY <2>1, <3>3, <3>4 DEF SlotStep, StopIsEmpty, Slots!Next
    <2>4. QED
        BY <2>2, <2>3
<1>3. CASE CreateRow(j) \/ CreateItems(j) \/ CancelRead(j) \/ CancelWrite(j)
           \/ RetryRead(j) \/ RetryItems(j) \/ RetryRow(j)
    <2>1. UNCHANGED <<line, running, held, stopping>>
        BY <1>3 DEF CreateRow, CreateItems, CancelRead, CancelWrite, RetryRead, RetryItems,
                    RetryRow, pool, proc
    <2>2. QED
        BY <2>1, KeptStep DEF SlotsKept, Waiting
<1>4. QED
    BY <1>1, <1>2, <1>3 DEF Create, Cancel, Retry

\* A run: only its end concerns the slots.
LEMMA RunningStep ==
    ASSUME QueueInv, StopIsEmpty, NEW j \in Jobs, Run(j) \/ RunEscape(j)
    PROVE  SlotStep
<1>1. CASE RunLeave(j)
    <2>1. run[j] = "leave" /\ Pump(line, running \ {j}, held) /\ UNCHANGED stopping
        BY <1>1 DEF RunLeave, proc
    <2>2. /\ IsLine(line) /\ Within(running, held) /\ \A k \in running : line[k] = 0
          /\ running \in SUBSET Jobs
        BY QueueIsLine
    <2>3. held \in [Jobs -> SUBSET Hosts] /\ TypeOK /\ j \in running
        BY <2>1 DEF QueueInv, TypeOK
    <2>4. Within(running \ {j}, held)
        BY <2>2, <2>3, FewerWithin
    <2>5. stopping => \A k \in Jobs : line[k] = 0
        BY <2>3 DEF StopIsEmpty, Waiting, TypeOK
    <2>6. Slots!Admit(Waiting, running \ {j}, held)
        <3>1. running \ {j} \in SUBSET running /\ \A k \in running \ {j} : line[k] = 0
            BY <2>2
        <3>2. Slots!Admit({k \in Jobs : line[k] > 0}, running \ {j}, held)
            BY <2>1, <2>2, <2>3, <2>4, <2>5, <3>1, PumpAdmits
        <3>3. QED
            BY <3>2 DEF Waiting
    <2>7. stopping' => Waiting' = {}
        BY <2>1, <2>6 DEF StopIsEmpty, Slots!Admit
    <2>8. QED
        BY <2>3, <2>6, <2>7 DEF SlotStep, StopIsEmpty, Slots!Next, Slots!Leave
<1>2. CASE RunLoad(j) \/ RunFail(j) \/ RunMark(j) \/ RunNext(j) \/ RunSettle(j)
           \/ RunUnverified(j) \/ RunReturn(j) \/ RunThrow(j) \/ RunCount(j) \/ RunWrite(j)
           \/ RunEscape(j)
    <2>1. UNCHANGED <<line, running, held, stopping>>
        BY <1>2 DEF RunLoad, RunFail, RunMark, RunNext, RunSettle, RunUnverified, RunReturn,
                    RunThrow, RunCount, RunWrite, RunEscape, Step, pool, proc
    <2>2. QED
        BY <2>1, KeptStep DEF SlotsKept, Waiting
<1>3. QED
    BY <1>1, <1>2 DEF Run

\* The process.
LEMMA ProcessStep ==
    ASSUME QueueInv, StopIsEmpty,
           (\E h \in Hosts : DeleteHost(h)) \/ Shutdown \/ Exit \/ Boot \/ BootUnreclaimed
    PROVE  SlotStep
<1>1. CASE (\E h \in Hosts : DeleteHost(h)) \/ BootUnreclaimed
    <2>1. UNCHANGED <<line, running, held, stopping>>
        BY <1>1 DEF DeleteHost, BootUnreclaimed, pool, proc
    <2>2. QED
        BY <2>1, KeptStep DEF SlotsKept, Waiting
<1>2. CASE Shutdown
    <2>1. Waiting' = {} /\ UNCHANGED running
          /\ held' = [j \in Jobs |-> IF j \in running THEN held[j] ELSE {}]
        BY <1>2 DEF Shutdown, Waiting
    <2>2. QED
        BY <2>1 DEF SlotStep, StopIsEmpty, Slots!Next, Slots!Close
<1>3. CASE Exit
    <2>1. Waiting' = {} /\ running' = {} /\ held' = [j \in Jobs |-> {}]
        BY <1>3 DEF Exit, Waiting
    <2>2. QED
        BY <2>1 DEF SlotStep, StopIsEmpty, Slots!Next, Slots!Die
<1>4. CASE Boot
    <2> DEFINE stranded == {j \in Jobs : row[j] \in {"QUEUED", "RUNNING"}}
               ln == [j \in Jobs |-> IF j \notin stranded THEN 0
                                     ELSE Cardinality({k \in stranded : born[k] <= born[j]})]
               hs == [j \in Jobs |-> HostsOf[j] \ gone]
    <2>1. /\ ~stopping /\ ~stopping' /\ Waiting = {} /\ running = {} /\ Pump(ln, {}, hs)
        BY <1>4 DEF QueueInv, DownIsEmpty, Boot
    <2>2. stranded \in SUBSET Jobs /\ \A j \in stranded : row[j] # "absent"
        OBVIOUS
    <2>3. hs \in [Jobs -> SUBSET Hosts] /\ TypeOK
        BY QueueAssumption DEF QueueInv
    <2> HIDE DEF stranded
    <2>4. IsLine(ln) /\ \A j \in Jobs : ln[j] > 0 <=> j \in stranded
        BY <2>2, ReclaimIsLine
    <2> HIDE DEF ln, hs
    <2>5. Slots!Admit({j \in Jobs : ln[j] > 0}, {}, hs)
        BY <2>1, <2>3, <2>4, EmptyWithin, PumpAdmits
    <2>6. Slots!Reclaim
        BY <2>1, <2>3, <2>5 DEF Slots!Reclaim
    <2>7. QED
        BY <2>1, <2>6 DEF SlotStep, StopIsEmpty, Slots!Next
<1>5. QED
    BY <1>1, <1>2, <1>3, <1>4

\* The queue implements SlotPool, for any jobs, hosts and caps: whatever is
\* requested, fails or restarts, it admits to the caps, keeps nobody waiting who
\* would fit, and starts nothing once it is stopping.
THEOREM QueueRefinesSlotPool == Spec => RefinesSlotPool
<1>1. Init => StopIsEmpty /\ Slots!Init
    BY DEF Init, StopIsEmpty, Waiting, Slots!Init
<1>2. QueueInv /\ StopIsEmpty /\ [Next]_vars => StopIsEmpty' /\ [Slots!Next]_(Slots!slotVars)
    <2> SUFFICES ASSUME QueueInv, StopIsEmpty, [Next]_vars PROVE SlotStep
        BY DEF SlotStep
    <2>1. CASE UNCHANGED vars
        BY <2>1, KeptStep DEF SlotsKept, Waiting, vars, pool, proc
    <2>2. CASE Next
        BY <2>2, RequestStep, RunningStep, ProcessStep DEF Next
    <2>3. QED
        BY <2>1, <2>2
<1>3. QED
    BY <1>1, <1>2, QueueInvariant, PTL DEF Spec, RefinesSlotPool, Slots!Spec
=============================================================================
