--------------------------- MODULE SshPoolProofs ---------------------------
(* Theorems about SshPool for any borrowers, slots and reservation.        *)
EXTENDS SshPool, FiniteSetTheorems, SequenceTheorems, WellFoundedInduction, TLAPS

BackgroundCeiling ==
    IF MaxConcurrency - Reserved > 1 THEN MaxConcurrency - Reserved ELSE 1

\* What the two caps rest on.  inFlight counts every lease that no foreign
\* release has taken off it, and admission keeps it within the ceiling of the
\* borrower admitted.  Neither cap is inductive without the first of these.
LeasesCounted(c) == Cardinality(Leases(c)) <= inFlight[c] + foreign[c]
SlotsBounded(c)  == conn[c] # "closed" => inFlight[c] <= MaxConcurrency
ScansBounded(c)  ==
    conn[c] # "closed" =>
        Cardinality(Leases(c) \cap Background) <= BackgroundCeiling + foreign[c]

SlotTypes ==
    /\ conn \in [Conns -> Standing]
    /\ who \in [Borrowers -> Stage]
    /\ at \in [Borrowers -> Conns \cup {None}]
    /\ inFlight \in [Conns -> Nat]
    /\ foreign \in [Conns -> Nat]

\* The map never holds a connection that has closed.
EntryLives == \A c \in Conns : entry = c => conn[c] # "closed"

SlotInv ==
    /\ SlotTypes
    /\ \A c \in Conns : LeasesCounted(c) /\ SlotsBounded(c) /\ ScansBounded(c)
-----------------------------------------------------------------------------
\* The ceilings are at least one, and no borrower's is above the cap.
LEMMA CeilingFacts ==
    /\ BackgroundCeiling \in Nat \ {0}
    /\ BackgroundCeiling <= MaxConcurrency
    /\ \A b \in Borrowers : /\ Ceiling(b) \in Nat \ {0}
                            /\ Ceiling(b) <= MaxConcurrency
                            /\ b \in Background => Ceiling(b) = BackgroundCeiling
BY PoolAssumption DEF BackgroundCeiling, Ceiling

\* Sets of borrowers: their sizes, and what adding or removing one does.
LEMMA BorrowerSets ==
    ASSUME NEW S \in SUBSET Borrowers, NEW T \in SUBSET Borrowers, NEW b \in Borrowers
    PROVE  /\ Cardinality(S) \in Nat
           /\ T \subseteq S => Cardinality(T) <= Cardinality(S)
           /\ T \subseteq S \cup {b} => Cardinality(T) <= Cardinality(S) + 1
           /\ b \in S /\ T \subseteq S \ {b} => Cardinality(T) + 1 <= Cardinality(S)
<1>1. IsFiniteSet(S) /\ IsFiniteSet(T)
    BY FS_Subset, PoolAssumption
<1>2. /\ IsFiniteSet(S \cup {b}) /\ IsFiniteSet(S \ {b})
      /\ Cardinality(S \cup {b}) = IF b \in S THEN Cardinality(S) ELSE Cardinality(S) + 1
      /\ Cardinality(S \ {b}) = IF b \in S THEN Cardinality(S) - 1 ELSE Cardinality(S)
    BY <1>1, FS_AddElement, FS_RemoveElement
<1>3. /\ Cardinality(S) \in Nat /\ Cardinality(T) \in Nat
      /\ Cardinality(S \ {b}) \in Nat
    BY <1>1, <1>2, FS_CardinalityType
<1>4. T \subseteq S => Cardinality(T) <= Cardinality(S)
    BY <1>1, FS_Subset
<1>5. T \subseteq S \cup {b} => Cardinality(T) <= Cardinality(S \cup {b})
    BY <1>2, FS_Subset
<1>6. T \subseteq S \ {b} => Cardinality(T) <= Cardinality(S \ {b})
    BY <1>2, FS_Subset
<1>7. QED
    BY <1>2, <1>3, <1>4, <1>5, <1>6

\* A step that admits nobody keeps the invariant when every count it takes off
\* a connection is a lease less or a foreign release more.
LEMMA NoneAdmitted ==
    ASSUME SlotInv, SlotTypes',
           \A c \in Conns : /\ Leases(c)' \subseteq Leases(c)
                            /\ foreign[c] <= foreign'[c]
                            /\ inFlight'[c] <= inFlight[c]
                            /\ conn'[c] # "closed" => conn[c] # "closed",
           \A c \in Conns : Cardinality(Leases(c)') <= inFlight'[c] + foreign'[c]
    PROVE  SlotInv'
<1> SUFFICES ASSUME NEW c \in Conns
             PROVE  LeasesCounted(c)' /\ SlotsBounded(c)' /\ ScansBounded(c)'
    BY DEF SlotInv
<1>1. LeasesCounted(c)'
    BY DEF LeasesCounted
<1>2. /\ inFlight[c] \in Nat /\ inFlight'[c] \in Nat
      /\ foreign[c] \in Nat /\ foreign'[c] \in Nat
    BY DEF SlotInv, SlotTypes
<1>3. SlotsBounded(c)'
    <2>1. SlotsBounded(c)
        BY DEF SlotInv
    <2>2. QED
        BY <1>2, <2>1, PoolAssumption DEF SlotsBounded
<1>4. ScansBounded(c)'
    <2>1. ScansBounded(c)
        BY DEF SlotInv
    <2>2. /\ Leases(c)' \cap Background \subseteq Leases(c) \cap Background
          /\ Leases(c) \cap Background \in SUBSET Borrowers
          /\ Leases(c)' \cap Background \in SUBSET Borrowers
        BY DEF Leases
    <2>3. /\ Cardinality(Leases(c)' \cap Background) <= Cardinality(Leases(c) \cap Background)
          /\ Cardinality(Leases(c) \cap Background) \in Nat
          /\ Cardinality(Leases(c)' \cap Background) \in Nat
        <3>1. CASE Borrowers = {}
            <4>1. Leases(c) \cap Background = {} /\ Leases(c)' \cap Background = {}
                BY <2>2, <3>1
            <4>2. /\ Cardinality(Leases(c) \cap Background) = 0
                  /\ Cardinality(Leases(c)' \cap Background) = 0
                BY <4>1, FS_EmptySet
            <4>3. QED
                BY <4>2
        <3>2. CASE Borrowers # {}
            <4>1. PICK b \in Borrowers : TRUE
                BY <3>2
            <4>2. QED
                BY <2>2, <4>1, BorrowerSets
        <3>3. QED
            BY <3>1, <3>2
    <2>4. QED
        BY <1>2, <2>1, <2>3, CeilingFacts DEF ScansBounded
<1>5. QED
    BY <1>1, <1>3, <1>4

\* One pass of acquire's loop: whoever is admitted found room under a ceiling
\* of its own, and is counted.
LEMMA TakeKeeps ==
    ASSUME SlotInv, NEW b \in Borrowers, NEW c \in Conns \cup {None},
           who[b] # "leased", Take(b, c), at' = [at EXCEPT ![b] = c],
           UNCHANGED <<conn, foreign>>
    PROVE  SlotInv'
<1>0. SlotTypes /\ SlotTypes'
    <2>1. SlotTypes
        BY DEF SlotInv
    <2>2. who' \in [Borrowers -> Stage]
        BY <2>1 DEF SlotTypes, Take, Stage
    <2>3. inFlight' \in [Conns -> Nat]
        BY <2>1 DEF SlotTypes, Take
    <2>4. QED
        BY <2>1, <2>2, <2>3 DEF SlotTypes
<1>1. CASE /\ conn[c] = "closed" \/ inFlight[c] < Ceiling(b)
           /\ who' = [who EXCEPT ![b] = "leased"]
           /\ inFlight' = [inFlight EXCEPT ![c] = @ + 1]
    <2> SUFFICES ASSUME NEW d \in Conns
                 PROVE  LeasesCounted(d)' /\ SlotsBounded(d)' /\ ScansBounded(d)'
        BY <1>0 DEF SlotInv
    <2>0. /\ LeasesCounted(d) /\ SlotsBounded(d) /\ ScansBounded(d)
          /\ inFlight[d] \in Nat /\ foreign[d] \in Nat
          /\ foreign'[d] = foreign[d] /\ conn'[d] = conn[d]
        BY <1>0 DEF SlotInv, SlotTypes
    <2>1. CASE d # c
        <3>1. Leases(d)' = Leases(d) /\ inFlight'[d] = inFlight[d]
            BY <1>0, <1>1, <2>1 DEF Leases, SlotTypes
        <3>2. QED
            BY <2>0, <3>1 DEF LeasesCounted, SlotsBounded, ScansBounded
    <2>2. CASE d = c
        <3>1. /\ Leases(c)' = Leases(c) \cup {b}
              /\ inFlight'[c] = inFlight[c] + 1
            BY <1>0, <1>1, <2>2 DEF Leases, SlotTypes
        <3>2. /\ Leases(c) \in SUBSET Borrowers
              /\ Leases(c)' \in SUBSET Borrowers
            BY DEF Leases
        <3>3. /\ Cardinality(Leases(c)') <= Cardinality(Leases(c)) + 1
              /\ Cardinality(Leases(c)) \in Nat /\ Cardinality(Leases(c)') \in Nat
            BY <3>1, <3>2, BorrowerSets
        <3>4. LeasesCounted(c)'
            BY <2>0, <2>2, <3>1, <3>3 DEF LeasesCounted
        <3>5. SlotsBounded(c)'
            BY <1>1, <2>0, <2>2, <3>1, CeilingFacts, PoolAssumption DEF SlotsBounded
        <3>6. ScansBounded(c)'
            <4> DEFINE B == Leases(c) \cap Background
            <4>1. Leases(c)' \cap Background \in SUBSET Borrowers /\ B \in SUBSET Borrowers
                BY <3>2
            <4>2. CASE b \in Background /\ conn[c] # "closed"
                <5>1. inFlight[c] < BackgroundCeiling
                    BY <1>1, <4>2, CeilingFacts
                <5>2. /\ Cardinality(Leases(c)' \cap Background) <= Cardinality(Leases(c)')
                      /\ Cardinality(Leases(c)' \cap Background) \in Nat
                    BY <3>2, <4>1, BorrowerSets
                <5>3. QED
                    BY <2>0, <2>2, <3>3, <5>1, <5>2, CeilingFacts
                       DEF ScansBounded, LeasesCounted
            <4>3. CASE b \notin Background
                <5>1. Leases(c)' \cap Background = B
                    BY <3>1, <4>3
                <5>2. QED
                    BY <2>0, <2>2, <5>1 DEF ScansBounded
            <4>4. CASE conn[c] = "closed"
                BY <2>0, <2>2, <4>4 DEF ScansBounded
            <4>5. QED
                BY <4>2, <4>3, <4>4
        <3>7. QED
            BY <2>2, <3>4, <3>5, <3>6
    <2>3. QED
        BY <2>1, <2>2
<1>2. CASE who' = [who EXCEPT ![b] = "asleep"] /\ UNCHANGED inFlight
    <2>1. \A d \in Conns : Leases(d)' = Leases(d)
        BY <1>0, <1>2 DEF Leases, SlotTypes
    <2>2. \A d \in Conns : Cardinality(Leases(d)') <= inFlight'[d] + foreign'[d]
        BY <1>2, <2>1 DEF SlotInv, LeasesCounted
    <2>3. QED
        BY <1>0, <1>2, <2>1, <2>2, NoneAdmitted DEF SlotTypes
<1>3. QED
    BY <1>1, <1>2 DEF Take

\* A step that moves no lease, takes nothing off a count and reopens nothing.
LEMMA Unmoved ==
    ASSUME SlotInv, SlotTypes', UNCHANGED <<inFlight, foreign>>,
           \A c \in Conns : /\ Leases(c)' \subseteq Leases(c)
                            /\ conn'[c] # "closed" => conn[c] # "closed"
    PROVE  SlotInv'
<1>1. ASSUME NEW c \in Conns
      PROVE  Cardinality(Leases(c)') <= inFlight'[c] + foreign'[c]
    <2>1. LeasesCounted(c) /\ inFlight[c] \in Nat /\ foreign[c] \in Nat
        BY DEF SlotInv, SlotTypes
    <2>2. Leases(c) \in SUBSET Borrowers /\ Leases(c)' \in SUBSET Borrowers
        BY DEF Leases
    <2>3. CASE Leases(c)' = Leases(c)
        BY <2>1, <2>3 DEF LeasesCounted
    <2>4. CASE Leases(c)' # Leases(c)
        <3>1. PICK b \in Borrowers : b \in Leases(c)
            BY <2>2, <2>4
        <3>2. /\ Cardinality(Leases(c)') <= Cardinality(Leases(c))
              /\ Cardinality(Leases(c)) \in Nat /\ Cardinality(Leases(c)') \in Nat
            BY <2>2, <3>1, BorrowerSets
        <3>3. QED
            BY <2>1, <3>2 DEF LeasesCounted
    <2>5. QED
        BY <2>3, <2>4
<1>2. \A c \in Conns : foreign[c] <= foreign'[c] /\ inFlight'[c] <= inFlight[c]
    BY DEF SlotInv, SlotTypes
<1>3. QED
    BY <1>1, <1>2, NoneAdmitted
-----------------------------------------------------------------------------
\* A lease is given back: to its own connection it is a lease and a slot less,
\* to another a slot less and a foreign release more.
LEMMA ReleaseKeeps ==
    ASSUME SlotInv, NEW b \in Borrowers, Release(b)
    PROVE  SlotInv'
<1>0. /\ SlotTypes /\ who[b] = "leased"
      /\ UNCHANGED <<conn, at>>
    BY DEF SlotInv, Release, map
<1>1. CASE who' = [who EXCEPT ![b] = "done"] /\ UNCHANGED <<inFlight, foreign>>
    <2>1. SlotTypes'
        BY <1>0, <1>1 DEF SlotTypes, Stage
    <2>2. \A c \in Conns : Leases(c)' \subseteq Leases(c)
        BY <1>0, <1>1 DEF Leases, SlotTypes
    <2>3. QED
        BY <1>0, <1>1, <2>1, <2>2, Unmoved
<1>2. ASSUME NEW c \in Pooled,
             inFlight' = [inFlight EXCEPT ![c] = Fewer(inFlight[c])],
             foreign' = [foreign EXCEPT ![c] = @ + IF at[b] = c THEN 0 ELSE 1],
             \E w : who' = [who EXCEPT ![b] = "done", ![w] = "woken"]
                    \/ who' = [who EXCEPT ![b] = "done"]
      PROVE  SlotInv'
    <2>1. c \in Conns /\ inFlight[c] \in Nat /\ foreign[c] \in Nat
        BY <1>0 DEF Pooled, SlotTypes
    <2>2. /\ Fewer(inFlight[c]) \in Nat
          /\ Fewer(inFlight[c]) <= inFlight[c]
          /\ inFlight[c] <= Fewer(inFlight[c]) + 1
        BY <2>1 DEF Fewer
    <2>3. /\ inFlight' \in [Conns -> Nat]
          /\ foreign' \in [Conns -> Nat]
        BY <1>0, <1>2, <2>1, <2>2 DEF SlotTypes
    <2>4. who' \in [Borrowers -> Stage]
        BY <1>0, <1>2 DEF SlotTypes, Stage
    <2>5. SlotTypes'
        BY <1>0, <2>3, <2>4 DEF SlotTypes
    <2>6. \A d \in Conns : Leases(d)' \subseteq Leases(d) \ {b}
        BY <1>0, <1>2 DEF Leases, SlotTypes
    <2>7. ASSUME NEW d \in Conns
          PROVE  /\ foreign[d] <= foreign'[d]
                 /\ inFlight'[d] <= inFlight[d]
                 /\ Cardinality(Leases(d)') <= inFlight'[d] + foreign'[d]
        <3>1. /\ inFlight[d] \in Nat /\ foreign[d] \in Nat
              /\ Cardinality(Leases(d)) <= inFlight[d] + foreign[d]
            BY DEF SlotInv, SlotTypes, LeasesCounted
        <3>2. /\ Leases(d) \in SUBSET Borrowers /\ Leases(d)' \in SUBSET Borrowers
            BY DEF Leases
        <3>3. /\ Cardinality(Leases(d)') <= Cardinality(Leases(d))
              /\ at[b] = d => Cardinality(Leases(d)') + 1 <= Cardinality(Leases(d))
              /\ Cardinality(Leases(d)) \in Nat /\ Cardinality(Leases(d)') \in Nat
            <4>1. Leases(d)' \subseteq Leases(d)
                BY <2>6
            <4>2. at[b] = d => b \in Leases(d)
                BY <1>0 DEF Leases
            <4>3. QED
                BY <2>6, <3>2, <4>1, <4>2, BorrowerSets
        <3>4. CASE d # c
            <4>1. inFlight'[d] = inFlight[d] /\ foreign'[d] = foreign[d]
                BY <1>0, <1>2, <3>4 DEF SlotTypes
            <4>2. QED
                BY <3>1, <3>3, <4>1
        <3>5. CASE d = c /\ at[b] = c
            <4>1. inFlight'[d] = Fewer(inFlight[d]) /\ foreign'[d] = foreign[d]
                BY <1>0, <1>2, <2>1, <3>5 DEF SlotTypes
            <4>2. QED
                BY <2>2, <3>1, <3>3, <3>5, <4>1
        <3>6. CASE d = c /\ at[b] # c
            <4>1. inFlight'[d] = Fewer(inFlight[d]) /\ foreign'[d] = foreign[d] + 1
                BY <1>0, <1>2, <2>1, <3>6 DEF SlotTypes
            <4>2. QED
                BY <2>2, <3>1, <3>3, <3>6, <4>1
        <3>7. QED
            BY <3>4, <3>5, <3>6
    <2>8. QED
        BY <1>0, <2>5, <2>6, <2>7, NoneAdmitted
<1>3. QED
    BY <1>1, <1>2 DEF Release, slot, idle

\* A handshake takes the entry while it shakes and again when it opens, and a
\* connection that closes gives it up.
LEMMA StepKeepsEntry ==
    ASSUME SlotTypes, EntryLives, [Next]_vars
    PROVE  EntryLives'
<1> USE DEF map, EntryLives, SlotTypes
<1>1. CASE UNCHANGED <<entry, conn>>
    BY <1>1
<1>2. ASSUME NEW b \in Borrowers, Connect(b)
      PROVE  EntryLives'
    BY <1>2 DEF Connect, Pending
<1>3. ASSUME NEW c \in Conns, Arrive(c)
      PROVE  EntryLives'
    <2>1. CASE entry' = c /\ conn' = [conn EXCEPT ![c] = "open"]
        BY <2>1
    <2>2. CASE entry' = None
        <3>1. None \notin Conns
            BY PoolAssumption DEF Conns, None
        <3>2. QED
            BY <2>2, <3>1
    <2>3. QED
        BY <1>3, <2>1, <2>2 DEF Arrive, Ready, Fail
<1>4. ASSUME NEW c \in Conns, Closed(c)
      PROVE  EntryLives'
    <2>1. entry' = None \/ entry' = entry
        BY <1>4 DEF Closed
    <2>2. entry' # c
        <3>1. c # None
            BY PoolAssumption DEF Conns, None
        <3>2. QED
            BY <1>4, <3>1 DEF Closed
    <2>3. ASSUME NEW d \in Conns, entry' = d
          PROVE  entry = d /\ conn'[d] = conn[d]
        BY <1>4, <2>1, <2>2, <2>3 DEF Closed, Conns, None
    <2>4. QED
        BY <2>3
<1>5. CASE Evict \/ IdleFires
    BY <1>5 DEF Evict, IdleFires, EvictEntry, Conns, None
<1>6. QED
    BY <1>1, <1>2, <1>3, <1>4, <1>5
       DEF Next, Acquire, Join, Borrow, Resume, Joined, Woken, Release, Drop, Close, vars

\* Every step keeps the counts.
LEMMA StepKeepsSlots ==
    ASSUME SlotInv, EntryLives, [Next]_vars
    PROVE  SlotInv'
<1> USE DEF map, slot, idle, call, past
<1>0. SlotTypes
    BY DEF SlotInv
<1>1. ASSUME NEW b \in Borrowers, Connect(b)
      PROVE  SlotInv'
    <2>1. PICK c \in Conns, fate \in Pending :
             /\ conn[c] = "new"
             /\ conn' = [conn EXCEPT ![c] = fate]
             /\ who' = [who EXCEPT ![b] = "joining"]
             /\ at' = [at EXCEPT ![b] = c]
        BY <1>1 DEF Connect
    <2>2. SlotTypes' /\ UNCHANGED <<inFlight, foreign>>
        BY <1>0, <1>1, <2>1 DEF SlotTypes, Connect, Pending, Standing, Stage
    <2>3. ASSUME NEW d \in Conns
          PROVE  /\ Leases(d)' \subseteq Leases(d)
                 /\ conn'[d] # "closed" => conn[d] # "closed"
        BY <1>0, <1>1, <2>1 DEF SlotTypes, Leases, Connect
    <2>4. QED
        BY <2>2, <2>3, Unmoved
<1>2. ASSUME NEW b \in Borrowers, Join(b)
      PROVE  SlotInv'
    <2>1. PICK c \in Conns : /\ who' = [who EXCEPT ![b] = "joining"]
                             /\ at' = [at EXCEPT ![b] = c]
        BY <1>2 DEF Join, Expected
    <2>2. SlotTypes' /\ UNCHANGED <<inFlight, foreign, conn>>
        BY <1>0, <1>2, <2>1 DEF SlotTypes, Join, Stage
    <2>3. \A d \in Conns : Leases(d)' \subseteq Leases(d)
        BY <1>0, <1>2, <2>1 DEF SlotTypes, Leases, Join
    <2>4. QED
        BY <2>2, <2>3, Unmoved
<1>3. ASSUME NEW b \in Borrowers, Borrow(b)
      PROVE  SlotInv'
    <2>1. PICK c \in Conns : at' = [at EXCEPT ![b] = c] /\ Take(b, c)
        BY <1>3 DEF Borrow, Pooled
    <2>2. who[b] # "leased" /\ UNCHANGED <<conn, foreign>>
        BY <1>3 DEF Borrow
    <2>3. QED
        BY <2>1, <2>2, TakeKeeps
<1>4. ASSUME NEW b \in Borrowers, Resume(b)
      PROVE  SlotInv'
    <2>1. /\ who[b] # "leased" /\ UNCHANGED <<conn, foreign>>
          /\ at' = [at EXCEPT ![b] = at[b]] /\ at[b] \in Conns \cup {None}
        BY <1>0, <1>4 DEF Resume, Joined, Woken, SlotTypes
    <2>2. CASE Take(b, at[b])
        BY <2>1, <2>2, TakeKeeps
    <2>3. CASE who' = [who EXCEPT ![b] = "failed"] /\ UNCHANGED slot
        <3>1. SlotTypes' /\ UNCHANGED <<inFlight, foreign>>
            BY <1>0, <2>1, <2>3 DEF SlotTypes, Stage
        <3>2. \A d \in Conns : Leases(d)' \subseteq Leases(d)
            BY <1>0, <2>1, <2>3 DEF SlotTypes, Leases
        <3>3. QED
            BY <2>1, <3>1, <3>2, Unmoved
    <2>4. QED
        BY <1>4, <2>2, <2>3 DEF Resume, Joined, Woken
<1>5. ASSUME NEW b \in Borrowers, Release(b)
      PROVE  SlotInv'
    BY <1>5, ReleaseKeeps
<1>6. ASSUME NEW c \in Conns, Arrive(c)
      PROVE  SlotInv'
    <2>1. SlotTypes' /\ UNCHANGED <<inFlight, foreign, who, at>>
        BY <1>0, <1>6 DEF SlotTypes, Arrive, Ready, Fail, Standing
    <2>2. \A d \in Conns : conn'[d] # "closed" => conn[d] # "closed"
        BY <1>0, <1>6 DEF SlotTypes, Arrive, Ready, Fail, Pending
    <2>3. \A d \in Conns : Leases(d)' = Leases(d)
        BY <2>1 DEF Leases
    <2>4. QED
        BY <2>1, <2>2, <2>3, Unmoved
<1>7. ASSUME NEW c \in Conns, Drop(c) \/ Close(c)
      PROVE  SlotInv'
    <2>1. /\ Closed(c)
          /\ UNCHANGED <<inFlight, foreign, at>>
        BY <1>7 DEF Drop, Close, Closed
    <2>2. SlotTypes'
        BY <1>0, <2>1 DEF SlotTypes, Closed, Standing, Stage
    <2>3. \A d \in Conns : /\ Leases(d)' \subseteq Leases(d)
                           /\ conn'[d] # "closed" => conn[d] # "closed"
        BY <1>0, <2>1 DEF SlotTypes, Leases, Closed
    <2>4. QED
        BY <2>1, <2>2, <2>3, Unmoved
<1>8. CASE Evict \/ IdleFires
    <2>1. UNCHANGED <<inFlight, foreign, who, at>>
        BY <1>8 DEF Evict, IdleFires
    <2>2. \/ UNCHANGED conn
          \/ \E c \in Conns : conn' = [conn EXCEPT ![c] = "ending"] /\ conn[c] # "closed"
        BY <1>8 DEF Evict, IdleFires, EvictEntry, Pooled, EntryLives
    <2>3. SlotTypes'
        BY <1>0, <2>1, <2>2 DEF SlotTypes, Standing
    <2>4. \A d \in Conns : conn'[d] # "closed" => conn[d] # "closed"
        BY <1>0, <2>2 DEF SlotTypes
    <2>5. \A d \in Conns : Leases(d)' = Leases(d)
        BY <2>1 DEF Leases
    <2>6. QED
        BY <2>1, <2>3, <2>4, <2>5, Unmoved
<1>9. CASE UNCHANGED vars
    <2>1. UNCHANGED <<conn, inFlight, foreign, who, at>>
        BY <1>9 DEF vars
    <2>2. SlotTypes' /\ \A d \in Conns : Leases(d)' = Leases(d)
        BY <1>0, <2>1 DEF SlotTypes, Leases
    <2>3. QED
        BY <2>1, <2>2, Unmoved
<1>10. QED
    BY <1>1, <1>2, <1>3, <1>4, <1>5, <1>6, <1>7, <1>8, <1>9 DEF Next, Acquire

\* Nothing is leased before anybody asks.
LEMMA InitSlots ==
    ASSUME Init
    PROVE  SlotInv /\ EntryLives
<1>1. SlotTypes
    BY DEF Init, SlotTypes, Standing, Stage
<1>2. EntryLives
    BY DEF Init, EntryLives
<1>3. ASSUME NEW c \in Conns
      PROVE  LeasesCounted(c) /\ SlotsBounded(c) /\ ScansBounded(c)
    <2>1. Leases(c) = {} /\ Leases(c) \cap Background = {}
        BY DEF Init, Leases
    <2>2. Cardinality(Leases(c)) = 0 /\ Cardinality(Leases(c) \cap Background) = 0
        BY <2>1, FS_EmptySet
    <2>3. inFlight[c] = 0 /\ foreign[c] = 0
        BY DEF Init
    <2>4. QED
        BY <2>2, <2>3, CeilingFacts, PoolAssumption
           DEF LeasesCounted, SlotsBounded, ScansBounded
<1>4. QED
    BY <1>1, <1>2, <1>3 DEF SlotInv

\* The inductive invariant: in every reachable state each connection counts its
\* leases, but for those foreign releases took off, and stays within its slots.
THEOREM SlotsCounted == Spec => [](SlotInv /\ EntryLives)
<1>1. Init => SlotInv /\ EntryLives
    BY InitSlots
<1>2. SlotInv /\ EntryLives /\ [Next]_vars => (SlotInv /\ EntryLives)'
    BY StepKeepsSlots, StepKeepsEntry DEF SlotInv
<1>3. QED
    BY <1>1, <1>2, PTL DEF Spec

\* acquire and release keep a live connection's leases within maxConcurrency, in
\* any order of wakes, barging borrowers, closes and evictions, short of what
\* foreign releases gave back.
THEOREM CapAlways == Spec => []CapRespected
<1>1. SlotInv => CapRespected
    <2> SUFFICES ASSUME SlotInv, NEW c \in Conns, conn[c] \in {"open", "ending"}
                 PROVE  Cardinality(Leases(c)) <= MaxConcurrency + foreign[c]
        BY DEF CapRespected
    <2>1. /\ Cardinality(Leases(c)) <= inFlight[c] + foreign[c]
          /\ inFlight[c] <= MaxConcurrency
          /\ inFlight[c] \in Nat /\ foreign[c] \in Nat
        BY DEF SlotInv, SlotTypes, LeasesCounted, SlotsBounded
    <2>2. Cardinality(Leases(c)) \in Nat
        <3>1. IsFiniteSet(Leases(c))
            BY FS_Subset, PoolAssumption DEF Leases
        <3>2. QED
            BY <3>1, FS_CardinalityType
    <2>3. QED
        BY <2>1, <2>2, PoolAssumption
<1>2. QED
    BY <1>1, SlotsCounted, PTL

\* Background work leaves the reserved slots of a live connection alone, with the
\* same allowance.
THEOREM BackgroundAlways == Spec => []BackgroundLeavesRoom
<1>1. SlotInv => BackgroundLeavesRoom
    BY DEF SlotInv, ScansBounded, BackgroundLeavesRoom, BackgroundCeiling
<1>2. QED
    BY <1>1, SlotsCounted, PTL

\* What a live connection lends stays within its slots, to everybody together and
\* to background work: the two above, for acquire and release as they are.
THEOREM SlotsAlways == Spec => []SlotsHeld
<1>1. CapRespected /\ BackgroundLeavesRoom => SlotsHeld
    BY DEF SlotsHeld
<1>2. QED
    BY <1>1, CapAlways, BackgroundAlways, PTL

-----------------------------------------------------------------------------
(* The queue of a connection and the types.                                *)

\* One borrower more at the end of a queue it is not in.
LEMMA Queued ==
    ASSUME NEW s \in Seq(Borrowers), IsInjective(s), NEW b \in Borrowers, b \notin ToSet(s)
    PROVE  /\ Append(s, b) \in Seq(Borrowers)
           /\ IsInjective(Append(s, b))
           /\ ToSet(Append(s, b)) = ToSet(s) \cup {b}
<1> DEFINE t == Append(s, b)
<1>1. /\ t \in Seq(Borrowers) /\ Len(t) = Len(s) + 1 /\ Len(s) \in Nat
      /\ DOMAIN t = 1 .. Len(s) + 1 /\ DOMAIN s = 1 .. Len(s)
      /\ \A i \in 1 .. Len(s) : t[i] = s[i]
      /\ t[Len(s) + 1] = b
    OBVIOUS
<1>2. \A i \in 1 .. Len(s) : s[i] # b
    BY <1>1 DEF ToSet
<1> HIDE DEF t
<1>3. IsInjective(t)
    <2> SUFFICES ASSUME NEW i \in DOMAIN t, NEW k \in DOMAIN t, t[i] = t[k] PROVE i = k
        BY DEF IsInjective
    <2>1. CASE i \in 1 .. Len(s) /\ k \in 1 .. Len(s)
        BY <1>1, <2>1 DEF IsInjective
    <2>2. CASE i = Len(s) + 1 \/ k = Len(s) + 1
        BY <1>1, <1>2, <2>2
    <2>3. QED
        BY <1>1, <2>1, <2>2
<1>4. ToSet(t) = ToSet(s) \cup {b}
    <2>1. \A x \in ToSet(t) : x \in ToSet(s) \cup {b}
        BY <1>1 DEF ToSet
    <2>2. b \in ToSet(t)
        BY <1>1 DEF ToSet
    <2>3. \A x \in ToSet(s) : x \in ToSet(t)
        BY <1>1 DEF ToSet
    <2>4. QED
        BY <2>1, <2>2, <2>3
<1>5. QED
    BY <1>1, <1>3, <1>4 DEF t

\* One borrower taken out of a queue, wherever it stands there.
LEMMA Dequeued ==
    ASSUME NEW s \in Seq(Borrowers), IsInjective(s), NEW n \in DOMAIN s
    PROVE  /\ RemoveAt(s, n) \in Seq(Borrowers)
           /\ IsInjective(RemoveAt(s, n))
           /\ ToSet(RemoveAt(s, n)) = ToSet(s) \ {s[n]}
<1> DEFINE t == RemoveAt(s, n)
           From(i) == IF i < n THEN i ELSE i + 1
<1>1. /\ Len(s) \in Nat /\ DOMAIN s = 1 .. Len(s) /\ n \in 1 .. Len(s)
    OBVIOUS
<1>2. /\ t \in Seq(Borrowers) /\ Len(t) = Len(s) - 1
      /\ DOMAIN t = 1 .. Len(s) - 1
      /\ \A i \in 1 .. Len(s) - 1 : t[i] = s[From(i)]
    <2> DEFINE u == SubSeq(s, 1, n - 1)
               v == SubSeq(s, n + 1, Len(s))
    <2>1. /\ u \in Seq(Borrowers) /\ Len(u) = n - 1
          /\ \A i \in 1 .. n - 1 : u[i] = s[i]
        BY <1>1
    <2>2. /\ v \in Seq(Borrowers) /\ Len(v) = Len(s) - n
          /\ \A i \in 1 .. Len(s) - n : v[i] = s[n + i]
        BY <1>1
    <2>3. t = u \o v
        BY DEF RemoveAt
    <2> HIDE DEF u, v, t
    <2>4. /\ t \in Seq(Borrowers) /\ Len(t) = Len(s) - 1
          /\ \A i \in 1 .. Len(s) - 1 : t[i] = IF i <= n - 1 THEN u[i] ELSE v[i - (n - 1)]
        <3>1. /\ t \in Seq(Borrowers) /\ Len(t) = Len(u) + Len(v)
              /\ \A i \in 1 .. Len(u) + Len(v) :
                    t[i] = IF i <= Len(u) THEN u[i] ELSE v[i - Len(u)]
            BY <2>1, <2>2, <2>3, ConcatProperties
        <3>2. Len(u) + Len(v) = Len(s) - 1
            BY <1>1, <2>1, <2>2
        <3>3. QED
            BY <2>1, <3>1, <3>2
    <2>5. DOMAIN t = 1 .. Len(s) - 1
        BY <2>4
    <2>6. ASSUME NEW i \in 1 .. Len(s) - 1 PROVE t[i] = s[From(i)]
        <3>1. CASE i <= n - 1
            BY <1>1, <2>1, <2>4, <3>1
        <3>2. CASE ~(i <= n - 1)
            <4>1. i - (n - 1) \in 1 .. Len(s) - n /\ n + (i - (n - 1)) = i + 1
                BY <1>1, <3>2
            <4>2. QED
                BY <1>1, <2>2, <2>4, <3>2, <4>1
        <3>3. QED
            BY <3>1, <3>2
    <2>7. QED
        BY <2>4, <2>5, <2>6
<1>3. \A i \in 1 .. Len(s) - 1 : From(i) \in 1 .. Len(s) /\ From(i) # n
    BY <1>1
<1>4. \A i, k \in 1 .. Len(s) - 1 : From(i) = From(k) => i = k
    BY <1>1
<1>5. \A m \in 1 .. Len(s) : m # n => \E i \in 1 .. Len(s) - 1 : From(i) = m
    <2> SUFFICES ASSUME NEW m \in 1 .. Len(s), m # n
                 PROVE  \E i \in 1 .. Len(s) - 1 : From(i) = m
        OBVIOUS
    <2>1. CASE m < n
        <3>1. m \in 1 .. Len(s) - 1 /\ From(m) = m
            BY <1>1, <2>1
        <3>2. QED
            BY <3>1
    <2>2. CASE m > n
        <3>1. m - 1 \in 1 .. Len(s) - 1 /\ From(m - 1) = m
            BY <1>1, <2>2
        <3>2. QED
            BY <3>1
    <2>3. QED
        BY <1>1, <2>1, <2>2
<1> HIDE DEF t, From
<1>6. IsInjective(t)
    BY <1>1, <1>2, <1>3, <1>4 DEF IsInjective
<1>7. ToSet(t) = ToSet(s) \ {s[n]}
    <2>1. ASSUME NEW x \in ToSet(t) PROVE x \in ToSet(s) \ {s[n]}
        BY <1>1, <1>2, <1>3 DEF ToSet, IsInjective
    <2>2. ASSUME NEW x \in ToSet(s) \ {s[n]} PROVE x \in ToSet(t)
        <3>1. PICK m \in 1 .. Len(s) : x = s[m] /\ m # n
            BY <1>1 DEF ToSet
        <3>2. PICK i \in 1 .. Len(s) - 1 : From(i) = m
            BY <1>5, <3>1
        <3>3. QED
            BY <1>2, <3>1, <3>2 DEF ToSet
    <2>3. QED
        BY <2>1, <2>2
<1>8. QED
    BY <1>2, <1>6, <1>7 DEF t

\* TypeOK in parts.
MapTypes ==
    /\ entry \in Conns \cup {None}
    /\ conn \in [Conns -> Standing]
    /\ \A c \in Conns : entry = c => conn[c] \in Pending \cup {"open"}
    /\ mark \in BOOLEAN
    /\ timer \in [Conns -> BOOLEAN]
    /\ stray \in Nat
    /\ revoked \subseteq Conns

CallTypes ==
    /\ inFlight \in [Conns -> Nat]
    /\ who \in [Borrowers -> Stage]
    /\ at \in [Borrowers -> Conns \cup {None}]
    /\ waiting \in [Conns -> Seq(Borrowers)]
    /\ foreign \in [Conns -> Nat]

Asleep(c) == {b \in Borrowers : who[b] = "asleep" /\ at[b] = c}
Queues    == \A c \in Conns : IsInjective(waiting[c]) /\ ToSet(waiting[c]) = Asleep(c)

LEMMA TypeParts ==
    /\ TypeOK <=> MapTypes /\ CallTypes /\ Queues
    /\ TypeOK' <=> MapTypes' /\ CallTypes' /\ Queues'
BY DEF TypeOK, MapTypes, CallTypes, Queues, Asleep

LEMMA NoneIsNoConn == None \notin Conns
BY PoolAssumption DEF None, Conns

\* A nonempty set of naturals has a least member.
LEMMA LeastOf ==
    ASSUME NEW S \in SUBSET Nat, S # {}
    PROVE  \E x \in S : \A y \in S : x <= y
<1>1. IsWellFoundedOn(OpToRel(<, Nat), Nat)
    BY NatLessThanWellFounded
<1>2. PICK x \in S : \A y \in S : ~ (<<y, x>> \in OpToRel(<, Nat))
    BY <1>1, WFMin
<1>3. \A y \in S : ~ (y < x)
    BY <1>2 DEF OpToRel
<1>4. QED
    BY <1>3

\* FirstAble gives a place of the queue, or none.
LEMMA FirstAbleFacts ==
    ASSUME NEW c \in Conns, NEW n \in Nat, waiting[c] \in Seq(Borrowers)
    PROVE  FirstAble(c, n) \in {0} \cup DOMAIN waiting[c]
<1> DEFINE able == {i \in DOMAIN waiting[c] : n < Ceiling(waiting[c][i])}
<1>1. able \subseteq DOMAIN waiting[c] /\ DOMAIN waiting[c] \subseteq Nat
    OBVIOUS
<1>2. FirstAble(c, n) = IF able = {} THEN 0
                        ELSE CHOOSE i \in able : \A k \in able : i <= k
    BY DEF FirstAble
<1> HIDE DEF able
<1>3. CASE able = {}
    BY <1>2, <1>3
<1>4. CASE able # {}
    <2>1. \E x \in able : \A y \in able : x <= y
        BY <1>1, <1>4, LeastOf
    <2>2. FirstAble(c, n) \in able
        BY <1>2, <1>4, <2>1
    <2>3. QED
        BY <1>1, <2>2
<1>5. QED
    BY <1>3, <1>4

\* The loop of acquire seats its borrower or queues it, and moves nobody else.
LEMMA TakeTypes ==
    ASSUME CallTypes, Queues, NEW b \in Borrowers, NEW c \in Conns \cup {None},
           who[b] # "asleep", at' = [at EXCEPT ![b] = c], Take(b, c), foreign' = foreign
    PROVE  CallTypes' /\ Queues'
<1> USE NoneIsNoConn DEF CallTypes
<1>1. \A d \in Conns : b \notin Asleep(d)
    BY DEF Asleep
<1>2. CASE /\ who' = [who EXCEPT ![b] = "leased"]
           /\ inFlight' = [inFlight EXCEPT ![c] = @ + 1]
           /\ UNCHANGED waiting
    <2>1. inFlight' \in [Conns -> Nat] /\ who' \in [Borrowers -> Stage]
        <3>1. CASE c \in Conns
            BY <1>2, <3>1 DEF Stage
        <3>2. CASE c = None
            BY <1>2, <3>2 DEF Stage
        <3>3. QED
            BY <3>1, <3>2
    <2>2. CallTypes'
        BY <1>2, <2>1
    <2>3. \A d \in Conns : Asleep(d)' = Asleep(d)
        BY <1>1, <1>2 DEF Asleep
    <2>4. QED
        BY <1>2, <2>2, <2>3 DEF Queues
<1>3. CASE /\ who' = [who EXCEPT ![b] = "asleep"]
           /\ waiting' = [waiting EXCEPT ![c] = Append(@, b)]
           /\ UNCHANGED inFlight
    <2>1. \A d \in Conns : Asleep(d)' = IF d = c THEN Asleep(d) \cup {b} ELSE Asleep(d)
        BY <1>1, <1>3 DEF Asleep
    <2>2. ASSUME NEW d \in Conns
          PROVE  /\ waiting'[d] \in Seq(Borrowers)
                 /\ IsInjective(waiting'[d])
                 /\ ToSet(waiting'[d]) = Asleep(d)'
        <3>1. /\ waiting[d] \in Seq(Borrowers)
              /\ IsInjective(waiting[d])
              /\ ToSet(waiting[d]) = Asleep(d)
            BY DEF Queues
        <3>2. CASE d = c
            <4>1. waiting'[d] = Append(waiting[d], b)
                BY <1>3, <3>2
            <4>2. b \notin ToSet(waiting[d])
                BY <1>1, <3>1
            <4>3. /\ Append(waiting[d], b) \in Seq(Borrowers)
                  /\ IsInjective(Append(waiting[d], b))
                  /\ ToSet(Append(waiting[d], b)) = ToSet(waiting[d]) \cup {b}
                BY <3>1, <4>2, Queued
            <4>4. QED
                BY <2>1, <3>1, <3>2, <4>1, <4>3
        <3>3. CASE d # c
            <4>1. waiting'[d] = waiting[d]
                BY <1>3, <3>3
            <4>2. QED
                BY <2>1, <3>1, <3>3, <4>1
        <3>4. QED
            BY <3>2, <3>3
    <2>3. DOMAIN waiting' = Conns /\ waiting' = [d \in Conns |-> waiting'[d]]
        BY <1>3
    <2>4. CallTypes'
        BY <1>3, <2>2, <2>3 DEF Stage
    <2>5. QED
        BY <2>2, <2>4 DEF Queues
<1>4. QED
    BY <1>2, <1>3 DEF Take

\* A step that moves no borrower in or out of a queue.
LEMMA QueuesStand ==
    ASSUME Queues, waiting' = waiting,
           \A b \in Borrowers, c \in Conns :
              who'[b] = "asleep" /\ at'[b] = c <=> who[b] = "asleep" /\ at[b] = c
    PROVE  Queues'
<1>1. \A c \in Conns : Asleep(c)' = Asleep(c)
    BY DEF Asleep
<1>2. QED
    BY <1>1 DEF Queues

\* A lease given back wakes one borrower of the queue, or nobody.
LEMMA ReleaseTypes ==
    ASSUME TypeOK, NEW b \in Borrowers, Release(b)
    PROVE  TypeOK'
<1> USE DEF map, slot, idle, call, past
<1>0. MapTypes /\ CallTypes /\ Queues
    BY TypeParts
<1>1. who[b] = "leased" /\ UNCHANGED <<map, conn, at, revoked>>
    BY DEF Release
<1>2. CASE /\ who' = [who EXCEPT ![b] = "done"]
           /\ UNCHANGED <<slot, idle, foreign>>
    <2>1. MapTypes' /\ CallTypes'
        BY <1>0, <1>1, <1>2 DEF MapTypes, CallTypes, Stage
    <2>2. Queues'
        BY <1>0, <1>1, <1>2, QueuesStand DEF CallTypes
    <2>3. QED
        BY <2>1, <2>2, TypeParts
<1>3. ASSUME NEW c \in Pooled,
             inFlight' = [inFlight EXCEPT ![c] = Fewer(inFlight[c])],
             foreign' = [foreign EXCEPT ![c] = @ + IF at[b] = c THEN 0 ELSE 1],
             \/ /\ FirstAble(c, Fewer(inFlight[c])) # 0
                /\ who' = [who EXCEPT ![b] = "done",
                              ![waiting[c][FirstAble(c, Fewer(inFlight[c]))]] = "woken"]
                /\ waiting' = [waiting EXCEPT
                                  ![c] = RemoveAt(@, FirstAble(c, Fewer(inFlight[c])))]
                /\ UNCHANGED idle
             \/ /\ who' = [who EXCEPT ![b] = "done"]
                /\ timer' = [timer EXCEPT ![c] = @ \/ Fewer(inFlight[c]) = 0]
                /\ stray' = stray + IF Fewer(inFlight[c]) = 0 /\ timer[c] THEN 1 ELSE 0
                /\ UNCHANGED waiting
      PROVE  TypeOK'
    <2> DEFINE left == Fewer(inFlight[c])
               next == FirstAble(c, left)
    <2>1. /\ c \in Conns /\ left \in Nat
          /\ inFlight' \in [Conns -> Nat] /\ foreign' \in [Conns -> Nat]
        BY <1>0, <1>3 DEF CallTypes, Pooled, Fewer
    <2>2. CASE next # 0 /\ UNCHANGED idle
               /\ who' = [who EXCEPT ![b] = "done", ![waiting[c][next]] = "woken"]
               /\ waiting' = [waiting EXCEPT ![c] = RemoveAt(@, next)]
        <3>1. /\ waiting[c] \in Seq(Borrowers) /\ IsInjective(waiting[c])
              /\ ToSet(waiting[c]) = Asleep(c)
            BY <1>0, <2>1 DEF CallTypes, Queues
        <3>2. next \in DOMAIN waiting[c]
            BY <2>1, <2>2, <3>1, FirstAbleFacts
        <3> HIDE DEF left, next
        <3>3. PICK w \in Borrowers : w = waiting[c][next]
            BY <3>1, <3>2
        <3>4. w \in Asleep(c)
            BY <3>1, <3>2, <3>3 DEF ToSet
        <3>5. who[w] = "asleep" /\ at[w] = c /\ w # b
            BY <1>1, <3>4 DEF Asleep
        <3>6. /\ who' \in [Borrowers -> Stage]
              /\ \A x \in Borrowers : who'[x] = IF x = w THEN "woken"
                                                ELSE IF x = b THEN "done" ELSE who[x]
            BY <1>0, <2>2, <3>3, <3>5 DEF CallTypes, Stage
        <3>7. \A d \in Conns : Asleep(d)' = IF d = c THEN Asleep(d) \ {w} ELSE Asleep(d)
            BY <1>1, <3>5, <3>6 DEF Asleep
        <3>8. /\ RemoveAt(waiting[c], next) \in Seq(Borrowers)
              /\ IsInjective(RemoveAt(waiting[c], next))
              /\ ToSet(RemoveAt(waiting[c], next)) = Asleep(c) \ {w}
            BY <3>1, <3>2, <3>3, Dequeued
        <3>9. /\ waiting \in [Conns -> Seq(Borrowers)]
              /\ waiting' = [waiting EXCEPT ![c] = RemoveAt(waiting[c], next)]
            BY <1>0, <2>2 DEF CallTypes
        <3>10. waiting' \in [Conns -> Seq(Borrowers)]
            BY <3>8, <3>9
        <3>11. ASSUME NEW d \in Conns
               PROVE  IsInjective(waiting'[d]) /\ ToSet(waiting'[d]) = Asleep(d)'
            <4>1. CASE d = c
                BY <3>7, <3>8, <3>9, <4>1
            <4>2. CASE d # c
                BY <1>0, <3>7, <3>9, <4>2 DEF Queues
            <4>3. QED
                BY <4>1, <4>2
        <3>12. MapTypes' /\ CallTypes' /\ Queues'
            BY <1>0, <1>1, <2>1, <2>2, <3>6, <3>10, <3>11 DEF MapTypes, CallTypes, Queues
        <3>13. QED
            BY <3>12, TypeParts
    <2>3. CASE /\ who' = [who EXCEPT ![b] = "done"]
               /\ timer' = [timer EXCEPT ![c] = @ \/ left = 0]
               /\ stray' = stray + IF left = 0 /\ timer[c] THEN 1 ELSE 0
               /\ UNCHANGED waiting
        <3>1. timer' \in [Conns -> BOOLEAN] /\ stray' \in Nat
            <4>1. timer \in [Conns -> BOOLEAN] /\ c \in Conns /\ stray \in Nat
                BY <1>0, <2>1 DEF MapTypes
            <4>2. CASE left = 0
                <5>1. timer' = [timer EXCEPT ![c] = TRUE]
                    BY <2>3, <4>2
                <5>2. QED
                    BY <2>3, <4>1, <5>1
            <4>3. CASE left # 0
                <5>1. (timer[c] \/ left = 0) = timer[c]
                    BY <4>1, <4>3
                <5>2. timer' = [timer EXCEPT ![c] = timer[c]]
                    BY <2>3, <5>1
                <5>3. QED
                    BY <2>3, <4>1, <4>3, <5>2
            <4>4. QED
                BY <4>2, <4>3
        <3>2. MapTypes' /\ CallTypes'
            BY <1>0, <1>1, <2>1, <2>3, <3>1 DEF MapTypes, CallTypes, Stage
        <3>3. Queues'
            BY <1>0, <1>1, <2>3, QueuesStand DEF CallTypes
        <3>4. QED
            BY <3>2, <3>3, TypeParts
    <2>4. QED
        BY <1>3, <2>2, <2>3
<1>4. QED
    BY <1>2, <1>3 DEF Release

\* Every step keeps the types.
LEMMA StepKeepsTypes ==
    ASSUME TypeOK, [Next]_vars
    PROVE  TypeOK'
<1> USE NoneIsNoConn DEF map, slot, idle, call, past
<1>0. MapTypes /\ CallTypes /\ Queues
    BY TypeParts
<1>1. ASSUME NEW b \in Borrowers, Connect(b)
      PROVE  TypeOK'
    <2>1. PICK c \in Conns, fate \in Pending :
             /\ conn' = [conn EXCEPT ![c] = fate]
             /\ entry' = c
             /\ who' = [who EXCEPT ![b] = "joining"]
             /\ at' = [at EXCEPT ![b] = c]
        BY <1>1 DEF Connect
    <2>2. who[b] = "idle" /\ UNCHANGED <<mark, slot, idle, past>>
        BY <1>1 DEF Connect
    <2>3. MapTypes' /\ CallTypes'
        BY <1>0, <2>1, <2>2 DEF MapTypes, CallTypes, Pending, Standing, Stage
    <2>4. Queues'
        BY <1>0, <2>1, <2>2, QueuesStand DEF CallTypes
    <2>5. QED
        BY <2>3, <2>4, TypeParts
<1>2. ASSUME NEW b \in Borrowers, Join(b)
      PROVE  TypeOK'
    <2>1. PICK c \in Conns : /\ who' = [who EXCEPT ![b] = "joining"]
                             /\ at' = [at EXCEPT ![b] = c]
        BY <1>2 DEF Join, Expected
    <2>2. who[b] = "idle" /\ UNCHANGED <<map, conn, slot, idle, past>>
        BY <1>2 DEF Join
    <2>3. MapTypes' /\ CallTypes'
        BY <1>0, <2>1, <2>2 DEF MapTypes, CallTypes, Stage
    <2>4. Queues'
        BY <1>0, <2>1, <2>2, QueuesStand DEF CallTypes
    <2>5. QED
        BY <2>3, <2>4, TypeParts
<1>3. ASSUME NEW b \in Borrowers, Borrow(b)
      PROVE  TypeOK'
    <2>1. PICK c \in Conns : /\ timer' = [timer EXCEPT ![c] = FALSE]
                             /\ at' = [at EXCEPT ![b] = c]
                             /\ Take(b, c)
        BY <1>3 DEF Borrow, Pooled
    <2>2. who[b] = "idle" /\ UNCHANGED <<map, conn, stray, past>>
        BY <1>3 DEF Borrow
    <2>3. CallTypes' /\ Queues'
        BY <1>0, <2>1, <2>2, TakeTypes
    <2>4. MapTypes'
        BY <1>0, <2>1, <2>2 DEF MapTypes
    <2>5. QED
        BY <2>3, <2>4, TypeParts
<1>4. ASSUME NEW b \in Borrowers, Resume(b)
      PROVE  TypeOK'
    <2>1. /\ who[b] \in {"joining", "woken"} /\ UNCHANGED <<map, conn, stray, at, past>>
          /\ at' = [at EXCEPT ![b] = at[b]] /\ at[b] \in Conns \cup {None}
        BY <1>0, <1>4 DEF Resume, Joined, Woken, CallTypes
    <2>2. timer' = timer \/ timer' = [timer EXCEPT ![at[b]] = FALSE]
        BY <1>4 DEF Resume, Joined, Woken
    <2>3. MapTypes'
        BY <1>0, <2>1, <2>2 DEF MapTypes
    <2>4. CASE Take(b, at[b])
        <3>1. CallTypes' /\ Queues'
            BY <1>0, <2>1, <2>4, TakeTypes
        <3>2. QED
            BY <2>3, <3>1, TypeParts
    <2>5. CASE who' = [who EXCEPT ![b] = "failed"] /\ UNCHANGED slot
        <3>1. CallTypes'
            BY <1>0, <2>1, <2>5 DEF CallTypes, Stage
        <3>2. Queues'
            BY <1>0, <2>1, <2>5, QueuesStand DEF CallTypes
        <3>3. QED
            BY <2>3, <3>1, <3>2, TypeParts
    <2>6. QED
        BY <1>4, <2>4, <2>5 DEF Resume, Joined, Woken
<1>5. ASSUME NEW b \in Borrowers, Release(b)
      PROVE  TypeOK'
    BY <1>5, ReleaseTypes
<1>6. ASSUME NEW c \in Conns, Arrive(c)
      PROVE  TypeOK'
    <2>1. UNCHANGED <<slot, idle, call, past>>
        BY <1>6 DEF Arrive, Ready, Fail
    <2>2. MapTypes'
        BY <1>0, <1>6 DEF MapTypes, Arrive, Ready, Fail, Pending, Standing
    <2>3. CallTypes'
        BY <1>0, <2>1 DEF CallTypes
    <2>4. Queues'
        BY <1>0, <2>1, QueuesStand
    <2>5. QED
        BY <2>2, <2>3, <2>4, TypeParts
<1>7. ASSUME NEW c \in Conns, Drop(c) \/ Close(c)
      PROVE  TypeOK'
    <2>1. /\ conn' = [conn EXCEPT ![c] = "closed"]
          /\ entry' = IF entry = c THEN None ELSE entry
          /\ who' = [b \in Borrowers |->
                       IF who[b] = "asleep" /\ at[b] = c THEN "woken" ELSE who[b]]
          /\ waiting' = [waiting EXCEPT ![c] = <<>>]
          /\ UNCHANGED <<mark, inFlight, idle, at, past>>
        BY <1>7 DEF Drop, Close, Closed
    <2>2. MapTypes'
        BY <1>0, <2>1 DEF MapTypes, Standing
    <2>3. CallTypes'
        BY <1>0, <2>1 DEF CallTypes, Stage
    <2>4. ASSUME NEW d \in Conns
          PROVE  IsInjective(waiting'[d]) /\ ToSet(waiting'[d]) = Asleep(d)'
        <3>1. CASE d = c
            <4>1. waiting'[d] = <<>>
                BY <1>0, <2>1, <3>1 DEF CallTypes
            <4>2. Asleep(d)' = {}
                BY <1>0, <2>1, <3>1 DEF Asleep, CallTypes
            <4>3. QED
                BY <4>1, <4>2 DEF ToSet, IsInjective
        <3>2. CASE d # c
            <4>1. waiting'[d] = waiting[d]
                BY <1>0, <2>1, <3>2 DEF CallTypes
            <4>2. Asleep(d)' = Asleep(d)
                BY <1>0, <2>1, <3>2 DEF Asleep, CallTypes
            <4>3. QED
                BY <1>0, <4>1, <4>2 DEF Queues
        <3>3. QED
            BY <3>1, <3>2
    <2>5. QED
        BY <2>2, <2>3, <2>4, TypeParts DEF Queues
<1>8. CASE Evict \/ IdleFires
    <2>1. UNCHANGED <<slot, call, foreign>>
        BY <1>8 DEF Evict, IdleFires
    <2>2. stray' \in Nat
        BY <1>0, <1>8 DEF Evict, IdleFires, MapTypes
    <2>3. PICK on \in [Conns -> BOOLEAN] :
             \/ EvictEntry(on)
             \/ timer' = on /\ UNCHANGED <<map, conn, revoked>>
        BY <1>0, <1>8 DEF Evict, IdleFires, MapTypes
    <2>4. MapTypes'
        BY <1>0, <2>2, <2>3 DEF MapTypes, EvictEntry, Expected, Pooled, Standing
    <2>5. CallTypes'
        BY <1>0, <2>1 DEF CallTypes
    <2>6. Queues'
        BY <1>0, <2>1, QueuesStand
    <2>7. QED
        BY <2>4, <2>5, <2>6, TypeParts
<1>9. CASE UNCHANGED vars
    BY <1>9 DEF vars, TypeOK
<1>10. QED
    BY <1>1, <1>2, <1>3, <1>4, <1>5, <1>6, <1>7, <1>8, <1>9 DEF Next, Acquire

\* The queue of a connection holds exactly the borrowers asleep on it, each once,
\* through every wake, close and eviction, and the map never holds a connection
\* that has failed, is being ended or has closed.
THEOREM PoolTypes == Spec => []TypeOK
<1>1. Init => TypeOK
    <2> SUFFICES ASSUME Init PROVE MapTypes /\ CallTypes /\ Queues
        BY TypeParts
    <2>1. MapTypes
        BY NoneIsNoConn DEF Init, MapTypes, Standing
    <2>2. CallTypes
        BY DEF Init, CallTypes, Stage
    <2>3. ASSUME NEW c \in Conns
          PROVE  IsInjective(waiting[c]) /\ ToSet(waiting[c]) = Asleep(c)
        <3>1. waiting[c] = <<>> /\ Asleep(c) = {}
            BY DEF Init, Asleep
        <3>2. QED
            BY <3>1 DEF IsInjective, ToSet
    <2>4. QED
        BY <2>1, <2>2, <2>3 DEF Queues
<1>2. TypeOK /\ [Next]_vars => TypeOK'
    BY StepKeepsTypes
<1>3. QED
    BY <1>1, <1>2, PTL DEF Spec

-----------------------------------------------------------------------------
(* Evicted handshakes.                                                     *)

\* An evicted handshake is under way with the key marked, has ended, or another
\* handshake of the key has failed since.  The mark alone is not inductive: the
\* failure of any handshake of the key takes it away.
Discarded(c) == conn[c] \in {"ending", "closed", "failed"}
Traded(c)    == \E d \in Conns \ {c} : conn[d] = "failed"
RevokedInv   ==
    \A c \in revoked : \/ conn[c] \in Pending /\ mark
                       \/ Discarded(c)
                       \/ conn[c] \in Pending \cup {"open"} /\ Traded(c)

\* What has failed stays failed.
LEMMA FailedStays ==
    ASSUME TypeOK, [Next]_vars, NEW d \in Conns, conn[d] = "failed"
    PROVE  conn'[d] = "failed"
BY DEF TypeOK, Next, vars, Acquire, Resume, Arrive, Connect, Join, Borrow, Joined, Woken,
       Release, Ready, Fail, Drop, Close, Closed, Evict, IdleFires, EvictEntry, Pooled,
       Expected, Pending, map

LEMMA StepKeepsRevoked ==
    ASSUME TypeOK, TypeOK', RevokedInv, [Next]_vars
    PROVE  RevokedInv'
<1> USE DEF map, past
<1>1. \A c \in Conns : Traded(c) => Traded(c)'
    BY FailedStays DEF Traded
<1>2. conn \in [Conns -> Standing] /\ revoked \in SUBSET Conns
    BY DEF TypeOK
<1>3. CASE UNCHANGED <<conn, mark, revoked>>
    BY <1>1, <1>2, <1>3 DEF RevokedInv, Discarded
<1>4. ASSUME NEW b \in Borrowers, Connect(b)
      PROVE  RevokedInv'
    <2>1. PICK c \in Conns, fate \in Pending :
             conn[c] = "new" /\ conn' = [conn EXCEPT ![c] = fate]
        BY <1>4 DEF Connect
    <2>2. UNCHANGED <<mark, revoked>>
        BY <1>4 DEF Connect
    <2>3. QED
        BY <1>1, <1>2, <2>1, <2>2 DEF RevokedInv, Discarded, Pending
<1>5. ASSUME NEW c \in Conns, Ready(c)
      PROVE  RevokedInv'
    BY <1>1, <1>2, <1>5 DEF Ready, RevokedInv, Discarded, Pending
<1>6. ASSUME NEW c \in Conns, Fail(c)
      PROVE  RevokedInv'
    <2>1. conn' = [conn EXCEPT ![c] = "failed"] /\ revoked' = revoked
        BY <1>6 DEF Fail
    <2>2. ASSUME NEW d \in revoked, d # c PROVE Traded(d)'
        BY <1>2, <2>1, <2>2 DEF Traded
    <2>3. QED
        BY <1>2, <2>1, <2>2 DEF RevokedInv, Discarded
<1>7. ASSUME NEW c \in Conns, Closed(c)
      PROVE  RevokedInv'
    BY <1>1, <1>2, <1>7 DEF Closed, RevokedInv, Discarded
<1>8. CASE Evict \/ IdleFires
    <2>1. \/ UNCHANGED <<conn, mark, revoked>>
          \/ \E c \in Expected : mark' = TRUE /\ revoked' = revoked \cup {c} /\ UNCHANGED conn
          \/ \E c \in Pooled : conn' = [conn EXCEPT ![c] = "ending"] /\ UNCHANGED <<mark, revoked>>
        BY <1>8 DEF Evict, IdleFires, EvictEntry
    <2>2. ASSUME NEW c \in Expected, mark' = TRUE, revoked' = revoked \cup {c}, conn' = conn
          PROVE  RevokedInv'
        BY <1>1, <1>2, <2>2 DEF RevokedInv, Discarded, Expected
    <2>3. ASSUME NEW c \in Pooled, conn' = [conn EXCEPT ![c] = "ending"],
                 UNCHANGED <<mark, revoked>>
          PROVE  RevokedInv'
        BY <1>1, <1>2, <2>3 DEF RevokedInv, Discarded, Pooled
    <2>4. QED
        BY <1>3, <2>1, <2>2, <2>3
<1>9. QED
    BY <1>3, <1>4, <1>5, <1>6, <1>7, <1>8
       DEF Next, vars, Acquire, Resume, Arrive, Join, Borrow, Joined, Woken, Release, Drop, Close

\* connect: an evicted handshake is not pooled when it arrives, unless another
\* handshake of the key failed meanwhile and took the mark with it.
THEOREM RevokedAlways == Spec => []RevokedIsTraded
<1>1. Init => RevokedInv
    BY DEF Init, RevokedInv
<1>2. TypeOK /\ TypeOK' /\ RevokedInv /\ [Next]_vars => RevokedInv'
    BY StepKeepsRevoked
<1>3. TypeOK /\ RevokedInv => RevokedIsTraded
    BY DEF TypeOK, RevokedInv, RevokedIsTraded, Discarded, Traded, Pending
<1>4. QED
    BY <1>1, <1>2, <1>3, PoolTypes, PTL DEF Spec
=============================================================================
