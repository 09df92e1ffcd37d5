----------------------------- MODULE HostProofs -----------------------------
(* Theorems about what is kept of one host and what is made to happen on    *)
(* it: SshCalls, AuditTrail, SudoWindows and Deploy, for any calls,         *)
(* requests, sessions, hosts and bounds; HostKeys, HostEdits and            *)
(* HostReadings, for any keys, connections, paths, edits and readers; and   *)
(* what follows for all that stands side by side in MCHosts.                *)
EXTENDS MCHosts, FiniteSetTheorems, TLAPS

-----------------------------------------------------------------------------
(* The calls of a connection.                                              *)

\* A lease is held from the moment a call has its slot until it is settled.
CallInv ==
    /\ kind \in [Commands -> CallKinds]
    /\ at \in [Commands -> {"idle", "acquire", "open", "run", "over"}]
    /\ channel \in [Commands -> {"none", "asked", "open", "closed"}]
    /\ told \in [Commands -> {"none", "done", "failed"}]
    /\ deaf \subseteq aborted /\ stopping \subseteq {c \in Commands : kind[c] = "stream"}
    /\ held = {c \in Commands : at[c] \in {"open", "run"}}
    /\ Cardinality(held) <= Slots
    /\ DoneHasExited

LEMMA LeaseSets ==
    ASSUME NEW S \in SUBSET Commands
    PROVE  /\ Cardinality(S) \in Nat /\ Slots \in Nat
           /\ \A c \in Commands : Cardinality(S) < Slots => Cardinality(S \cup {c}) <= Slots
           /\ \A T \in SUBSET S : Cardinality(S) <= Slots => Cardinality(T) <= Slots
<1>1. IsFiniteSet(S) /\ Cardinality(S) \in Nat /\ Slots \in Nat
    BY CallAssumption, FS_Subset, FS_CardinalityType
<1>2. ASSUME NEW c \in Commands, Cardinality(S) < Slots PROVE Cardinality(S \cup {c}) <= Slots
    <2>1. Cardinality(S \cup {c}) = IF c \in S THEN Cardinality(S) ELSE Cardinality(S) + 1
        BY <1>1, FS_AddElement
    <2>2. QED
        BY <1>1, <1>2, <2>1
<1>3. ASSUME NEW T \in SUBSET S, Cardinality(S) <= Slots PROVE Cardinality(T) <= Slots
    <2>1. Cardinality(T) <= Cardinality(S) /\ Cardinality(T) \in Nat
        BY <1>1, FS_Subset, FS_CardinalityType
    <2>2. QED
        BY <1>1, <1>3, <2>1
<1>4. QED
    BY <1>1, <1>2, <1>3

\* A step that gives no lease away: each call stays where it is, or is settled.
LEMMA CallSettles ==
    ASSUME CallInv, NEW c \in Commands, NEW a \in {"done", "failed"}, Finish(c, a),
           kind' = kind, deaf' = deaf, aborted' = aborted, stopping' = stopping, exited' = exited,
           channel' \in [Commands -> {"none", "asked", "open", "closed"}],
           kind[c] = "stream" /\ a = "done" => c \in exited \cup stopping
    PROVE  CallInv'
<1>1. CASE at[c] = "over"
    BY <1>1 DEF CallInv, Finish, DoneHasExited
<1>2. CASE at[c] # "over"
    <2>1. /\ at' = [at EXCEPT ![c] = "over"] /\ held' = held \ {c} /\ told' = [told EXCEPT ![c] = a]
        BY <1>2 DEF Finish, MovesTo
    <2>2. held' = {d \in Commands : at'[d] \in {"open", "run"}}
        BY <2>1 DEF CallInv
    <2>3. held \in SUBSET Commands /\ held' \in SUBSET held /\ Cardinality(held) <= Slots
        BY <2>1 DEF CallInv
    <2>4. Cardinality(held') <= Slots
        BY <2>3, LeaseSets
    <2>5. DoneHasExited'
        BY <2>1 DEF CallInv, DoneHasExited
    <2>6. /\ at' \in [Commands -> {"idle", "acquire", "open", "run", "over"}]
          /\ told' \in [Commands -> {"none", "done", "failed"}]
        BY <2>1 DEF CallInv
    <2>7. QED
        BY <2>2, <2>4, <2>5, <2>6 DEF CallInv
<1>3. QED
    BY <1>1, <1>2

\* One step of one call.
LEMMA CallStep ==
    ASSUME CallInv, [CallNext]_sshVars
    PROVE  CallInv'
<1>1. ASSUME NEW c \in Commands, CallBegins(c) PROVE CallInv'
    <2>1. CASE c \in aborted
        BY <1>1, <2>1, CallSettles DEF CallBegins, fixed, CallInv
    <2>2. CASE c \notin aborted
        <3>1. at' = [at EXCEPT ![c] = "acquire"] /\ at[c] = "idle" /\ UNCHANGED <<held, told>>
            BY <1>1, <2>2 DEF CallBegins, MovesTo
        <3>2. held' = {d \in Commands : at'[d] \in {"open", "run"}}
            BY <3>1 DEF CallInv
        <3>3. QED
            BY <1>1, <3>1, <3>2 DEF CallInv, CallBegins, fixed, DoneHasExited
    <2>3. QED
        BY <2>1, <2>2
<1>2. ASSUME NEW c \in Commands, CallLeased(c) PROVE CallInv'
    <2>1. PICK p \in {"open", "run"} : at' = [at EXCEPT ![c] = p]
        BY <1>2 DEF CallLeased, MovesTo
    <2>2. held' = {d \in Commands : at'[d] \in {"open", "run"}}
        BY <1>2, <2>1 DEF CallInv, CallLeased
    <2>3. held \in SUBSET Commands /\ held' = held \cup {c} /\ Cardinality(held) < Slots
        BY <1>2 DEF CallInv, CallLeased
    <2>4. Cardinality(held') <= Slots
        BY <2>3, LeaseSets
    <2>5. channel' \in [Commands -> {"none", "asked", "open", "closed"}]
        BY <1>2 DEF CallInv, CallLeased, Wire
    <2>6. QED
        BY <1>2, <2>1, <2>2, <2>4, <2>5 DEF CallInv, CallLeased, fixed, DoneHasExited
<1>3. ASSUME NEW c \in Commands,
             CallUnleased(c) \/ SftpAnswers(c) \/ FileEnds(c) \/ ChannelFails(c) \/ ChannelCloses(c)
                 \/ TimesOut(c) \/ GracePasses(c)
      PROVE  CallInv'
    <2>1. PICK a \in {"done", "failed"} :
            Finish(c, a) /\ (kind[c] = "stream" /\ a = "done" => c \in exited \cup stopping)
        BY <1>3 DEF CallUnleased, SftpAnswers, FileEnds, ChannelFails, ChannelCloses, TimesOut,
                    GracePasses, ClosedAs, Bounded
    <2>2. /\ UNCHANGED <<kind, deaf, aborted, stopping, exited>>
          /\ channel' \in [Commands -> {"none", "asked", "open", "closed"}]
        BY <1>3 DEF CallUnleased, SftpAnswers, FileEnds, ChannelFails, ChannelCloses, TimesOut,
                    GracePasses, Wire, fixed, CallInv
    <2>3. QED
        BY <2>1, <2>2, CallSettles
<1>4. ASSUME NEW c \in Commands, ChannelOpens(c) PROVE CallInv'
    <2>1. channel' \in [Commands -> {"none", "asked", "open", "closed"}]
        BY <1>4 DEF CallInv, ChannelOpens, Wire
    <2>2. /\ at' \in [Commands -> {"idle", "acquire", "open", "run", "over"}]
          /\ \A d \in Commands : at'[d] \in {"open", "run"} <=> at[d] \in {"open", "run"}
        BY <1>4 DEF CallInv, ChannelOpens, MovesTo
    <2>3. held' = {d \in Commands : at'[d] \in {"open", "run"}}
        BY <1>4, <2>2 DEF CallInv, ChannelOpens
    <2>4. QED
        BY <1>4, <2>1, <2>2, <2>3 DEF CallInv, ChannelOpens, fixed, DoneHasExited
<1>5. ASSUME NEW c \in Commands, CommandExits(c) \/ SignalAborts(c) \/ DeadlinePasses(c) PROVE CallInv'
    <2>1. UNCHANGED <<kind, at, held, channel, told>> /\ exited \subseteq exited' /\ stopping \subseteq stopping'
        BY <1>5 DEF CommandExits, SignalAborts, DeadlinePasses, fixed
    <2>2. deaf' \subseteq aborted' /\ stopping' \subseteq {d \in Commands : kind'[d] = "stream"}
        BY <1>5 DEF CommandExits, SignalAborts, DeadlinePasses, fixed, CallInv
    <2>3. QED
        BY <2>1, <2>2 DEF CallInv, DoneHasExited
<1>6. CASE UNCHANGED sshVars
    BY <1>6 DEF CallInv, sshVars, DoneHasExited
<1>7. QED
    BY <1>1, <1>2, <1>3, <1>4, <1>5, <1>6 DEF CallNext

\* withSftp, exec and the streams: a slot of the connection is held by a call
\* that is under way and by no other, whatever times out, fails or is aborted,
\* and a streamed command that is reported done has exited or was stopped.
THEOREM CallsAlways == CallSpec => [](CallTypeOK /\ LeaseIsOfItsCall /\ DoneHasExited)
<1>1. CallInit => CallInv
    <2> SUFFICES ASSUME CallInit PROVE CallInv
        OBVIOUS
    <2>1. Cardinality({}) = 0 /\ Slots \in Nat
        BY FS_EmptySet, CallAssumption
    <2>2. held = {c \in Commands : at[c] \in {"open", "run"}} /\ Cardinality(held) <= Slots
        BY <2>1 DEF CallInit
    <2>3. QED
        BY <2>2 DEF CallInit, CallInv, DoneHasExited
<1>2. CallInv /\ [CallNext]_sshVars => CallInv'
    BY CallStep
<1>3. CallInv => CallTypeOK /\ LeaseIsOfItsCall /\ DoneHasExited
    BY DEF CallInv, CallTypeOK, LeaseIsOfItsCall
<1>4. QED
    BY <1>1, <1>2, <1>3, PTL DEF CallSpec

-----------------------------------------------------------------------------
(* The limit and the audit trail.                                          *)

\* What stands where: before its row, under it, answered, lost.
TrailInv ==
    /\ call \in [Calls -> [at : {"new", "count", "expire", "ttl", "open", "refuse", "handler",
                                 "success", "failure", "refused", "over", "lost"}, count : Nat]]
    /\ counter \in [n : Nat, ttl : BOOLEAN] /\ (counter.ttl => counter.n > 0)
    /\ broken \in 0 .. MaxBroken /\ crashes \in 0 .. MaxCrashes
    /\ answer \in [Calls -> {"none", "success", "failure", "refused", "429", "503"}]
    /\ trail \in [Calls -> {"none", "pending", "success", "failure", "refused"}]
    /\ did \subseteq Calls /\ allowed \subseteq Calls
    /\ \A c \in Calls :
        /\ call[c].at \in {"new", "count", "expire", "ttl", "open", "refuse"} =>
              answer[c] = "none" /\ trail[c] = "none" /\ c \notin did
        /\ call[c].at \in {"handler", "success", "failure", "refused"} =>
              answer[c] = "none" /\ trail[c] = "pending"
        /\ call[c].at = "lost" => answer[c] = "none"
        /\ call[c].at = "over" /\ c \notin unsettled =>
              trail[c] # "pending" /\ (answer[c] \in {"success", "failure", "refused"} => trail[c] = answer[c])
        /\ c \in did => trail[c] # "none"

\* The counter against the requests it has counted, and those it lets through
\* with the one that is to give it an expiry.
Past    == {c \in Calls : call[c].at \notin {"new", "count"}}
Creates == {c \in Calls : call[c].at = "expire"}
CountInv ==
    /\ counter.n <= Cardinality(Past)
    /\ \A c \in Calls : call[c].count <= Cardinality(Calls)
    /\ \A c, d \in Creates : c = d
    /\ \A c \in Creates : call[c].count = 1 /\ ~counter.ttl /\ counter.n > 0
    /\ \A c \in allowed : call[c].at \notin {"new", "count", "expire", "ttl", "refuse"}
    /\ Cardinality(allowed \cup Creates) <= counter.n
    /\ Cardinality(allowed \cup Creates) <= MaxUses

LEMMA CallSets ==
    ASSUME NEW S \in SUBSET Calls
    PROVE  /\ Cardinality(S) \in Nat /\ Cardinality(S) <= Cardinality(Calls) /\ Cardinality(Calls) \in Nat
           /\ \A T \in SUBSET S : Cardinality(T) <= Cardinality(S) /\ Cardinality(T) \in Nat
           /\ \A c \in Calls : Cardinality(S \cup {c}) = IF c \in S THEN Cardinality(S) ELSE Cardinality(S) + 1
<1>1. IsFiniteSet(Calls) /\ IsFiniteSet(S)
    BY TrailAssumption, FS_Subset
<1>2. Cardinality(S) \in Nat /\ Cardinality(Calls) \in Nat /\ Cardinality(S) <= Cardinality(Calls)
    BY <1>1, FS_Subset, FS_CardinalityType
<1>3. ASSUME NEW T \in SUBSET S PROVE Cardinality(T) <= Cardinality(S) /\ Cardinality(T) \in Nat
    BY <1>1, FS_Subset, FS_CardinalityType
<1>4. ASSUME NEW c \in Calls
      PROVE  Cardinality(S \cup {c}) = IF c \in S THEN Cardinality(S) ELSE Cardinality(S) + 1
    BY <1>1, FS_AddElement
<1>5. QED
    BY <1>2, <1>3, <1>4

\* One step of one request, or of the process, against its row.
LEMMA TrailRows ==
    ASSUME TrailInv, [TrailNext]_trailVars
    PROVE  TrailInv'
<1> USE TrailAssumption
<1>1. ASSUME NEW c \in Calls, CallArrives(c) PROVE TrailInv'
    BY <1>1 DEF TrailInv, CallArrives, Goes
<1>2. ASSUME NEW c \in Calls, Counted(c) PROVE TrailInv'
    BY <1>2 DEF TrailInv, Counted, LimitVerdict
<1>3. ASSUME NEW c \in Calls, Expires(c) PROVE TrailInv'
    BY <1>3 DEF TrailInv, Expires, LimitVerdict
<1>4. ASSUME NEW c \in Calls, LimitFails(c) PROVE TrailInv'
    BY <1>4 DEF TrailInv, LimitFails, Goes, Breaks
<1>5. ASSUME NEW c \in Calls, LimitTells(c) PROVE TrailInv'
    BY <1>5 DEF TrailInv, LimitTells, Goes
<1>6. ASSUME NEW c \in Calls, TrailRefuses(c) PROVE TrailInv'
    BY <1>6 DEF TrailInv, TrailRefuses, Says, Goes, Rows, Breaks
<1>7. ASSUME NEW c \in Calls, TrailOpens(c) PROVE TrailInv'
    BY <1>7 DEF TrailInv, TrailOpens, Says, Goes, Rows, Breaks
<1>8. ASSUME NEW c \in Calls, Handled(c) PROVE TrailInv'
    BY <1>8 DEF TrailInv, Handled, Goes
<1>9. ASSUME NEW c \in Calls, TrailSettles(c) PROVE TrailInv'
    BY <1>9 DEF TrailInv, TrailSettles, Says, Goes, Rows, Breaks
<1>10. CASE WindowRolls
    BY <1>10 DEF TrailInv, WindowRolls
<1>11. CASE TrailCrash
    <2>1. call' \in [Calls -> [at : {"new", "count", "expire", "ttl", "open", "refuse", "handler",
                                     "success", "failure", "refused", "over", "lost"}, count : Nat]]
        BY <1>11 DEF TrailInv, TrailCrash, InFlight
    <2>2. \A c \in Calls : call'[c].at = IF call[c].at \in {"new", "over", "lost"} THEN call[c].at ELSE "lost"
        BY <1>11 DEF TrailInv, TrailCrash, InFlight
    <2>3. did' \subseteq Calls /\ \A c \in did' : c \in did \/ call[c].at = "handler"
        BY <1>11 DEF TrailInv, TrailCrash
    <2>4. QED
        BY <1>11, <2>1, <2>2, <2>3 DEF TrailInv, TrailCrash
<1>12. CASE UNCHANGED trailVars
    BY <1>12 DEF TrailInv, trailVars
<1>13. QED
    BY <1>1, <1>2, <1>3, <1>4, <1>5, <1>6, <1>7, <1>8, <1>9, <1>10, <1>11, <1>12 DEF TrailNext, TrailStep

\* A step that counts nothing and lets nobody through.
LEMMA CountStays ==
    ASSUME TrailInv, CountInv, TrailInv', counter' = counter, allowed' = allowed,
           Past \subseteq Past', Creates' \subseteq Creates, Creates \in SUBSET Calls,
           \A c \in Calls : call'[c].count = call[c].count,
           \A c \in allowed : call'[c].at \notin {"new", "count", "expire", "ttl", "refuse"}
    PROVE  CountInv'
<1>1. Past' \in SUBSET Calls /\ allowed \cup Creates \in SUBSET Calls
    BY DEF Past, TrailInv
<1>2. Cardinality(Past) <= Cardinality(Past') /\ Cardinality(Past) \in Nat /\ Cardinality(Past') \in Nat
    BY <1>1, CallSets
<1>3. /\ Cardinality(allowed' \cup Creates') <= Cardinality(allowed \cup Creates)
      /\ Cardinality(allowed' \cup Creates') \in Nat /\ Cardinality(allowed \cup Creates) \in Nat
    BY <1>1, CallSets
<1>4. counter'.n <= Cardinality(Past')
    BY <1>2 DEF CountInv, TrailInv
<1>5. Cardinality(allowed' \cup Creates') <= counter'.n /\ Cardinality(allowed' \cup Creates') <= MaxUses
    BY <1>3, TrailAssumption DEF CountInv, TrailInv
<1>6. /\ \A c, d \in Creates' : c = d
      /\ \A c \in Creates' : call'[c].count = 1 /\ ~counter'.ttl /\ counter'.n > 0
    BY DEF CountInv
<1>7. QED
    BY <1>4, <1>5, <1>6 DEF CountInv

\* incrBy: one more is past the count, and it is one that is let through, or one
\* that is to give the key its expiry, only while there is room.
LEMMA CountCounts ==
    ASSUME TrailInv, CountInv, TrailInv', NEW c \in Calls, Counted(c)
    PROVE  CountInv'
<1> DEFINE A == allowed \cup Creates
           n == counter.n + 1
<1>1. counter' = [counter EXCEPT !.n = n] /\ n \in Nat /\ counter'.n = n /\ counter'.ttl = counter.ttl /\ c \notin Past
    BY DEF Counted, TrailInv, Past
<1>2. call' = [call EXCEPT ![c] = [at |-> IF n = 1 THEN "expire" ELSE IF n <= MaxUses THEN "open" ELSE "ttl",
                                   count |-> n]]
      /\ allowed' = IF n # 1 /\ n <= MaxUses THEN allowed \cup {c} ELSE allowed
    BY <1>1 DEF Counted, LimitVerdict
<1>3. Past' = Past \cup {c} /\ Creates' = IF n = 1 THEN Creates \cup {c} ELSE Creates
    BY <1>2 DEF Past, Creates, Counted, TrailInv
<1>4. Past \in SUBSET Calls /\ Past' \in SUBSET Calls /\ A \in SUBSET Calls
    BY DEF Past, Creates, TrailInv
<1>5. n <= Cardinality(Past') /\ n <= Cardinality(Calls)
    <2>1. Cardinality(Past') = Cardinality(Past) + 1 /\ Cardinality(Past) \in Nat
        BY <1>1, <1>3, <1>4, CallSets
    <2>2. Cardinality(Past') <= Cardinality(Calls) /\ Cardinality(Calls) \in Nat
        BY <1>4, CallSets
    <2>3. counter.n <= Cardinality(Past) /\ counter.n \in Nat
        BY DEF CountInv, TrailInv
    <2>4. QED
        BY <2>1, <2>2, <2>3
<1>6. Cardinality(allowed' \cup Creates') <= n /\ Cardinality(allowed' \cup Creates') <= MaxUses
    <2>1. Cardinality(A) \in Nat /\ Cardinality(A) <= counter.n /\ Cardinality(A) <= MaxUses /\ counter.n \in Nat
        BY <1>4, CallSets DEF CountInv, TrailInv
    <2>2. Cardinality(A \cup {c}) = Cardinality(A) \/ Cardinality(A \cup {c}) = Cardinality(A) + 1
        BY <1>4, CallSets
    <2>3. allowed' \cup Creates' = IF n <= MaxUses \/ n = 1 THEN A \cup {c} ELSE A
        BY <1>2, <1>3
    <2>4. QED
        <3>1. MaxUses \in Nat /\ MaxUses >= 1 /\ n = counter.n + 1
            BY TrailAssumption
        <3>2. CASE n <= MaxUses \/ n = 1
            <4>1. Cardinality(allowed' \cup Creates') <= Cardinality(A) + 1
                BY <2>1, <2>2, <2>3, <3>2
            <4>2. allowed' \cup Creates' \in SUBSET Calls
                BY <1>4, <2>3, <3>2
            <4>3. Cardinality(allowed' \cup Creates') \in Nat
                BY <4>2, CallSets
            <4> HIDE DEF A, n
            <4>4. QED
                BY <2>1, <3>1, <3>2, <4>1, <4>3
        <3>3. CASE ~(n <= MaxUses \/ n = 1)
            <4>1. allowed' \cup Creates' = A
                BY <2>3, <3>3
            <4> HIDE DEF A, n
            <4>2. QED
                BY <2>1, <3>1, <4>1
        <3>4. QED
            BY <3>2, <3>3
<1>7. \A d \in Calls : call'[d].count <= Cardinality(Calls)
    BY <1>2, <1>5 DEF CountInv, TrailInv
<1>8. counter.n = 0 => Creates = {} /\ ~counter.ttl
    BY DEF CountInv, TrailInv
<1>9. /\ \A d, e \in Creates' : d = e
      /\ \A d \in Creates' : call'[d].count = 1 /\ ~counter'.ttl /\ counter'.n > 0
    <2>1. CASE n = 1
        <3>1. counter.n = 0
            <4>1. counter.n \in Nat
                BY DEF TrailInv
            <4>2. QED
                BY <2>1, <4>1
        <3>2. Creates' = {c} /\ ~counter'.ttl /\ counter'.n = 1
            BY <1>1, <1>3, <1>8, <2>1, <3>1
        <3>3. QED
            BY <1>2, <2>1, <3>2 DEF TrailInv
    <2>2. CASE n # 1
        BY <1>1, <1>2, <1>3, <2>2 DEF CountInv, TrailInv, Creates, Counted
    <2>3. QED
        BY <2>1, <2>2
<1>10. \A d \in allowed' : call'[d].at \notin {"new", "count", "expire", "ttl", "refuse"}
    BY <1>2 DEF CountInv, TrailInv, Counted
<1>11. QED
    BY <1>1, <1>5, <1>6, <1>7, <1>9, <1>10 DEF CountInv

\* The expiry is given while nobody else is to give it, and who gave it is let
\* through.
LEMMA CountExpires ==
    ASSUME TrailInv, CountInv, TrailInv', NEW c \in Calls, Expires(c)
    PROVE  CountInv'
<1>1. c \in Creates /\ call[c].count = 1 /\ 1 <= MaxUses
    BY TrailAssumption DEF Expires, Creates, CountInv
<1>2. call' = [call EXCEPT ![c] = [at |-> "open", count |-> 1]] /\ allowed' = allowed \cup {c}
    BY <1>1 DEF Expires, LimitVerdict
<1>3. Past' = Past /\ Creates' = {} /\ Creates = {c}
    BY <1>1, <1>2 DEF Past, Creates, CountInv, TrailInv
<1>4. allowed' \cup Creates' = allowed \cup Creates /\ counter'.n = counter.n
    BY <1>2, <1>3 DEF Expires, TrailInv
<1>5. \A d \in Calls : call'[d].count = call[d].count
    BY <1>1, <1>2 DEF TrailInv
<1>6. \A d \in allowed' : call'[d].at \notin {"new", "count", "expire", "ttl", "refuse"}
    BY <1>2 DEF CountInv, TrailInv
<1>7. QED
    BY <1>3, <1>4, <1>5, <1>6 DEF CountInv

LEMMA TrailCounts ==
    ASSUME TrailInv, CountInv, [TrailNext]_trailVars
    PROVE  CountInv'
<1>0. TrailInv' /\ Creates \in SUBSET Calls
    BY TrailRows DEF Creates
<1>1. ASSUME NEW c \in Calls,
             CallArrives(c) \/ LimitFails(c) \/ LimitTells(c) \/ TrailRefuses(c) \/ TrailOpens(c)
                 \/ Handled(c) \/ TrailSettles(c)
      PROVE  CountInv'
    <2>1. counter' = counter /\ allowed' = allowed
        BY <1>1 DEF CallArrives, LimitFails, LimitTells, TrailRefuses, TrailOpens, Handled, TrailSettles
    <2>2. PICK p : call' = [call EXCEPT ![c].at = p]
        BY <1>1 DEF CallArrives, LimitFails, LimitTells, TrailRefuses, TrailOpens, Handled, TrailSettles, Goes, Says
    <2>3. /\ call[c].at \notin {"new", "count"} => p \notin {"new", "count"}
          /\ p # "expire" /\ (c \in allowed => p \notin {"new", "count", "expire", "ttl", "refuse"})
        BY <1>1, <2>2 DEF CallArrives, LimitFails, LimitTells, TrailRefuses, TrailOpens, Handled, TrailSettles,
                          Goes, Says, CountInv, TrailInv
    <2>4. Past \subseteq Past' /\ Creates' \subseteq Creates
        BY <2>2, <2>3 DEF Past, Creates, TrailInv
    <2>5. \A d \in Calls : call'[d].count = call[d].count
        BY <2>2 DEF TrailInv
    <2>6. \A d \in allowed : call'[d].at \notin {"new", "count", "expire", "ttl", "refuse"}
        BY <2>2, <2>3 DEF TrailInv, CountInv
    <2>7. QED
        BY <1>0, <2>1, <2>4, <2>5, <2>6, CountStays
<1>2. ASSUME NEW c \in Calls, Counted(c) PROVE CountInv'
    BY <1>0, <1>2, CountCounts
<1>3. ASSUME NEW c \in Calls, Expires(c) PROVE CountInv'
    BY <1>0, <1>3, CountExpires
<1>4. CASE WindowRolls
    <2>1. Creates' = {} /\ Past' = Past /\ call' = call /\ counter'.n = 0 /\ allowed' = {}
        BY <1>4 DEF WindowRolls, CountInv, Creates, Past
    <2>2. Cardinality({}) = 0 /\ Cardinality(Past) \in Nat /\ Past \in SUBSET Calls
        BY FS_EmptySet, CallSets DEF Past
    <2>3. QED
        BY <2>1, <2>2, TrailAssumption DEF CountInv
<1>5. CASE TrailCrash
    <2>1. \A c \in Calls : /\ call'[c].at = IF call[c].at \in {"new", "over", "lost"} THEN call[c].at ELSE "lost"
                           /\ call'[c].count = call[c].count
        BY <1>5 DEF TrailInv, TrailCrash, InFlight
    <2>2. Past \subseteq Past' /\ Creates' \subseteq Creates
        BY <2>1 DEF Past, Creates
    <2>3. \A c \in allowed : call'[c].at \notin {"new", "count", "expire", "ttl", "refuse"}
        BY <2>1 DEF TrailInv, CountInv
    <2>4. QED
        BY <1>0, <1>5, <2>1, <2>2, <2>3, CountStays DEF TrailCrash
<1>6. CASE UNCHANGED trailVars
    BY <1>6 DEF CountInv, Past, Creates, trailVars
<1>7. QED
    BY <1>1, <1>2, <1>3, <1>4, <1>5, <1>6 DEF TrailNext, TrailStep

\* AuditInterceptor and RateLimitService: whatever changed something has a row,
\* what a client was told is what the row says, a pending row is of a request
\* that did not finish, unless the settle failed; and no window lets through
\* more than the rule, however the requests interleave, Redis fails or the
\* process ends.
THEOREM TrailAlways ==
    TrailSpec => [](TrailTypeOK /\ ChangeIsRecorded /\ ToldIsRecorded /\ PendingIsUnfinished /\ LimitHolds)
<1>1. TrailInit => TrailInv /\ CountInv
    <2> SUFFICES ASSUME TrailInit PROVE TrailInv /\ CountInv
        OBVIOUS
    <2>1. TrailInv
        BY TrailAssumption DEF TrailInit, TrailInv
    <2>2. Past = {} /\ Creates = {} /\ allowed = {}
        BY DEF TrailInit, Past, Creates
    <2>3. Cardinality({}) = 0 /\ Cardinality(Calls) \in Nat
        BY FS_EmptySet, CallSets
    <2>4. CountInv
        BY <2>2, <2>3, TrailAssumption DEF TrailInit, CountInv
    <2>5. QED
        BY <2>1, <2>4
<1>2. TrailInv /\ CountInv /\ [TrailNext]_trailVars => (TrailInv /\ CountInv)'
    BY TrailRows, TrailCounts
<1>3. TrailInv /\ CountInv =>
          TrailTypeOK /\ ChangeIsRecorded /\ ToldIsRecorded /\ PendingIsUnfinished /\ LimitHolds
    <2> SUFFICES ASSUME TrailInv, CountInv
                 PROVE  TrailTypeOK /\ ChangeIsRecorded /\ ToldIsRecorded /\ PendingIsUnfinished /\ LimitHolds
        OBVIOUS
    <2>1. Past \in SUBSET Calls /\ allowed \cup Creates \in SUBSET Calls /\ allowed \in SUBSET (allowed \cup Creates)
        BY DEF Past, Creates, TrailInv
    <2>2. Cardinality(Past) <= Cardinality(Calls) /\ Cardinality(Past) \in Nat /\ Cardinality(Calls) \in Nat
        BY <2>1, CallSets
    <2>3. counter.n \in 0 .. Cardinality(Calls) /\ \A c \in Calls : call[c].count \in 0 .. Cardinality(Calls)
        BY <2>2 DEF CountInv, TrailInv
    <2>4. TrailTypeOK
        BY <2>3 DEF TrailTypeOK, TrailInv
    <2>5. ChangeIsRecorded /\ ToldIsRecorded /\ PendingIsUnfinished
        BY DEF ChangeIsRecorded, ToldIsRecorded, PendingIsUnfinished, TrailInv, InFlight
    <2>6. Cardinality(allowed) <= Cardinality(allowed \cup Creates) /\ Cardinality(allowed) \in Nat
          /\ Cardinality(allowed \cup Creates) \in Nat
        BY <2>1, CallSets
    <2>7. LimitHolds
        BY <2>6, TrailAssumption DEF LimitHolds, CountInv
    <2>8. QED
        BY <2>4, <2>5, <2>7
<1>4. QED
    BY <1>1, <1>2, <1>3, PTL DEF TrailSpec

-----------------------------------------------------------------------------
(* The sudo windows.                                                       *)

\* Every window is within its length, and but for those that a race or a design
\* leaves behind it is of a session that is there and is not being ended.
SudoInv ==
    /\ now \in 0 .. MaxTime /\ windows \in [Held -> Nat] /\ Held \subseteq Sids \X SudoHosts
    /\ given \subseteq Sids /\ alive \subseteq given /\ leaving \subseteq given /\ left \subseteq Sids \X SudoHosts
    /\ ask \in [Asks -> [at : {"idle", "probe", "drop", "refused", "wait", "root", "chmod"},
                         sid : Sids \cup {Nobody}, host : SudoHosts \cup {Nobody}]]
    /\ \A a \in Asks : ask[a].at # "idle" => ask[a].sid \in Sids /\ ask[a].host \in SudoHosts
    /\ signIn \in [at : {"idle", "sweep", "recover", "regenerate"}, found : SUBSET given, own : given \cup {Nobody}]
    /\ signIn.at \in {"sweep", "recover"} => signIn.own \in signIn.found \cup {Nobody}
    /\ \A k \in Held : windows[k] <= now + Length
    /\ \A k \in Held \ left : k[1] \in alive \ leaving

LEMMA SudoNats ==
    /\ Length \in Nat /\ MaxTime \in Nat
    /\ \A n \in 0 .. MaxTime : n \in Nat /\ n + Length \in Nat
    /\ SudoInv => now \in Nat /\ now + Length \in Nat /\ now \in 0 .. MaxTime /\ now >= now
<1>1. Length \in Nat /\ MaxTime \in Nat
    BY SudoAssumption
<1>2. \A n \in 0 .. MaxTime : n \in Nat /\ n + Length \in Nat
    BY <1>1
<1>3. ASSUME SudoInv PROVE now \in Nat /\ now + Length \in Nat /\ now \in 0 .. MaxTime /\ now >= now
    <2>1. now \in 0 .. MaxTime
        BY <1>3 DEF SudoInv
    <2>2. now \in Nat
        BY <1>2, <2>1
    <2>3. QED
        BY <1>1, <2>1, <2>2
<1>4. QED
    BY <1>1, <1>2, <1>3

LEMMA WithoutSome ==
    ASSUME SudoInv, NEW ks, windows' = windows \/ windows' = Without(ks)
    PROVE  /\ Held' \subseteq Held /\ windows' \in [Held' -> Nat]
           /\ \A k \in Held' : windows'[k] = windows[k]
           /\ windows' = Without(ks) => Held' = Held \ ks
BY DEF SudoInv, Without, Held

\* A step that opens no window: each of those there are was there, as it was.
LEMMA WindowsShrink ==
    ASSUME SudoInv, Held' \subseteq Held, \A k \in Held' : windows'[k] = windows[k],
           windows' \in [Held' -> Nat],
           now' \in 0 .. MaxTime, now' >= now, given \subseteq given', given' \subseteq Sids,
           alive' \subseteq given', leaving' \subseteq given',
           left \subseteq left', left' \subseteq Sids \X SudoHosts,
           ask' \in [Asks -> [at : {"idle", "probe", "drop", "refused", "wait", "root", "chmod"},
                              sid : Sids \cup {Nobody}, host : SudoHosts \cup {Nobody}]],
           \A a \in Asks : ask'[a].at # "idle" => ask'[a].sid \in Sids /\ ask'[a].host \in SudoHosts,
           signIn' \in [at : {"idle", "sweep", "recover", "regenerate"}, found : SUBSET given', own : given' \cup {Nobody}],
           signIn'.at \in {"sweep", "recover"} => signIn'.own \in signIn'.found \cup {Nobody},
           \A k \in Held' \ left' : k[1] \in alive' \ leaving'
    PROVE  SudoInv'
<1>1. \A k \in Held' : windows'[k] \in Nat /\ windows'[k] <= now + Length
    BY DEF SudoInv
<1>3. now \in Nat /\ now' \in Nat /\ Length \in Nat
    BY SudoNats
<1>4. \A k \in Held' : windows'[k] <= now' + Length
    <2>1. ASSUME NEW k \in Held' PROVE windows'[k] <= now' + Length
        <3>1. windows'[k] \in Nat /\ windows'[k] <= now + Length
            BY <1>1
        <3>2. QED
            BY <1>3, <3>1
    <2>2. QED
        BY <2>1
<1>5. QED
    BY <1>4 DEF SudoInv

\* A step that changes no window, no session and no sign-in.
LEMMA AskMoves ==
    ASSUME SudoInv, UNCHANGED <<now, alive, given, leaving, signIn, left>>, NEW ks,
           windows' = windows \/ windows' = Without(ks),
           ask' \in [Asks -> [at : {"idle", "probe", "drop", "refused", "wait", "root", "chmod"},
                              sid : Sids \cup {Nobody}, host : SudoHosts \cup {Nobody}]],
           \A a \in Asks : ask'[a].at # "idle" => ask'[a].sid \in Sids /\ ask'[a].host \in SudoHosts
    PROVE  SudoInv'
<1>1. Held' \subseteq Held /\ (\A k \in Held' : windows'[k] = windows[k]) /\ windows' \in [Held' -> Nat]
    BY WithoutSome
<1>2. QED
    BY <1>1, WindowsShrink, SudoNats DEF SudoInv

LEMMA SudoStep ==
    ASSUME SudoInv, [SudoNext]_sudoVars
    PROVE  SudoInv'
<1> DEFINE AskSet == [at : {"idle", "probe", "drop", "refused", "wait", "root", "chmod"},
                      sid : Sids \cup {Nobody}, host : SudoHosts \cup {Nobody}]
           AskFits(x) == x.at # "idle" => x.sid \in Sids /\ x.host \in SudoHosts
<1>0. NoAsk \in AskSet /\ AskFits(NoAsk)
    BY DEF NoAsk
<1>1. ASSUME NEW a \in Asks, SudoAsked(a) PROVE SudoInv'
    <2>1. PICK s \in alive, h \in SudoHosts, p \in {"probe", "drop", "refused"} :
            ask' = [ask EXCEPT ![a] = [at |-> p, sid |-> s, host |-> h]]
        BY <1>1 DEF SudoAsked
    <2>2. [at |-> p, sid |-> s, host |-> h] \in AskSet /\ AskFits([at |-> p, sid |-> s, host |-> h])
        BY DEF SudoInv
    <2>3. ask' \in [Asks -> AskSet] /\ \A b \in Asks : AskFits(ask'[b])
        BY <2>1, <2>2 DEF SudoInv
    <2>4. UNCHANGED <<now, alive, given, leaving, signIn, left>> /\ windows' = windows
        BY <1>1 DEF SudoAsked
    <2>5. QED
        BY <2>3, <2>4, AskMoves
<1>2. ASSUME NEW a \in Asks, SudoOpened(a) PROVE SudoInv'
    <2>1. ask' = [ask EXCEPT ![a] = NoAsk] /\ UNCHANGED <<now, alive, given, leaving, signIn>>
          /\ Key(a) \in Sids \X SudoHosts /\ Key(a)[1] = ask[a].sid
        BY <1>2 DEF SudoOpened, SudoInv, Key
    <2>2. ask' \in [Asks -> AskSet] /\ \A b \in Asks : AskFits(ask'[b])
        BY <1>0, <2>1 DEF SudoInv
    <2>3. now + Length \in Nat
        BY SudoNats
    <2>4. /\ Held' = Held \cup {Key(a)} /\ windows' \in [Held' -> Nat]
          /\ \A k \in Held' : windows'[k] = IF k = Key(a) THEN now + Length ELSE windows[k]
        BY <1>2, <2>3 DEF SudoOpened, SudoInv, RunsOut, Held
    <2>5. \A k \in Held' : windows'[k] <= now' + Length
        <3>1. now' = now /\ \A k \in Held : windows[k] <= now + Length
            BY <2>1 DEF SudoInv
        <3>2. QED
            BY <2>3, <2>4, <3>1
    <2>6. left' = IF ask[a].sid \in alive \ leaving THEN left ELSE left \cup {Key(a)}
        BY <1>2 DEF SudoOpened
    <2>7. \A k \in Held' \ left' : k[1] \in alive' \ leaving'
        BY <2>1, <2>4, <2>6 DEF SudoInv
    <2>8. Held' \subseteq Sids \X SudoHosts /\ left' \subseteq Sids \X SudoHosts
        BY <2>1, <2>4, <2>6 DEF SudoInv
    <2>9. QED
        BY <2>1, <2>2, <2>4, <2>5, <2>7, <2>8 DEF SudoInv
<1>3. ASSUME NEW a \in Asks, SudoRefused(a) \/ SudoDropped(a) \/ SudoRuns(a) \/ SudoStarts(a) \/ SudoRan(a)
      PROVE  SudoInv'
    <2>1. UNCHANGED <<now, alive, given, leaving, signIn, left>>
        BY <1>3 DEF SudoRefused, SudoDropped, SudoRuns, SudoStarts, SudoRan
    <2>2. windows' = windows \/ windows' = Without({Key(a)})
        BY <1>3 DEF SudoRefused, SudoDropped, SudoRuns, SudoStarts, SudoRan
    <2>3. PICK x \in {NoAsk, [ask[a] EXCEPT !.at = "wait"], [ask[a] EXCEPT !.at = "root"], [ask[a] EXCEPT !.at = "chmod"]} : ask' = [ask EXCEPT ![a] = x]
        BY <1>3 DEF SudoRefused, SudoDropped, SudoRuns, SudoStarts, SudoRan
    <2>4. ask[a].at # "idle" /\ ask[a] \in AskSet /\ AskFits(ask[a])
        BY <1>3 DEF SudoRefused, SudoDropped, SudoRuns, SudoStarts, SudoRan, SudoInv
    <2>5. x \in AskSet /\ AskFits(x)
        BY <1>0, <2>4
    <2>6. ask' \in [Asks -> AskSet] /\ \A b \in Asks : AskFits(ask'[b])
        BY <2>3, <2>5 DEF SudoInv
    <2>7. QED
        BY <2>1, <2>2, <2>6, AskMoves
<1>4. CASE SudoSweeps \/ SudoErases
    <2>1. PICK ks : windows' = Without(ks)
        BY <1>4 DEF SudoSweeps, SudoErases
    <2>2. UNCHANGED <<now, alive, given, leaving, signIn, left, ask>>
        BY <1>4 DEF SudoSweeps, SudoErases
    <2>3. QED
        BY <2>1, <2>2, AskMoves DEF SudoInv
<1>5. CASE SudoTick
    <2>1. /\ UNCHANGED <<windows, alive, given, ask, leaving, signIn, left>> /\ Held' = Held
          /\ windows \in [Held -> Nat]
        BY <1>5 DEF SudoTick, Held, SudoInv
    <2>2. now' \in 0 .. MaxTime /\ now' >= now
        <3>1. now \in Nat /\ MaxTime \in Nat /\ now < MaxTime /\ now' = now + 1
            BY <1>5, SudoNats DEF SudoTick
        <3>2. QED
            BY <3>1
    <2>3. QED
        BY <2>1, <2>2, WindowsShrink DEF SudoInv
<1>6. CASE SudoRestart
    <2>1. Held' = {} /\ windows' = [k \in {} |-> 0]
        BY <1>6 DEF SudoRestart, Held
    <2>2. ask' \in [Asks -> AskSet] /\ \A b \in Asks : AskFits(ask'[b])
        BY <1>0, <1>6 DEF SudoRestart
    <2>3. QED
        BY <1>6, <2>1, <2>2 DEF SudoRestart, SudoInv, NoSignIn
<1>7. CASE SignInAsked
    <2>1. PICK own \in alive \cup {Nobody}, p \in {"sweep", "recover"} : signIn' = [at |-> p, found |-> alive, own |-> own]
        BY <1>7 DEF SignInAsked
    <2>2. UNCHANGED <<now, windows, alive, given, ask, leaving, left>>
        BY <1>7 DEF SignInAsked
    <2>3. QED
        BY <2>1, <2>2 DEF SudoInv, Held
<1>8. CASE SignInSwept
    <2>1. /\ UNCHANGED <<now, given, ask, leaving>> /\ alive' = alive \ signIn.found
          /\ signIn' \in {NoSignIn, [signIn EXCEPT !.at = "regenerate"]}
          /\ signIn.own \in signIn.found \cup {Nobody} /\ signIn.found \subseteq given
        BY <1>8 DEF SignInSwept, SudoInv
    <2>2. /\ Held' \subseteq Held /\ (\A k \in Held' : windows'[k] = windows[k])
          /\ windows' \in [Held' -> Nat]
        BY <1>8, WithoutSome DEF SignInSwept
    <2>3. left \subseteq left' /\ left' \subseteq left \cup Held
        BY <1>8 DEF SignInSwept, Of
    <2>4. \A k \in Held' \ left' : k[1] \notin signIn.found
        <3>1. CASE signIn.at = "sweep"
            <4>1. /\ windows' = Without(Of({signIn.own}))
                  /\ left' = left \cup Of(signIn.found \ {signIn.own})
                BY <1>8, <3>1 DEF SignInSwept, DroppedFor
            <4>2. Held' = Held \ Of({signIn.own})
                BY <4>1, WithoutSome
            <4>3. QED
                BY <4>1, <4>2 DEF Of
        <3>2. CASE signIn.at # "sweep"
            <4>1. left' = left \cup Of(signIn.found) /\ Held' = Held
                BY <1>8, <3>2 DEF SignInSwept, Held
            <4>2. QED
                BY <4>1 DEF Of
        <3>3. QED
            BY <3>1, <3>2
    <2>5. \A k \in Held' \ left' : k[1] \in alive' \ leaving'
        BY <2>1, <2>2, <2>3, <2>4 DEF SudoInv
    <2>6. /\ signIn' \in [at : {"idle", "sweep", "recover", "regenerate"}, found : SUBSET given', own : given' \cup {Nobody}]
          /\ signIn'.at \notin {"sweep", "recover"}
        <3>1. /\ signIn \in [at : {"idle", "sweep", "recover", "regenerate"}, found : SUBSET given, own : given \cup {Nobody}]
              /\ given' = given
            BY <2>1 DEF SudoInv
        <3>2. CASE signIn' = NoSignIn
            BY <3>1, <3>2 DEF NoSignIn
        <3>3. CASE signIn' = [signIn EXCEPT !.at = "regenerate"]
            BY <3>1, <3>3
        <3>4. QED
            BY <2>1, <3>2, <3>3
    <2>7. QED
        BY <2>1, <2>2, <2>3, <2>5, <2>6, WindowsShrink DEF SudoInv
<1>9. CASE SignedIn
    <2>1. /\ UNCHANGED <<now, windows, ask, leaving, left>> /\ signIn' = NoSignIn
          /\ alive \subseteq alive' /\ given \subseteq given' /\ given' \subseteq Sids /\ alive' \subseteq given'
        BY <1>9 DEF SignedIn, SudoInv
    <2>2. QED
        BY <2>1 DEF SudoInv, NoSignIn, Held
<1>10. CASE SignOut
    <2>1. PICK s \in alive \ leaving : windows' = Without(Of({s})) /\ leaving' = leaving \cup {s}
        BY <1>10 DEF SignOut
    <2>2. UNCHANGED <<now, alive, given, ask, signIn, left>>
        BY <1>10 DEF SignOut
    <2>3. /\ Held' \subseteq Held /\ (\A k \in Held' : windows'[k] = windows[k] /\ k[1] # s)
          /\ windows' \in [Held' -> Nat]
        <3>1. Held' = Held \ Of({s})
            BY <2>1, WithoutSome
        <3>2. QED
            BY <2>1, <3>1, WithoutSome DEF Of
    <2>4. \A k \in Held' \ left' : k[1] \in alive' \ leaving'
        BY <2>1, <2>2, <2>3 DEF SudoInv
    <2>5. leaving' \subseteq given'
        BY <2>1, <2>2 DEF SudoInv
    <2>6. now' \in 0 .. MaxTime /\ now' >= now
        BY <2>2, SudoNats
    <2>7. QED
        BY <2>2, <2>3, <2>4, <2>5, <2>6, WindowsShrink DEF SudoInv
<1>11. CASE SignedOut
    <2>1. PICK s \in leaving : leaving' = leaving \ {s} /\ alive' \in {alive, alive \ {s}}
        BY <1>11 DEF SignedOut
    <2>2. UNCHANGED <<now, windows, given, ask, signIn, left>>
        BY <1>11 DEF SignedOut
    <2>3. Held' = Held /\ windows \in [Held -> Nat] /\ \A k \in Held \ left : k[1] \in alive \ leaving
        BY <2>2 DEF Held, SudoInv
    <2>4. \A k \in Held' \ left' : k[1] \in alive' \ leaving'
        BY <2>1, <2>2, <2>3
    <2>5. leaving' \subseteq given' /\ alive' \subseteq given'
        BY <2>1, <2>2 DEF SudoInv
    <2>6. now' \in 0 .. MaxTime /\ now' >= now
        BY <2>2, SudoNats
    <2>7. QED
        BY <2>2, <2>3, <2>4, <2>5, <2>6, WindowsShrink DEF SudoInv
<1>12. CASE UNCHANGED sudoVars
    BY <1>12 DEF SudoInv, sudoVars, Held
<1>13. QED
    BY <1>1, <1>2, <1>3, <1>4, <1>5, <1>6, <1>7, <1>8, <1>9, <1>10, <1>11, <1>12 DEF SudoNext

LEMMA SudoInitInv == SudoInit => SudoInv
<1> SUFFICES ASSUME SudoInit PROVE SudoInv
    OBVIOUS
<1>1. now \in 0 .. MaxTime /\ Held = {} /\ windows \in [Held -> Nat]
    BY SudoNats DEF SudoInit, Held
<1>2. ask = [a \in Asks |-> NoAsk] /\ signIn = NoSignIn /\ leaving = {} /\ left = {} /\ alive = given /\ given \subseteq Sids
    BY DEF SudoInit
<1>3. QED
    BY <1>1, <1>2 DEF SudoInv, NoAsk, NoSignIn

\* What the host took and nobody gave up is what the windows in time are open for.
TookInv ==
    /\ took \in [DOMAIN took -> Nat] /\ DOMAIN took = {k \in Held : windows[k] > now}
    /\ \A k \in DOMAIN took : windows[k] = took[k] + Length

\* A step that closes windows: of those in time, the ones that are given up.
LEMMA ClosesBoth ==
    ASSUME SudoInv, TookInv, now' = now, NEW ks, NEW ts,
           windows' = Without(ks), took' = Closed(ts),
           \A k \in Held : windows[k] > now => (k \in ks <=> k \in ts)
    PROVE  TookInv'
<1>1. Held' = Held \ ks /\ \A k \in Held' : windows'[k] = windows[k]
    BY WithoutSome
<1>2. DOMAIN took' = DOMAIN took \ ts /\ \A k \in DOMAIN took' : took'[k] = took[k] /\ took'[k] \in Nat
    BY DEF TookInv, Closed
<1>3. took' \in [DOMAIN took' -> Nat]
    BY <1>2 DEF Closed
<1>4. DOMAIN took' = {k \in Held' : windows'[k] > now'}
    <2>1. DOMAIN took = {k \in Held : windows[k] > now}
        BY DEF TookInv
    <2>2. QED
        BY <1>1, <1>2, <2>1
<1>5. \A k \in DOMAIN took' : windows'[k] = took'[k] + Length
    BY <1>1, <1>2, <1>4 DEF TookInv
<1>6. QED
    BY <1>3, <1>4, <1>5 DEF TookInv

LEMMA TookStep ==
    ASSUME SudoInv, TookInv, [SudoNext]_sudoVars
    PROVE  TookInv'
<1>0. took = Closed({}) /\ windows = Without({}) /\ \A k \in Held : windows[k] \in Nat
    BY DEF TookInv, SudoInv, Closed, Without, Held
<1>1. CASE UNCHANGED <<now, windows, took>>
    BY <1>1 DEF TookInv, Held
<1>2. ASSUME NEW a \in Asks, SudoOpened(a) PROVE TookInv'
    <2>1. Length \in Nat \ {0} /\ now \in Nat /\ now' = now
        BY <1>2, SudoNats, SudoAssumption DEF SudoOpened
    <2>2. /\ Held' = Held \cup {Key(a)}
          /\ \A k \in Held' : windows'[k] = IF k = Key(a) THEN now + Length ELSE windows[k]
        BY <1>2 DEF SudoOpened, RunsOut, Held
    <2>3. /\ DOMAIN took' = DOMAIN took \cup {Key(a)} /\ took' \in [DOMAIN took' -> Nat]
          /\ \A k \in DOMAIN took' : took'[k] = IF k = Key(a) THEN now ELSE took[k]
        BY <1>2, <2>1 DEF SudoOpened, TookInv
    <2>4. DOMAIN took' = {k \in Held' : windows'[k] > now'}
        <3>1. now + Length > now
            BY <2>1
        <3>2. DOMAIN took = {k \in Held : windows[k] > now}
            BY DEF TookInv
        <3>3. QED
            BY <2>1, <2>2, <2>3, <3>1, <3>2
    <2>5. QED
        BY <2>2, <2>3, <2>4 DEF TookInv
<1>3. ASSUME NEW a \in Asks, SudoDropped(a) PROVE TookInv'
    BY <1>3, ClosesBoth DEF SudoDropped
<1>4. ASSUME NEW a \in Asks, SudoRuns(a) PROVE TookInv'
    <2>1. now' = now /\ took' = Closed({})
        BY <1>0, <1>4 DEF SudoRuns
    <2>2. CASE InWindow(Key(a))
        BY <1>1, <1>4, <2>2 DEF SudoRuns
    <2>3. CASE ~InWindow(Key(a))
        <3>1. windows' = Without({Key(a)})
            BY <1>4, <2>3 DEF SudoRuns
        <3>2. \A k \in Held : windows[k] > now => k # Key(a)
            BY <2>3 DEF InWindow
        <3>3. QED
            BY <2>1, <3>1, <3>2, ClosesBoth
    <2>4. QED
        BY <2>2, <2>3
<1>5. CASE SudoSweeps \/ SudoErases
    <2>1. now' = now /\ took' = Closed({})
        BY <1>0, <1>5 DEF SudoSweeps, SudoErases
    <2>2. now \in Nat
        BY SudoNats
    <2>3. PICK ks : windows' = Without(ks) /\ \A k \in ks : k \in Held /\ windows[k] <= now
        <3>1. CASE SudoSweeps
            <4>1. windows' = Without({k \in Held : windows[k] <= now})
                BY <3>1 DEF SudoSweeps
            <4>2. QED
                BY <4>1
        <3>2. CASE SudoErases
            <4>1. PICK k \in Held : windows[k] <= now /\ windows' = Without({k})
                BY <3>2 DEF SudoErases
            <4>2. QED
                BY <4>1
        <3>3. QED
            BY <1>5, <3>1, <3>2
    <2>4. \A k \in Held : windows[k] > now => k \notin ks
        BY <1>0, <2>2, <2>3
    <2>5. QED
        BY <2>1, <2>3, <2>4, ClosesBoth
<1>6. CASE SudoTick
    <2>1. /\ windows' = windows /\ Held' = Held /\ now' = now + 1
          /\ took' = Closed({k \in DOMAIN took : took[k] + Length <= now + 1})
        BY <1>6 DEF SudoTick, Held
    <2>2. /\ DOMAIN took' = {k \in DOMAIN took : ~(took[k] + Length <= now + 1)}
          /\ \A k \in DOMAIN took' : took'[k] = took[k] /\ took[k] \in Nat
          /\ took' \in [DOMAIN took' -> Nat]
        BY <2>1 DEF Closed, TookInv
    <2>3. now \in Nat
        BY SudoNats
    <2>4. \A k \in DOMAIN took : windows[k] = took[k] + Length /\ windows[k] \in Nat
        BY <1>0 DEF TookInv
    <2>5. DOMAIN took' = {k \in Held' : windows'[k] > now'}
        <3>1. ASSUME NEW k \in Held PROVE windows[k] > now + 1 => windows[k] > now
            BY <1>0, <2>3
        <3>2. \A k \in DOMAIN took : ~(took[k] + Length <= now + 1) <=> windows[k] > now + 1
            BY <2>3, <2>4
        <3>3. DOMAIN took = {k \in Held : windows[k] > now}
            BY DEF TookInv
        <3>4. QED
            BY <2>1, <2>2, <3>1, <3>2, <3>3
    <2>6. QED
        BY <2>1, <2>2, <2>4, <2>5 DEF TookInv
<1>7. CASE SudoRestart
    BY <1>7 DEF SudoRestart, TookInv, Held
<1>8. CASE SignInSwept
    <2>1. CASE signIn.at = "sweep"
        <3>1. windows' = Without(Of({signIn.own})) /\ took' = Closed(OwnOf({signIn.own})) /\ now' = now
            BY <1>8, <2>1 DEF SignInSwept, DroppedFor
        <3>2. \A k \in Held : windows[k] > now => (k \in Of({signIn.own}) <=> k \in OwnOf({signIn.own}))
            BY DEF Of, OwnOf, TookInv
        <3>3. QED
            BY <3>1, <3>2, ClosesBoth
    <2>2. CASE signIn.at # "sweep"
        BY <1>1, <1>8, <2>2 DEF SignInSwept
    <2>3. QED
        BY <2>1, <2>2
<1>9. CASE SignOut
    <2>1. PICK s \in alive \ leaving : windows' = Without(Of({s})) /\ took' = Closed(OwnOf({s}))
        BY <1>9 DEF SignOut
    <2>2. now' = now /\ \A k \in Held : windows[k] > now => (k \in Of({s}) <=> k \in OwnOf({s}))
        BY <1>9 DEF SignOut, Of, OwnOf, TookInv
    <2>3. QED
        BY <2>1, <2>2, ClosesBoth
<1>10. ASSUME NEW a \in Asks, SudoAsked(a) \/ SudoRefused(a) \/ SudoStarts(a) \/ SudoRan(a) PROVE TookInv'
    BY <1>1, <1>10 DEF SudoAsked, SudoRefused, SudoStarts, SudoRan
<1>11. CASE SignInAsked \/ SignedIn \/ SignedOut \/ UNCHANGED sudoVars
    BY <1>1, <1>11 DEF SignInAsked, SignedIn, SignedOut, sudoVars
<1>12. QED
    BY <1>2, <1>3, <1>4, <1>5, <1>6, <1>7, <1>8, <1>9, <1>10, <1>11 DEF SudoNext

LEMMA SudoAlways == SudoSpec => [](SudoInv /\ TookInv)
<1>1. SudoInit => TookInv
    BY DEF SudoInit, TookInv, Held
<1>2. QED
    BY <1>1, SudoInitInv, SudoStep, TookStep, PTL DEF SudoSpec

\* SudoService: a window lasts what it says, and one that can be used is of a
\* session that is there, but for those that the history names.
THEOREM WindowsAlways == SudoSpec => [](SudoTypeOK /\ WindowIsACeiling /\ WindowHasItsSession)
<1>1. SudoInv /\ TookInv => SudoTypeOK /\ WindowIsACeiling /\ WindowHasItsSession
    BY DEF SudoInv, TookInv, SudoTypeOK, WindowIsACeiling, WindowHasItsSession
<1>2. QED
    BY <1>1, SudoAlways, PTL

\* What a step of a request does to it: it goes on as root only with a password
\* that was taken in time.
RootIsAsked ==
    \A a \in Asks : ~Elevated(ask[a]) /\ Elevated(ask'[a]) =>
        Key(a) \in DOMAIN took /\ now < took[Key(a)] + Length

LEMMA RootStep ==
    ASSUME SudoInv, TookInv, [SudoNext]_sudoVars
    PROVE  RootIsAsked
<1>0. ask \in [Asks -> [at : {"idle", "probe", "drop", "refused", "wait", "root", "chmod"},
                        sid : Sids \cup {Nobody}, host : SudoHosts \cup {Nobody}]]
    BY DEF SudoInv
<1>1. ASSUME NEW a \in Asks,
             SudoAsked(a) \/ SudoOpened(a) \/ SudoRefused(a) \/ SudoDropped(a) \/ SudoRuns(a) \/ SudoStarts(a) \/ SudoRan(a)
      PROVE  RootIsAsked
    <2>1. Elevated(ask'[a]) => InWindow(Key(a)) \/ Elevated(ask[a])
        <3>1. CASE SudoAsked(a)
            <4>1. PICK s \in alive, h \in SudoHosts, q \in {"probe", "drop", "refused"} :
                    ask' = [ask EXCEPT ![a] = [at |-> q, sid |-> s, host |-> h]]
                BY <3>1 DEF SudoAsked
            <4>2. ask'[a].at = q
                BY <1>0, <4>1
            <4>3. QED
                BY <4>2 DEF Elevated
        <3>2. CASE SudoOpened(a) \/ SudoRefused(a) \/ SudoDropped(a)
            <4>1. ask' = [ask EXCEPT ![a] = NoAsk]
                BY <3>2 DEF SudoOpened, SudoRefused, SudoDropped
            <4>2. ask'[a].at = "idle"
                BY <1>0, <4>1 DEF NoAsk
            <4>3. QED
                BY <4>2 DEF Elevated
        <3>3. CASE SudoRuns(a)
            <4>1. InWindow(Key(a)) \/ ask' = [ask EXCEPT ![a] = NoAsk]
                BY <3>3 DEF SudoRuns
            <4>2. ask' = [ask EXCEPT ![a] = NoAsk] => ask'[a].at = "idle"
                BY <1>0 DEF NoAsk
            <4>3. QED
                BY <4>1, <4>2 DEF Elevated
        <3>4. CASE SudoStarts(a) \/ SudoRan(a)
            BY <3>4 DEF SudoStarts, SudoRan, Elevated
        <3>5. QED
            BY <1>1, <3>1, <3>2, <3>3, <3>4
    <2>2. \A b \in Asks \ {a} : ask'[b] = ask[b]
        BY <1>0, <1>1 DEF SudoAsked, SudoOpened, SudoRefused, SudoDropped, SudoRuns, SudoStarts, SudoRan
    <2>3. InWindow(Key(a)) => Key(a) \in DOMAIN took /\ now < took[Key(a)] + Length
        <3>1. InWindow(Key(a)) => Key(a) \in Held /\ windows[Key(a)] > now
            BY DEF InWindow
        <3>2. QED
            BY <3>1 DEF TookInv
    <2>4. QED
        BY <2>1, <2>2, <2>3 DEF RootIsAsked
<1>2. CASE ask' = [a \in Asks |-> NoAsk]
    BY <1>2 DEF RootIsAsked, NoAsk, Elevated
<1>3. CASE ask' = ask
    BY <1>3 DEF RootIsAsked
<1>4. QED
    BY <1>1, <1>2, <1>3 DEF SudoNext, sudoVars, SudoSweeps, SudoErases, SudoTick, SudoRestart, SignInAsked,
        SignInSwept, SignedIn, SignOut, SignedOut

\* SudoRunnerService asks again before each command: the password it goes on
\* with was taken from that session within the window's length, and nobody had
\* given it up by then; whenever the command starts.
THEOREM RootAlwaysLetIn == SudoSpec => RootWasLetIn
<1>1. SudoInv /\ TookInv /\ [SudoNext]_sudoVars => RootIsAsked
    BY RootStep
<1>2. RootIsAsked => (\A a \in Asks : ~Elevated(ask[a]) /\ Elevated(ask'[a]) =>
          Key(a) \in DOMAIN took /\ now < took[Key(a)] + Length)
    BY DEF RootIsAsked
<1>3. QED
    BY <1>1, <1>2, SudoAlways, PTL DEF SudoSpec, RootWasLetIn

-----------------------------------------------------------------------------
(* The deployment.                                                         *)

\* What is on the server, by where the run stands.
Sending == {"preflight", "checks", "named", "send", "conf", "rmbak", "mvold"}
Placed  == {"build", "migrate", "reload", "verify"}
Undoing == {"undo", "back", "restart"}
ShipDirs == [rel : 0 .. Release(MaxShips), built : BOOLEAN]
Steps   == Trapped \cup {"over", "preflight", "checks", "named"} \cup Undoing
Reports == {"none", "by hand", "success", "unmodified", "failed", "rolled_back"}
ShipRuns ==
    [id : 0 .. MaxShips, at : Steps,
     switched : BOOLEAN, fp : Nat, label : Nat, sent : {"nothing", "touched", "as named", "other"},
     before : ShipDirs, moved : BOOLEAN,
     report : Reports]
ShipData ==
    /\ half \in {"api", "front"} /\ sound \subseteq 1 .. Release(MaxShips)
    /\ tree \in [head : 1 .. MaxTree + 1, dirty : BOOLEAN] /\ marker \in Nat
    /\ live \in ShipDirs /\ bak \in ShipDirs
    /\ (live.rel = 0 => live = NoDir) /\ (bak.rel = 0 => bak = NoDir)
    /\ conf \in 0 .. MaxShips /\ schema \in 0 .. MaxShips
    /\ served \in 0 .. Release(MaxShips) /\ kept \in 1 .. Release(MaxShips)
    /\ torn \in BOOLEAN
    /\ half = "front" => conf = 0 /\ schema = 0 /\ ship.at \notin {"conf", "build", "migrate"}
ShipPlace ==
    /\ ship.at \in Trapped \cup Sending => ship.report = "none"
    /\ ship.at \in Placed => ship.switched
    /\ ship.at \in (Trapped \cup Sending) \ Placed => ~ship.switched
    /\ ship.at \in Undoing => ship.report \in {"none", "by hand"}
    /\ ship.at \in Sending => live = ship.before
    /\ ship.at = "mvold" => bak = NoDir
    /\ ship.at \in {"mvnew", "answer", "undo", "back"} \cup Placed => bak = ship.before
    /\ ship.at \in {"answer", "build"} => live.rel = Release(ship.id) /\ (half = "front" => live.built)
    /\ ship.at \in {"migrate", "reload", "verify"} => live = [rel |-> Release(ship.id), built |-> TRUE]
    /\ ship.at = "verify" => served = Release(ship.id)
    /\ ship.at \in {"rmbak", "mvold", "mvnew", "answer"} \cup Placed /\ half = "api" => conf = ship.id
    /\ ship.at \in {"reload", "verify"} /\ half = "api" => schema = ship.id
    /\ ship.at = "back" => bak # NoDir
    /\ ship.at = "restart" => live = ship.before
ShipKept ==
    ~torn =>
        /\ ship.at \in Sending \cup {"over", "restart"} => kept = live.rel
        /\ ship.at \in {"mvnew", "answer", "back"} \cup Placed => kept = bak.rel
        /\ ship.at = "undo" => kept = IF ship.report = "by hand" THEN live.rel ELSE bak.rel
ShipNamed ==
    /\ marker # Unmarked => marker \in passed
    /\ ship.at \in {"preflight", "checks", "named", "send"} /\ ~ship.moved => ~tree.dirty
    /\ ship.at = "checks" /\ ~ship.moved => ship.fp = tree.head
    /\ ship.at \in {"named", "send"} /\ ~ship.moved => tree.head \in passed
    /\ ship.at = "send" /\ ~ship.moved => ship.label = tree.head
    /\ ship.at \in Trapped \ {"send"} => ship.sent \in {"as named", "touched"}
ShipInv == ship \in ShipRuns /\ ShipData /\ ShipPlace /\ ShipKept /\ ShipNamed /\ SuccessIsServed /\ ShippedIsNamed /\ FailureLeavesLive

LEMMA ShipNats ==
    /\ MaxShips \in Nat /\ MaxShips >= 1 /\ MaxTree \in Nat
    /\ \A i \in 0 .. MaxShips : i \in Nat /\ Release(i) \in 1 .. Release(MaxShips) /\ Release(i) \in Nat /\ Release(i) # 0
    /\ \A i \in 0 .. MaxShips : i < MaxShips => i + 1 \in 0 .. MaxShips
    /\ \A h \in 1 .. MaxTree + 1 : h \in Nat /\ h # 0 /\ (h <= MaxTree => h + 1 \in 1 .. MaxTree + 1)
BY DeployAssumption DEF Release

LEMMA DirNamed ==
    /\ NoDir \in ShipDirs /\ NoDir.rel = 0
    /\ \A i \in 0 .. MaxShips, b \in BOOLEAN :
        /\ [rel |-> Release(i), built |-> b] \in ShipDirs /\ [rel |-> Release(i), built |-> b] # NoDir
        /\ [rel |-> Release(i), built |-> b].rel = Release(i) /\ Release(i) # 0
<1>1. NoDir \in ShipDirs /\ NoDir.rel = 0
    <2>1. Release(MaxShips) \in Nat /\ 0 \in 0 .. Release(MaxShips)
        BY DeployAssumption DEF Release
    <2>2. QED
        BY <2>1 DEF NoDir, ShipDirs
<1>2. ASSUME NEW i \in 0 .. MaxShips, NEW b \in BOOLEAN
      PROVE  /\ [rel |-> Release(i), built |-> b] \in ShipDirs /\ [rel |-> Release(i), built |-> b] # NoDir
             /\ [rel |-> Release(i), built |-> b].rel = Release(i) /\ Release(i) # 0
    <2>1. Release(i) \in 1 .. Release(MaxShips) /\ Release(i) # 0 /\ Release(MaxShips) \in Nat
        BY ShipNats, DeployAssumption DEF Release
    <2>2. Release(i) \in 0 .. Release(MaxShips)
        BY <2>1
    <2>3. QED
        BY <2>1, <2>2 DEF ShipDirs, NoDir
<1>3. QED
    BY <1>1, <1>2

\* The run after a step of it, field by field: it moves on, ends, or is new.
LEMMA ShipGoes ==
    ASSUME ship \in ShipRuns, NEW p \in Steps, ShipAt(p)
    PROVE  /\ ship' \in ShipRuns /\ ship'.at = p
           /\ ship'.id = ship.id /\ ship'.switched = ship.switched /\ ship'.fp = ship.fp
           /\ ship'.label = ship.label /\ ship'.sent = ship.sent /\ ship'.before = ship.before
           /\ ship'.moved = ship.moved /\ ship'.report = ship.report
BY DEF ShipRuns, ShipAt

LEMMA ShipIsOver ==
    ASSUME ship \in ShipRuns, NEW r \in Reports, Ends(r)
    PROVE  /\ ship' \in ShipRuns /\ ship'.at = "over" /\ ship'.report = r
           /\ ship'.id = ship.id /\ ship'.switched = FALSE /\ ship'.sent = ship.sent
           /\ ship'.before = IF r = "none" THEN NoDir ELSE ship.before
<1>1. "over" \in Steps /\ NoDir \in ShipDirs /\ Unmarked \in Nat /\ 0 \in Nat /\ ship.before \in ShipDirs
    BY DirNamed DEF Steps, Trapped, Undoing, Unmarked, ShipRuns
<1>2. QED
    BY <1>1 DEF ShipRuns, Ends

LEMMA ShipIsNew ==
    ASSUME ship \in ShipRuns, ship.id < MaxShips, NEW p \in Steps, NEW d \in ShipDirs,
           ship' = NewShip(p, d) \/ ship' = [NewShip(p, d) EXCEPT !.report = "by hand"]
    PROVE  /\ ship' \in ShipRuns /\ ship'.at = p /\ ship'.before = d /\ ship'.report \in {"none", "by hand"}
           /\ ship' = NewShip(p, d) => ship'.report = "none"
           /\ ship' # NewShip(p, d) => ship'.report = "by hand"
           /\ ship'.switched = FALSE /\ ship'.sent = "nothing" /\ ship'.moved = FALSE
<1>1. ship.id \in 0 .. MaxShips /\ ship.id + 1 \in 0 .. MaxShips /\ Unmarked \in Nat /\ 0 \in Nat
    BY ShipNats DEF ShipRuns, Unmarked
<1>2. NewShip(p, d) = [id |-> ship.id + 1, at |-> p, switched |-> FALSE, fp |-> Unmarked, label |-> 0,
                       sent |-> "nothing", before |-> d, moved |-> FALSE, report |-> "none"]
    BY DEF NewShip
<1>3. PICK r \in {"none", "by hand"} :
        /\ ship' = [id |-> ship.id + 1, at |-> p, switched |-> FALSE, fp |-> Unmarked, label |-> 0,
                    sent |-> "nothing", before |-> d, moved |-> FALSE, report |-> r]
        /\ (ship' = NewShip(p, d) => r = "none") /\ (ship' # NewShip(p, d) => r = "by hand")
    <2>1. CASE ship' = NewShip(p, d)
        BY <1>2, <2>1
    <2>2. CASE ship' # NewShip(p, d)
        <3>1. ship' = [id |-> ship.id + 1, at |-> p, switched |-> FALSE, fp |-> Unmarked, label |-> 0,
                       sent |-> "nothing", before |-> d, moved |-> FALSE, report |-> "by hand"]
            <4>1. ship' = [NewShip(p, d) EXCEPT !.report = "by hand"]
                BY <2>2
            <4>2. QED
                BY <4>1 DEF NewShip
        <3>2. QED
            BY <2>2, <3>1
    <2>3. QED
        BY <2>1, <2>2
<1>4. r \in Reports
    BY DEF Reports
<1>5. ship' \in ShipRuns
    BY <1>1, <1>3, <1>4 DEF ShipRuns
<1>6. QED
    BY <1>3, <1>5

\* What each command of a run, or what happens beside it, does to the run.
LEMMA ShipRunStep ==
    ASSUME ship \in ShipRuns, ShipData, [ShipNext]_shipVars
    PROVE  ship' \in ShipRuns
<1> USE DEF Steps, Trapped, Undoing, Reports
<1>1. CASE ShipBegins
    <2>1. PICK p \in {"over", "preflight"} : ship' = NewShip(p, live) /\ ship.id < MaxShips
        BY <1>1 DEF ShipBegins
    <2>2. live \in ShipDirs /\ p \in Steps
        BY <2>1 DEF ShipData
    <2>3. QED
        BY <2>1, <2>2, ShipIsNew
<1>2. CASE Preflight
    <2>1. Fingerprint \in Nat
        BY ShipNats DEF Fingerprint, ShipData, Unmarked
    <2>2. QED
        BY <1>2, <2>1 DEF Preflight, ShipRuns
<1>3. CASE PreflightEnds
    BY <1>3, ShipGoes, ShipIsOver DEF PreflightEnds
<1>4. CASE TreeMoves
    <2>1. ship' = [ship EXCEPT !.moved = @ \/ ship.at # "over"] /\ ship.moved \in BOOLEAN
        BY <1>4 DEF TreeMoves, ShipRuns
    <2>2. CASE ship.moved \/ ship.at # "over"
        <3>1. ship' = [ship EXCEPT !.moved = TRUE]
            BY <2>1, <2>2
        <3>2. QED
            BY <3>1 DEF ShipRuns
    <2>3. CASE ~(ship.moved \/ ship.at # "over")
        <3>1. ship' = [ship EXCEPT !.moved = FALSE]
            BY <2>1, <2>3
        <3>2. QED
            BY <3>1 DEF ShipRuns
    <2>4. QED
        BY <2>2, <2>3
<1>5. CASE Named
    <2>1. tree.head \in Nat
        BY ShipNats DEF ShipData
    <2>2. QED
        BY <1>5, <2>1 DEF Named, ShipRuns
<1>6. CASE Sent
    <2>1. Content \in {"nothing", "touched", "as named", "other"} /\ Unmarked \in Nat /\ 0 \in Nat
        BY DEF Content, Unmarked
    <2>2. QED
        BY <1>6, <2>1 DEF Sent, ShipRuns
<1>7. CASE Configured \/ SwitchDrops \/ SwitchKeeps \/ SwitchMoves \/ Built \/ Migrated \/ Reloaded \/ UndoPutsBack
    BY <1>7, ShipGoes DEF Configured, SwitchDrops, SwitchKeeps, SwitchMoves, Built, Migrated, Reloaded, UndoPutsBack
<1>8. CASE Switched
    BY <1>8 DEF Switched, ShipRuns
<1>9. CASE Verified \/ ShipKilled \/ UndoFails
    BY <1>9, ShipIsOver DEF Verified, ShipKilled, UndoFails
<1>10. CASE ShipFails \/ UndoRemoves \/ UndoReloads
    BY <1>10, ShipGoes, ShipIsOver DEF ShipFails, UndoRemoves, UndoReloads
<1>11. CASE UndoAsked
    <2>1. ship' = [NewShip("undo", bak) EXCEPT !.report = "by hand"] /\ ship.id < MaxShips /\ bak \in ShipDirs
        BY <1>11 DEF UndoAsked, ShipData
    <2>2. QED
        BY <2>1, ShipIsNew
<1>12. CASE UNCHANGED shipVars
    BY <1>12 DEF shipVars
<1>13. CASE MarkerAges
    BY <1>13 DEF MarkerAges
<1>14. QED
    BY <1>1, <1>2, <1>3, <1>4, <1>5, <1>6, <1>7, <1>8, <1>9, <1>10, <1>11, <1>12, <1>13 DEF ShipNext

\* What it does to the server and to the tree.
LEMMA ShipDataStep ==
    ASSUME ship \in ShipRuns, ShipData, ShipPlace, [ShipNext]_shipVars
    PROVE  ShipData'
<1> USE DEF Steps, Trapped, Sending, Placed, Undoing
<1>0. ship.id \in 0 .. MaxShips
    BY DEF ShipRuns
<1>1. /\ tree' \in [head : 1 .. MaxTree + 1, dirty : BOOLEAN] /\ marker' \in Nat
      /\ half' = half /\ sound' = sound
    <2>1. CASE PreflightEnds
        BY <2>1 DEF PreflightEnds, ShipData, ShipRuns
    <2>2. CASE TreeMoves
        <3>1. tree.head \in 1 .. MaxTree + 1 /\ tree.head + 1 \in 1 .. MaxTree + 1
            BY <2>2, ShipNats DEF TreeMoves, ShipData
        <3>2. tree.head \in 1 .. MaxTree + 1 /\ tree \in [head : 1 .. MaxTree + 1, dirty : BOOLEAN]
            BY DEF ShipData
        <3>3. CASE tree.dirty
            <4>1. PICK h \in {tree.head, tree.head + 1} : tree' = [head |-> h, dirty |-> FALSE]
                BY <2>2, <3>3 DEF TreeMoves
            <4>2. QED
                BY <2>2, <3>1, <4>1 DEF TreeMoves, ShipData
        <3>4. CASE ~tree.dirty
            <4>1. tree' = [tree EXCEPT !.dirty = TRUE]
                BY <2>2, <3>4 DEF TreeMoves
            <4>2. QED
                BY <2>2, <3>2, <4>1 DEF TreeMoves, ShipData
        <3>5. QED
            BY <3>3, <3>4
    <2>3. CASE ~(PreflightEnds \/ TreeMoves)
        <3>1. marker' \in {marker, Unmarked} /\ tree' = tree /\ half' = half /\ sound' = sound
            BY <2>3 DEF ShipNext, shipVars, treeVars, ShipBegins, Preflight, MarkerAges, Named, Sent, Configured,
                SwitchDrops, SwitchKeeps, SwitchMoves, Switched, Built, Migrated, Reloaded, Verified, ShipFails,
                UndoAsked, UndoRemoves, UndoPutsBack, UndoReloads, UndoFails, ShipKilled
        <3>2. QED
            BY <3>1 DEF ShipData, Unmarked
    <2>4. QED
        BY <2>1, <2>2, <2>3
<1>2. live' \in ShipDirs /\ (live'.rel = 0 => live' = NoDir)
    <2>1. CASE Built
        <3>1. live' = [live EXCEPT !.built = TRUE] /\ live \in ShipDirs /\ live.rel = Release(ship.id)
            BY <2>1 DEF Built, ShipPlace, ShipData
        <3>2. live' = [rel |-> Release(ship.id), built |-> TRUE]
            BY <3>1 DEF ShipDirs
        <3>3. QED
            BY <1>0, <3>2, DirNamed
    <2>2. CASE SwitchMoves
        <3>1. live' = [rel |-> Release(ship.id), built |-> half = "front"]
            BY <2>2 DEF SwitchMoves
        <3>2. CASE half = "front"
            BY <1>0, <3>1, <3>2, DirNamed
        <3>3. CASE half # "front"
            <4>1. live' = [rel |-> Release(ship.id), built |-> FALSE]
                BY <3>1, <3>3
            <4>2. QED
                BY <1>0, <4>1, DirNamed
        <3>4. QED
            BY <3>2, <3>3
    <2>3. CASE ~(Built \/ SwitchMoves)
        <3>1. live' \in {live, NoDir, bak, [rel |-> Release(ship.id), built |-> FALSE]}
            BY <2>3 DEF ShipNext, shipVars, boxVars, ShipBegins, Preflight, PreflightEnds, MarkerAges, TreeMoves, Named,
                Sent, Configured, SwitchDrops, SwitchKeeps, Switched, Migrated, Reloaded, Verified,
                ShipFails, UndoAsked, UndoRemoves, UndoPutsBack, UndoReloads, UndoFails, ShipKilled
        <3>2. QED
            BY <1>0, <3>1, DirNamed DEF ShipData
    <2>4. QED
        BY <2>1, <2>2, <2>3
<1>3. bak' \in ShipDirs /\ (bak'.rel = 0 => bak' = NoDir)
    <2>1. bak' \in {bak, live, NoDir}
        BY DEF ShipNext, shipVars, boxVars, ShipBegins, Preflight, PreflightEnds, MarkerAges, TreeMoves, Named,
            Sent, Configured, SwitchDrops, SwitchKeeps, SwitchMoves, Switched, Built, Migrated, Reloaded, Verified,
            ShipFails, UndoAsked, UndoRemoves, UndoPutsBack, UndoReloads, UndoFails, ShipKilled
    <2>2. QED
        BY <2>1, DirNamed DEF ShipData
<1>4. conf' \in 0 .. MaxShips /\ schema' \in 0 .. MaxShips /\ torn' \in BOOLEAN
    <2>1. conf' \in {conf, ship.id} /\ schema' \in {schema, ship.id}
        BY DEF ShipNext, shipVars, boxVars, ShipBegins, Preflight, PreflightEnds, MarkerAges, TreeMoves, Named,
            Sent, Configured, SwitchDrops, SwitchKeeps, SwitchMoves, Switched, Built, Migrated, Reloaded, Verified,
            ShipFails, UndoAsked, UndoRemoves, UndoPutsBack, UndoReloads, UndoFails, ShipKilled
    <2>2. torn' = torn \/ torn' = FALSE \/ torn' = TRUE
        <3>1. CASE ShipFails
            <4>1. torn' = (torn \/ (~Undone /\ ship.at \in Halfway)) /\ torn \in BOOLEAN
                BY <3>1 DEF ShipFails, ShipData
            <4>2. QED
                BY <4>1, Zenon
        <3>2. CASE ShipKilled
            <4>1. torn' = (torn \/ ship.at \in Halfway) /\ torn \in BOOLEAN
                BY <3>2 DEF ShipKilled, ShipData
            <4>2. QED
                BY <4>1, Zenon
        <3>3. CASE ~(ShipFails \/ ShipKilled)
            BY <3>3 DEF ShipNext, shipVars, boxVars, ShipBegins, Preflight, PreflightEnds, MarkerAges, TreeMoves, Named,
                Sent, Configured, SwitchDrops, SwitchKeeps, SwitchMoves, Switched, Built, Migrated, Reloaded, Verified,
                UndoAsked, UndoRemoves, UndoPutsBack, UndoReloads, UndoFails
        <3>4. QED
            BY <3>1, <3>2, <3>3
    <2>3. QED
        BY <1>0, <2>1, <2>2 DEF ShipData
<1>5. served' \in 0 .. Release(MaxShips)
    <2>1. served' \in {served, Served(live)}
        BY DEF ShipNext, shipVars, boxVars, ShipBegins, Preflight, PreflightEnds, MarkerAges, TreeMoves, Named,
            Sent, Configured, SwitchDrops, SwitchKeeps, SwitchMoves, Switched, Built, Migrated, Reloaded, Verified,
            ShipFails, UndoAsked, UndoRemoves, UndoPutsBack, UndoReloads, UndoFails, ShipKilled
    <2>2. Served(live) \in 0 .. Release(MaxShips)
        <3>1. live.rel \in 0 .. Release(MaxShips) /\ Down \in 0 .. Release(MaxShips)
            BY DeployAssumption DEF ShipData, ShipDirs, Down, Release
        <3>2. QED
            BY <3>1 DEF Served
    <2>3. QED
        BY <2>1, <2>2 DEF ShipData
<1>6. kept' \in 1 .. Release(MaxShips)
    <2>1. CASE Verified
        <3>1. kept' = served /\ served \in sound
            BY <2>1 DEF Verified, Healthy
        <3>2. QED
            BY <3>1 DEF ShipData
    <2>2. CASE UndoRemoves
        <3>1. kept' = kept \/ (kept' = bak.rel /\ bak # NoDir)
            BY <2>2 DEF UndoRemoves
        <3>2. bak # NoDir => bak.rel # 0 /\ bak.rel \in 0 .. Release(MaxShips)
            BY DEF ShipData, ShipDirs
        <3>3. Release(MaxShips) \in Nat
            BY DeployAssumption DEF Release
        <3>4. bak # NoDir => bak.rel \in 1 .. Release(MaxShips)
            BY <3>2, <3>3
        <3>5. QED
            BY <3>1, <3>4 DEF ShipData
    <2>3. CASE ~(Verified \/ UndoRemoves)
        <3>1. kept' = kept
            BY <2>3 DEF ShipNext, shipVars, boxVars, ShipBegins, Preflight, PreflightEnds, MarkerAges, TreeMoves, Named,
                Sent, Configured, SwitchDrops, SwitchKeeps, SwitchMoves, Switched, Built, Migrated, Reloaded,
                ShipFails, UndoAsked, UndoPutsBack, UndoReloads, UndoFails, ShipKilled
        <3>2. QED
            BY <3>1 DEF ShipData
    <2>4. QED
        BY <2>1, <2>2, <2>3
<1>7. half' = "front" => conf' = 0 /\ schema' = 0 /\ ship'.at \notin {"conf", "build", "migrate"}
    <2>1. CASE Configured \/ Migrated \/ Built
        BY <2>1 DEF Configured, Migrated, Built, ShipData
    <2>2. CASE ~(Configured \/ Migrated \/ Built)
        <3>1. conf' = conf /\ schema' = schema
            BY <2>2 DEF ShipNext, shipVars, boxVars, ShipBegins, Preflight, PreflightEnds, MarkerAges, TreeMoves, Named,
                Sent, SwitchDrops, SwitchKeeps, SwitchMoves, Switched, Reloaded, Verified,
                ShipFails, UndoAsked, UndoRemoves, UndoPutsBack, UndoReloads, UndoFails, ShipKilled
        <3>2. half = "front" => ship'.at \notin {"conf", "build", "migrate"}
            <4>1. ship' = ship \/ ship'.at \in {"over", "preflight", "checks", "named", "send", "rmbak", "mvold", "mvnew",
                                                "answer", "reload", "verify", "undo", "back", "restart"}
                                \/ (half = "api" /\ (Sent \/ Switched))
                <5>1. CASE ShipBegins
                    <6>1. PICK p \in {"over", "preflight"} : ship' = NewShip(p, live)
                        BY <5>1 DEF ShipBegins
                    <6>2. QED
                        BY <6>1 DEF NewShip
                <5>2. CASE UndoAsked
                    BY <5>2 DEF UndoAsked, NewShip
                <5>3. CASE Preflight \/ PreflightEnds \/ MarkerAges \/ TreeMoves \/ Named
                    BY <5>3 DEF Preflight, PreflightEnds, MarkerAges, TreeMoves, Named, ShipAt, Ends, Looking, ShipRuns
                <5>4. CASE Sent
                    <6>1. half = "api" \/ ship' = [ship EXCEPT !.at = "rmbak", !.fp = Unmarked, !.label = 0,
                                                                !.moved = FALSE, !.sent = Content]
                        BY <5>4 DEF Sent, ShipData
                    <6>2. half = "api" \/ ship'.at = "rmbak"
                        BY <6>1 DEF ShipRuns
                    <6>3. QED
                        BY <5>4, <6>2
                <5>5. CASE SwitchDrops \/ SwitchKeeps \/ SwitchMoves \/ Reloaded \/ Verified
                    BY <5>5 DEF SwitchDrops, SwitchKeeps, SwitchMoves, Reloaded, Verified, ShipAt, Ends, ShipRuns
                <5>6. CASE Switched
                    BY <5>6 DEF Switched, ShipRuns, ShipData
                <5>7. CASE ShipFails \/ ShipKilled
                    BY <5>7 DEF ShipFails, ShipKilled, ShipAt, Ends, ShipRuns
                <5>8. CASE UndoRemoves \/ UndoPutsBack \/ UndoReloads \/ UndoFails
                    BY <5>8 DEF UndoRemoves, UndoPutsBack, UndoReloads, UndoFails, ShipAt, Ends, ShipRuns
                <5>9. CASE UNCHANGED shipVars
                    BY <5>9 DEF shipVars
                <5>10. QED
                    BY <2>2, <5>1, <5>2, <5>3, <5>4, <5>5, <5>6, <5>7, <5>8, <5>9 DEF ShipNext
            <4>2. QED
                BY <4>1 DEF ShipData
        <3>3. QED
            BY <1>1, <3>1, <3>2 DEF ShipData
    <2>3. QED
        BY <2>1, <2>2
<1>8. sound' \subseteq 1 .. Release(MaxShips) /\ half' \in {"api", "front"}
    BY <1>1 DEF ShipData
<1>9. QED
    BY <1>1, <1>2, <1>3, <1>4, <1>5, <1>6, <1>7, <1>8 DEF ShipData

\* The run is the one it was, but for where it stands.
RunKeeps ==
    /\ ship'.id = ship.id /\ ship'.before = ship.before /\ ship'.report = ship.report
RunStays ==
    /\ RunKeeps /\ ship'.switched = ship.switched /\ ship'.fp = ship.fp /\ ship'.label = ship.label
    /\ ship'.sent = ship.sent /\ ship'.moved = ship.moved

\* A run that ends says r, and nothing is known of the version it began with
\* when it says nothing.
RunEnds(r) ==
    /\ ship'.at = "over" /\ ship'.report = r /\ ship'.id = ship.id /\ ship'.sent = ship.sent
    /\ ship'.before = IF r = "none" THEN NoDir ELSE ship.before

ShipStands == ShipPlace /\ ShipKept /\ ShipNamed /\ SuccessIsServed /\ ShippedIsNamed /\ FailureLeavesLive

LEMMA RunMoves ==
    ASSUME ship \in ShipRuns, NEW p \in Steps, ShipAt(p)
    PROVE  ship'.at = p /\ RunStays
BY ShipGoes DEF RunKeeps, RunStays

LEMMA RunOver ==
    ASSUME ship \in ShipRuns, NEW r \in Reports, Ends(r)
    PROVE  RunEnds(r)
BY ShipIsOver DEF RunEnds

\* One command of a run, or what happens beside it.
LEMMA ShipStep ==
    ASSUME ShipInv, [ShipNext]_shipVars
    PROVE  ShipStands'
<1> USE DEF Steps, Trapped, Sending, Placed, Undoing, Reports, treeVars, boxVars
<1>0. ship \in ShipRuns /\ ship' \in ShipRuns /\ ShipData /\ ShipPlace /\ ShipKept /\ ShipNamed
      /\ SuccessIsServed /\ ShippedIsNamed /\ FailureLeavesLive /\ ship.at \in Steps
    BY ShipRunStep DEF ShipInv, ShipRuns
<1>1. CASE ShipBegins
    <2>1. PICK p \in {"over", "preflight"} :
            ship.at = "over" /\ ship' = NewShip(p, live) /\ ship.id < MaxShips /\ (p = "preflight" => ~tree.dirty)
        BY <1>1 DEF ShipBegins
    <2>2. /\ ship'.at = p /\ ship'.before = live /\ ship'.report = "none" /\ ship'.switched = FALSE
          /\ ship'.moved = FALSE /\ ship'.sent = "nothing"
        BY <1>0, <2>1, ShipIsNew DEF ShipData
    <2>3. ShipPlace'
           BY <1>0, <1>1, <2>1, <2>2 DEF ShipBegins, ShipData, ShipPlace
    <2>4. ShipKept'
           BY <1>0, <1>1, <2>1, <2>2 DEF ShipBegins, ShipData, ShipPlace, ShipKept
    <2>5. ShipNamed'
           BY <1>0, <1>1, <2>1, <2>2 DEF ShipBegins, ShipNamed, ShipPlace
    <2>6. (SuccessIsServed /\ ShippedIsNamed /\ FailureLeavesLive)'
           BY <1>0, <1>1, <2>1, <2>2 DEF ShipBegins, SuccessIsServed, ShippedIsNamed, FailureLeavesLive, Told, ShipPlace, ShipNamed
    <2>7. QED
           BY <2>3, <2>4, <2>5, <2>6 DEF ShipStands
<1>2. CASE Preflight
    <2>1. /\ ship.at = "preflight" /\ ship'.at = (IF AlreadyPassed(Fingerprint) THEN "named" ELSE "checks")
          /\ RunKeeps /\ ship'.switched = ship.switched /\ ship'.moved = ship.moved /\ ship'.sent = ship.sent
          /\ ship'.fp = Fingerprint
        <3>1. PICK q \in {"named", "checks"} :
                /\ ship.at = "preflight" /\ (q = "named" <=> AlreadyPassed(Fingerprint))
                /\ ship' = [ship EXCEPT !.fp = Fingerprint, !.at = q]
            BY <1>2 DEF Preflight
        <3>2. /\ ship'.at = q /\ ship'.fp = Fingerprint /\ RunKeeps /\ ship'.switched = ship.switched
              /\ ship'.moved = ship.moved /\ ship'.sent = ship.sent
            BY <1>0, <3>1 DEF ShipRuns, RunKeeps
        <3>3. QED
            BY <3>1, <3>2
    <2>2. ShipPlace'
           BY <1>0, <1>2, <2>1 DEF Preflight, RunKeeps, ShipData, ShipPlace
    <2>3. ShipKept'
           BY <1>0, <1>2, <2>1 DEF Preflight, RunKeeps, ShipData, ShipPlace, ShipKept
    <2>4. ShipNamed'
           BY <1>0, <1>2, <2>1 DEF Preflight, RunKeeps, Fingerprint, AlreadyPassed, Unmarked, ShipNamed, ShipPlace
    <2>5. (SuccessIsServed /\ ShippedIsNamed /\ FailureLeavesLive)'
           BY <1>0, <1>2, <2>1 DEF Preflight, RunKeeps, SuccessIsServed, ShippedIsNamed, FailureLeavesLive, Told, ShipPlace, ShipNamed
    <2>6. QED
           BY <2>2, <2>3, <2>4, <2>5 DEF ShipStands
<1>3. CASE PreflightEnds
    <2>1. CASE Ends("none") /\ UNCHANGED <<marker, passed>>
        <3>1. ship.at = "checks" /\ RunEnds("none")
            BY <1>0, <1>3, <2>1, RunOver DEF PreflightEnds
        <3>2. ShipPlace'
               BY <1>0, <1>3, <2>1, <3>1 DEF PreflightEnds, RunEnds, ShipData, ShipPlace
        <3>3. ShipKept'
               BY <1>0, <1>3, <2>1, <3>1 DEF PreflightEnds, RunEnds, ShipData, ShipPlace, ShipKept
        <3>4. ShipNamed'
               BY <1>0, <1>3, <2>1, <3>1 DEF PreflightEnds, RunEnds, Unmarked, ShipData, ShipNamed, ShipPlace
        <3>5. (SuccessIsServed /\ ShippedIsNamed /\ FailureLeavesLive)'
               BY <1>0, <1>3, <2>1, <3>1 DEF PreflightEnds, RunEnds, SuccessIsServed, ShippedIsNamed, FailureLeavesLive, Told, ShipPlace, ShipNamed
        <3>6. QED
               BY <3>2, <3>3, <3>4, <3>5 DEF ShipStands
    <2>2. CASE ShipAt("named")
        <3>1. /\ ship.at = "checks" /\ ship'.at = "named" /\ RunStays
              /\ (IF ship.fp = Unmarked THEN UNCHANGED <<marker, passed>>
                  ELSE marker' = ship.fp /\ passed' = passed \cup {ship.fp})
            <4>1. ship'.at = "named" /\ RunStays
                BY <1>0, <2>2, RunMoves
            <4>2. ~Ends("none")
                BY <1>0, <4>1, RunOver DEF RunEnds
            <4>3. QED
                BY <1>3, <4>1, <4>2 DEF PreflightEnds
        <3>2. ShipPlace'
               BY <1>0, <1>3, <2>2, <3>1 DEF PreflightEnds, RunKeeps, RunStays, ShipData, ShipPlace
        <3>3. ShipKept'
               BY <1>0, <1>3, <2>2, <3>1 DEF PreflightEnds, RunKeeps, RunStays, ShipData, ShipPlace, ShipKept
        <3>4. ShipNamed'
               BY <1>0, <1>3, <2>2, <3>1 DEF PreflightEnds, RunKeeps, RunStays, Unmarked, ShipData, ShipNamed, ShipPlace
        <3>5. (SuccessIsServed /\ ShippedIsNamed /\ FailureLeavesLive)'
               BY <1>0, <1>3, <2>2, <3>1 DEF PreflightEnds, RunKeeps, RunStays, SuccessIsServed, ShippedIsNamed, FailureLeavesLive, Told, ShipPlace, ShipNamed
        <3>6. QED
               BY <3>2, <3>3, <3>4, <3>5 DEF ShipStands
    <2>3. QED
        BY <1>0, <1>3, <2>1, <2>2 DEF PreflightEnds
<1>4. CASE MarkerAges
    <2>1. ship' = ship /\ marker' = Unmarked
        BY <1>4 DEF MarkerAges
    <2>2. ShipPlace'
           BY <1>0, <1>4, <2>1 DEF MarkerAges, ShipData, ShipPlace
    <2>3. ShipKept'
           BY <1>0, <1>4, <2>1 DEF MarkerAges, ShipData, ShipPlace, ShipKept
    <2>4. ShipNamed'
           BY <1>0, <1>4, <2>1 DEF MarkerAges, ShipNamed, ShipPlace
    <2>5. (SuccessIsServed /\ ShippedIsNamed /\ FailureLeavesLive)'
           BY <1>0, <1>4, <2>1 DEF MarkerAges, SuccessIsServed, ShippedIsNamed, FailureLeavesLive, Told, ShipPlace, ShipNamed
    <2>6. QED
           BY <2>2, <2>3, <2>4, <2>5 DEF ShipStands
<1>5. CASE TreeMoves
    <2>1. /\ Looking /\ ship'.at = ship.at /\ RunKeeps /\ ship'.switched = ship.switched /\ ship'.sent = ship.sent
          /\ (ship.at # "over" => ship'.moved)
        <3>1. Looking /\ ship' = [ship EXCEPT !.moved = @ \/ ship.at # "over"]
            BY <1>5 DEF TreeMoves
        <3>2. CASE ship.moved \/ ship.at # "over"
            <4>1. ship' = [ship EXCEPT !.moved = TRUE]
                BY <3>1, <3>2
            <4>2. QED
                BY <1>0, <3>1, <4>1 DEF ShipRuns, RunKeeps
        <3>3. CASE ~(ship.moved \/ ship.at # "over")
            <4>1. ship' = [ship EXCEPT !.moved = FALSE]
                BY <3>1, <3>3
            <4>2. QED
                BY <1>0, <3>1, <3>3, <4>1 DEF ShipRuns, RunKeeps
        <3>4. QED
            BY <3>2, <3>3
    <2>2. ShipPlace'
           BY <1>0, <1>5, <2>1 DEF TreeMoves, RunKeeps, Looking, ShipData, ShipPlace
    <2>3. ShipKept'
           BY <1>0, <1>5, <2>1 DEF TreeMoves, RunKeeps, Looking, ShipData, ShipPlace, ShipKept
    <2>4. ShipNamed'
           BY <1>0, <1>5, <2>1 DEF TreeMoves, RunKeeps, Looking, ShipNamed, ShipPlace
    <2>5. (SuccessIsServed /\ ShippedIsNamed /\ FailureLeavesLive)'
           BY <1>0, <1>5, <2>1 DEF TreeMoves, RunKeeps, Looking, SuccessIsServed, ShippedIsNamed, FailureLeavesLive, Told, ShipPlace, ShipNamed
    <2>6. QED
           BY <2>2, <2>3, <2>4, <2>5 DEF ShipStands
<1>6. CASE Named
    <2>1. /\ ship.at = "named" /\ ship'.at = "send" /\ RunKeeps /\ ship'.switched = ship.switched /\ ship'.sent = ship.sent
          /\ ship'.moved = ship.moved /\ ship'.label = tree.head
        BY <1>0, <1>6 DEF Named, ShipRuns, RunKeeps
    <2>2. ShipPlace'
           BY <1>0, <1>6, <2>1 DEF Named, RunKeeps, ShipData, ShipPlace
    <2>3. ShipKept'
           BY <1>0, <1>6, <2>1 DEF Named, RunKeeps, ShipData, ShipPlace, ShipKept
    <2>4. ShipNamed'
           BY <1>0, <1>6, <2>1 DEF Named, RunKeeps, ShipNamed, ShipPlace
    <2>5. (SuccessIsServed /\ ShippedIsNamed /\ FailureLeavesLive)'
           BY <1>0, <1>6, <2>1 DEF Named, RunKeeps, SuccessIsServed, ShippedIsNamed, FailureLeavesLive, Told, ShipPlace, ShipNamed
    <2>6. QED
           BY <2>2, <2>3, <2>4, <2>5 DEF ShipStands
<1>7. CASE Sent
    <2>1. /\ ship.at = "send" /\ RunKeeps /\ ship'.switched = ship.switched /\ ship'.sent = Content
          /\ ship'.at = (IF half = "api" THEN "conf" ELSE "rmbak")
        <3>1. PICK q \in {"conf", "rmbak"}, s \in {Content} :
                /\ ship.at = "send" /\ (q = "conf" <=> half = "api")
                /\ ship' = [ship EXCEPT !.at = q, !.fp = Unmarked, !.label = 0, !.moved = FALSE, !.sent = s]
            BY <1>7 DEF Sent
        <3>2. \A x, y, z, u, v : ship' = [ship EXCEPT !.at = x, !.fp = y, !.label = z, !.moved = u, !.sent = v] =>
                 RunKeeps /\ ship'.switched = ship.switched /\ ship'.sent = v /\ ship'.at = x
            BY <1>0 DEF ShipRuns, RunKeeps
        <3>3. QED
            BY <3>1, <3>2
    <2>2. ShipPlace'
           BY <1>0, <1>7, <2>1 DEF Sent, RunKeeps, ShipData, ShipPlace
    <2>3. ShipKept'
           BY <1>0, <1>7, <2>1 DEF Sent, RunKeeps, ShipData, ShipPlace, ShipKept
    <2>4. ShipNamed'
           BY <1>0, <1>7, <2>1 DEF Sent, RunKeeps, Content, ShipNamed, ShipPlace
    <2>5. (SuccessIsServed /\ ShippedIsNamed /\ FailureLeavesLive)'
           BY <1>0, <1>7, <2>1 DEF Sent, RunKeeps, SuccessIsServed, ShippedIsNamed, FailureLeavesLive, Told, ShipPlace, ShipNamed
    <2>6. QED
           BY <2>2, <2>3, <2>4, <2>5 DEF ShipStands
<1>8. CASE Configured
    <2>1. ship.at = "conf" /\ ship'.at = "rmbak" /\ RunStays
        BY <1>0, <1>8, RunMoves DEF Configured
    <2>2. ShipPlace'
           BY <1>0, <1>8, <2>1 DEF Configured, RunKeeps, RunStays, ShipData, ShipPlace
    <2>3. ShipKept'
           BY <1>0, <1>8, <2>1 DEF Configured, RunKeeps, RunStays, ShipData, ShipPlace, ShipKept
    <2>4. ShipNamed'
           BY <1>0, <1>8, <2>1 DEF Configured, RunKeeps, RunStays, ShipNamed, ShipPlace
    <2>5. (SuccessIsServed /\ ShippedIsNamed /\ FailureLeavesLive)'
           BY <1>0, <1>8, <2>1 DEF Configured, RunKeeps, RunStays, SuccessIsServed, ShippedIsNamed, FailureLeavesLive, Told, ShipPlace, ShipNamed
    <2>6. QED
           BY <2>2, <2>3, <2>4, <2>5 DEF ShipStands
<1>9. CASE SwitchDrops
    <2>1. ship.at = "rmbak" /\ ship'.at = "mvold" /\ RunStays
        BY <1>0, <1>9, RunMoves DEF SwitchDrops
    <2>2. ShipPlace'
           BY <1>0, <1>9, <2>1 DEF SwitchDrops, RunKeeps, RunStays, ShipData, ShipPlace
    <2>3. ShipKept'
           BY <1>0, <1>9, <2>1 DEF SwitchDrops, RunKeeps, RunStays, ShipData, ShipPlace, ShipKept
    <2>4. ShipNamed'
           BY <1>0, <1>9, <2>1 DEF SwitchDrops, RunKeeps, RunStays, ShipNamed, ShipPlace
    <2>5. (SuccessIsServed /\ ShippedIsNamed /\ FailureLeavesLive)'
           BY <1>0, <1>9, <2>1 DEF SwitchDrops, RunKeeps, RunStays, SuccessIsServed, ShippedIsNamed, FailureLeavesLive, Told, ShipPlace, ShipNamed
    <2>6. QED
           BY <2>2, <2>3, <2>4, <2>5 DEF ShipStands
<1>10. CASE SwitchKeeps
    <2>1. ship.at = "mvold" /\ ship'.at = "mvnew" /\ RunStays
        BY <1>0, <1>10, RunMoves DEF SwitchKeeps
    <2>2. ShipPlace'
           BY <1>0, <1>10, <2>1 DEF SwitchKeeps, RunKeeps, RunStays, ShipData, ShipPlace
    <2>3. ShipKept'
           BY <1>0, <1>10, <2>1 DEF SwitchKeeps, RunKeeps, RunStays, ShipData, ShipPlace, ShipKept
    <2>4. ShipNamed'
           BY <1>0, <1>10, <2>1 DEF SwitchKeeps, RunKeeps, RunStays, ShipNamed, ShipPlace
    <2>5. (SuccessIsServed /\ ShippedIsNamed /\ FailureLeavesLive)'
           BY <1>0, <1>10, <2>1 DEF SwitchKeeps, RunKeeps, RunStays, SuccessIsServed, ShippedIsNamed, FailureLeavesLive, Told, ShipPlace, ShipNamed
    <2>6. QED
           BY <2>2, <2>3, <2>4, <2>5 DEF ShipStands
<1>11. CASE SwitchMoves
    <2>1. ship.at = "mvnew" /\ ship'.at = "answer" /\ RunStays
        BY <1>0, <1>11, RunMoves DEF SwitchMoves
    <2>2. ShipPlace'
           BY <1>0, <1>11, <2>1 DEF SwitchMoves, RunKeeps, RunStays, ShipData, ShipPlace
    <2>3. ShipKept'
           BY <1>0, <1>11, <2>1 DEF SwitchMoves, RunKeeps, RunStays, ShipData, ShipPlace, ShipKept
    <2>4. ShipNamed'
           BY <1>0, <1>11, <2>1 DEF SwitchMoves, RunKeeps, RunStays, ShipNamed, ShipPlace
    <2>5. (SuccessIsServed /\ ShippedIsNamed /\ FailureLeavesLive)'
           BY <1>0, <1>11, <2>1 DEF SwitchMoves, RunKeeps, RunStays, SuccessIsServed, ShippedIsNamed, FailureLeavesLive, Told, ShipPlace, ShipNamed
    <2>6. QED
           BY <2>2, <2>3, <2>4, <2>5 DEF ShipStands
<1>12. CASE Switched
    <2>1. /\ ship.at = "answer" /\ RunKeeps /\ ship'.switched /\ ship'.sent = ship.sent
          /\ ship'.at = (IF half = "api" THEN "build" ELSE "reload")
        <3>1. PICK q \in {"build", "reload"} :
                /\ ship.at = "answer" /\ (q = "build" <=> half = "api")
                /\ ship' = [ship EXCEPT !.switched = TRUE, !.at = q]
            BY <1>12 DEF Switched
        <3>2. RunKeeps /\ ship'.switched = TRUE /\ ship'.sent = ship.sent /\ ship'.at = q
            BY <1>0, <3>1 DEF ShipRuns, RunKeeps
        <3>3. QED
            BY <3>1, <3>2
    <2>2. ShipPlace'
           BY <1>0, <1>12, <2>1 DEF Switched, RunKeeps, ShipDirs, ShipData, ShipPlace
    <2>3. ShipKept'
           BY <1>0, <1>12, <2>1 DEF Switched, RunKeeps, ShipData, ShipPlace, ShipKept
    <2>4. ShipNamed'
           <3>1. ship'.at \in {"build", "reload"} /\ ship'.sent = ship.sent /\ ship.at = "answer"
                BY <2>1
            <3>2. marker' = marker /\ passed' = passed
                BY <1>12 DEF Switched
            <3>3. QED
                BY <1>0, <3>1, <3>2 DEF ShipNamed
    <2>5. (SuccessIsServed /\ ShippedIsNamed /\ FailureLeavesLive)'
           BY <1>0, <1>12, <2>1 DEF Switched, RunKeeps, SuccessIsServed, ShippedIsNamed, FailureLeavesLive, Told, ShipPlace, ShipNamed
    <2>6. QED
           BY <2>2, <2>3, <2>4, <2>5 DEF ShipStands
<1>13. CASE Built
    <2>1. ship.at = "build" /\ ship'.at = "migrate" /\ RunStays
        BY <1>0, <1>13, RunMoves DEF Built
    <2>2. ShipPlace'
            <3>1. live' = [live EXCEPT !.built = TRUE] /\ live \in ShipDirs /\ live.rel = Release(ship.id)
                BY <1>0, <1>13, <2>1 DEF Built, ShipPlace, ShipData
            <3>2. live' = [rel |-> Release(ship.id), built |-> TRUE]
                BY <3>1 DEF ShipDirs
            <3>3. QED
                BY <1>0, <1>13, <2>1, <3>2 DEF Built, RunKeeps, RunStays, ShipData, ShipPlace
    <2>3. ShipKept'
           BY <1>0, <1>13, <2>1 DEF Built, RunKeeps, RunStays, ShipData, ShipPlace, ShipKept
    <2>4. ShipNamed'
           BY <1>0, <1>13, <2>1 DEF Built, RunKeeps, RunStays, ShipNamed, ShipPlace
    <2>5. (SuccessIsServed /\ ShippedIsNamed /\ FailureLeavesLive)'
           BY <1>0, <1>13, <2>1 DEF Built, RunKeeps, RunStays, SuccessIsServed, ShippedIsNamed, FailureLeavesLive, Told, ShipPlace, ShipNamed
    <2>6. QED
           BY <2>2, <2>3, <2>4, <2>5 DEF ShipStands
<1>14. CASE Migrated
    <2>1. ship.at = "migrate" /\ ship'.at = "reload" /\ RunStays
        BY <1>0, <1>14, RunMoves DEF Migrated
    <2>2. ShipPlace'
           BY <1>0, <1>14, <2>1 DEF Migrated, RunKeeps, RunStays, ShipData, ShipPlace
    <2>3. ShipKept'
           BY <1>0, <1>14, <2>1 DEF Migrated, RunKeeps, RunStays, ShipData, ShipPlace, ShipKept
    <2>4. ShipNamed'
           BY <1>0, <1>14, <2>1 DEF Migrated, RunKeeps, RunStays, ShipNamed, ShipPlace
    <2>5. (SuccessIsServed /\ ShippedIsNamed /\ FailureLeavesLive)'
           BY <1>0, <1>14, <2>1 DEF Migrated, RunKeeps, RunStays, SuccessIsServed, ShippedIsNamed, FailureLeavesLive, Told, ShipPlace, ShipNamed
    <2>6. QED
           BY <2>2, <2>3, <2>4, <2>5 DEF ShipStands
<1>15. CASE Reloaded
    <2>1. ship.at = "reload" /\ ship'.at = "verify" /\ RunStays
        BY <1>0, <1>15, RunMoves DEF Reloaded
    <2>2. ShipPlace'
           BY <1>0, <1>15, <2>1 DEF Reloaded, RunKeeps, RunStays, Served, ShipData, ShipPlace
    <2>3. ShipKept'
           BY <1>0, <1>15, <2>1 DEF Reloaded, RunKeeps, RunStays, ShipData, ShipPlace, ShipKept
    <2>4. ShipNamed'
           BY <1>0, <1>15, <2>1 DEF Reloaded, RunKeeps, RunStays, ShipNamed, ShipPlace
    <2>5. (SuccessIsServed /\ ShippedIsNamed /\ FailureLeavesLive)'
           BY <1>0, <1>15, <2>1 DEF Reloaded, RunKeeps, RunStays, SuccessIsServed, ShippedIsNamed, FailureLeavesLive, Told, ShipPlace, ShipNamed
    <2>6. QED
           BY <2>2, <2>3, <2>4, <2>5 DEF ShipStands
<1>16. CASE Verified
    <2>1. ship.at = "verify" /\ RunEnds("success")
        BY <1>0, <1>16, RunOver DEF Verified
    <2>2. ShipPlace'
           BY <1>0, <1>16, <2>1 DEF Verified, RunEnds, ShipData, ShipPlace
    <2>3. ShipKept'
           BY <1>0, <1>16, <2>1 DEF Verified, RunEnds, ShipData, ShipPlace, ShipKept
    <2>4. ShipNamed'
           BY <1>0, <1>16, <2>1 DEF Verified, RunEnds, ShipNamed, ShipPlace
    <2>5. (SuccessIsServed /\ ShippedIsNamed /\ FailureLeavesLive)'
            <3>1. /\ live = [rel |-> Release(ship.id), built |-> TRUE] /\ served = Release(ship.id) /\ bak = ship.before
                  /\ (half = "api" => conf = ship.id /\ schema = ship.id)
                BY <1>0, <2>1 DEF ShipPlace
            <3>2. ship.sent \in {"as named", "touched"}
                BY <1>0, <2>1 DEF ShipNamed
            <3>3. UNCHANGED <<live, bak, conf, schema, served, half, sound>> /\ served \in sound
                BY <1>16 DEF Verified, Healthy
            <3>4. ship'.report = "success" /\ ship'.before = ship.before /\ ship'.id = ship.id /\ ship'.sent = ship.sent
                BY <2>1 DEF RunEnds
            <3>5. SuccessIsServed'
                BY <3>1, <3>3, <3>4 DEF SuccessIsServed
            <3>6. QED
                BY <3>2, <3>4, <3>5 DEF ShippedIsNamed, FailureLeavesLive, Told
    <2>6. QED
           BY <2>2, <2>3, <2>4, <2>5 DEF ShipStands
<1>17. CASE ShipFails
    <2>1. CASE Undone
        <3>1. ship.at \in Placed /\ ship'.at = "undo" /\ RunStays
            BY <1>0, <1>17, <2>1, RunMoves DEF ShipFails, Undone, ShipPlace
        <3>2. ShipPlace'
               BY <1>0, <1>17, <2>1, <3>1 DEF ShipFails, RunKeeps, RunStays, Undone, ShipData, ShipPlace
        <3>3. ShipKept'
               BY <1>0, <1>17, <2>1, <3>1 DEF ShipFails, RunKeeps, RunStays, Undone, Halfway, ShipData, ShipPlace, ShipKept
        <3>4. ShipNamed'
               BY <1>0, <1>17, <2>1, <3>1 DEF ShipFails, RunKeeps, RunStays, Undone, ShipNamed, ShipPlace
        <3>5. (SuccessIsServed /\ ShippedIsNamed /\ FailureLeavesLive)'
               BY <1>0, <1>17, <2>1, <3>1 DEF ShipFails, RunKeeps, RunStays, Undone, Halfway, SuccessIsServed, ShippedIsNamed, FailureLeavesLive, Told, ShipPlace, ShipNamed
        <3>6. QED
               BY <3>2, <3>3, <3>4, <3>5 DEF ShipStands
    <2>2. CASE ~Undone
        <3>1. ship.at \in Trapped \ Placed /\ RunEnds("unmodified")
            BY <1>0, <1>17, <2>2, RunOver DEF ShipFails, Undone, ShipPlace
        <3>2. ShipPlace'
               BY <1>0, <1>17, <2>2, <3>1 DEF ShipFails, RunEnds, Undone, ShipData, ShipPlace
        <3>3. ShipKept'
               BY <1>0, <1>17, <2>2, <3>1 DEF ShipFails, RunEnds, Undone, Halfway, ShipData, ShipPlace, ShipKept
        <3>4. ShipNamed'
               BY <1>0, <1>17, <2>2, <3>1 DEF ShipFails, RunEnds, Undone, ShipNamed, ShipPlace
        <3>5. (SuccessIsServed /\ ShippedIsNamed /\ FailureLeavesLive)'
               BY <1>0, <1>17, <2>2, <3>1 DEF ShipFails, RunEnds, Undone, Halfway, SuccessIsServed, ShippedIsNamed, FailureLeavesLive, Told, ShipPlace, ShipNamed
        <3>6. QED
               BY <3>2, <3>3, <3>4, <3>5 DEF ShipStands
    <2>3. QED
        BY <1>0, <1>17, <2>1, <2>2 DEF ShipFails
<1>18. CASE UndoAsked
    <2>1. ship.at = "over" /\ ship' = [NewShip("undo", bak) EXCEPT !.report = "by hand"] /\ ship.id < MaxShips
        BY <1>18 DEF UndoAsked
    <2>2. ship'.report = "by hand"
        BY <2>1 DEF NewShip
    <2>3. ship'.at = "undo" /\ ship'.before = bak /\ ship'.report = "by hand" /\ ship'.sent = "nothing"
        BY <1>0, <2>1, <2>2, ShipIsNew DEF ShipData
    <2>4. ShipPlace'
           BY <1>0, <1>18, <2>3 DEF UndoAsked, ShipData, ShipPlace
    <2>5. ShipKept'
           BY <1>0, <1>18, <2>3 DEF UndoAsked, ShipData, ShipPlace, ShipKept
    <2>6. ShipNamed'
           BY <1>0, <1>18, <2>3 DEF UndoAsked, ShipNamed, ShipPlace
    <2>7. (SuccessIsServed /\ ShippedIsNamed /\ FailureLeavesLive)'
           BY <1>0, <1>18, <2>3 DEF UndoAsked, SuccessIsServed, ShippedIsNamed, FailureLeavesLive, Told, ShipPlace, ShipNamed
    <2>8. QED
           BY <2>4, <2>5, <2>6, <2>7 DEF ShipStands
<1>19. CASE UndoRemoves
    <2>1. CASE bak = NoDir
        <3>1. ship.at = "undo" /\ RunEnds("failed") /\ UNCHANGED <<live, kept>>
            BY <1>0, <1>19, <2>1, RunOver DEF UndoRemoves
        <3>2. ShipPlace'
               BY <1>0, <1>19, <2>1, <3>1 DEF UndoRemoves, RunEnds, ShipData, ShipPlace
        <3>3. ShipKept'
                <4>1. kept # 0 /\ NoDir.rel = 0
                    BY <1>0, ShipNats, DeployAssumption DEF ShipData, NoDir, Release
                <4>2. UNCHANGED <<kept, live, torn>> /\ ship'.at = "over"
                    BY <1>19, <3>1 DEF UndoRemoves, RunEnds
                <4>3. QED
                    BY <1>0, <2>1, <3>1, <4>1, <4>2 DEF ShipKept
        <3>4. ShipNamed'
               BY <1>0, <1>19, <2>1, <3>1 DEF UndoRemoves, RunEnds, ShipNamed, ShipPlace
        <3>5. (SuccessIsServed /\ ShippedIsNamed /\ FailureLeavesLive)'
               BY <1>0, <1>19, <2>1, <3>1 DEF UndoRemoves, RunEnds, SuccessIsServed, ShippedIsNamed, FailureLeavesLive, Told, ShipPlace, ShipNamed
        <3>6. QED
               BY <3>2, <3>3, <3>4, <3>5 DEF ShipStands
    <2>2. CASE bak # NoDir
        <3>1. /\ ship.at = "undo" /\ ship'.at = "back" /\ RunStays /\ live' = NoDir
              /\ kept' = IF ship.report = "by hand" THEN bak.rel ELSE kept
            BY <1>0, <1>19, <2>2, RunMoves DEF UndoRemoves
        <3>2. ShipPlace'
               BY <1>0, <1>19, <2>2, <3>1 DEF UndoRemoves, RunKeeps, RunStays, ShipData, ShipPlace
        <3>3. ShipKept'
               BY <1>0, <1>19, <2>2, <3>1 DEF UndoRemoves, RunKeeps, RunStays, NoDir, ShipData, ShipPlace, ShipKept
        <3>4. ShipNamed'
               BY <1>0, <1>19, <2>2, <3>1 DEF UndoRemoves, RunKeeps, RunStays, ShipNamed, ShipPlace
        <3>5. (SuccessIsServed /\ ShippedIsNamed /\ FailureLeavesLive)'
               BY <1>0, <1>19, <2>2, <3>1 DEF UndoRemoves, RunKeeps, RunStays, SuccessIsServed, ShippedIsNamed, FailureLeavesLive, Told, ShipPlace, ShipNamed
        <3>6. QED
               BY <3>2, <3>3, <3>4, <3>5 DEF ShipStands
    <2>3. QED
        BY <1>0, <1>19, <2>1, <2>2 DEF UndoRemoves
<1>20. CASE UndoPutsBack
    <2>1. ship.at = "back" /\ ship'.at = "restart" /\ RunStays
        BY <1>0, <1>20, RunMoves DEF UndoPutsBack
    <2>2. ShipPlace'
           BY <1>0, <1>20, <2>1 DEF UndoPutsBack, RunKeeps, RunStays, ShipData, ShipPlace
    <2>3. ShipKept'
           BY <1>0, <1>20, <2>1 DEF UndoPutsBack, RunKeeps, RunStays, ShipData, ShipPlace, ShipKept
    <2>4. ShipNamed'
           BY <1>0, <1>20, <2>1 DEF UndoPutsBack, RunKeeps, RunStays, ShipNamed, ShipPlace
    <2>5. (SuccessIsServed /\ ShippedIsNamed /\ FailureLeavesLive)'
           BY <1>0, <1>20, <2>1 DEF UndoPutsBack, RunKeeps, RunStays, SuccessIsServed, ShippedIsNamed, FailureLeavesLive, Told, ShipPlace, ShipNamed
    <2>6. QED
           BY <2>2, <2>3, <2>4, <2>5 DEF ShipStands
<1>21. CASE UndoReloads
    <2>1. ship.at = "restart" /\ (RunEnds("rolled_back") \/ RunEnds("none"))
        BY <1>0, <1>21, RunOver DEF UndoReloads
    <2>2. ShipPlace'
           BY <1>0, <1>21, <2>1 DEF UndoReloads, RunEnds, ShipData, ShipPlace
    <2>3. ShipKept'
           BY <1>0, <1>21, <2>1 DEF UndoReloads, RunEnds, ShipData, ShipPlace, ShipKept
    <2>4. ShipNamed'
           BY <1>0, <1>21, <2>1 DEF UndoReloads, RunEnds, ShipNamed, ShipPlace
    <2>5. (SuccessIsServed /\ ShippedIsNamed /\ FailureLeavesLive)'
           BY <1>0, <1>21, <2>1 DEF UndoReloads, RunEnds, SuccessIsServed, ShippedIsNamed, FailureLeavesLive, Told, ShipPlace, ShipNamed
    <2>6. QED
           BY <2>2, <2>3, <2>4, <2>5 DEF ShipStands
<1>22. CASE UndoFails
    <2>1. ship.at \in Undoing /\ RunEnds("failed")
        BY <1>0, <1>22, RunOver DEF UndoFails
    <2>2. ShipPlace'
           BY <1>0, <1>22, <2>1 DEF UndoFails, RunEnds, ShipData, ShipPlace
    <2>3. ShipKept'
           BY <1>0, <1>22, <2>1 DEF UndoFails, RunEnds, ShipData, ShipPlace, ShipKept
    <2>4. ShipNamed'
           BY <1>0, <1>22, <2>1 DEF UndoFails, RunEnds, ShipNamed, ShipPlace
    <2>5. (SuccessIsServed /\ ShippedIsNamed /\ FailureLeavesLive)'
           BY <1>0, <1>22, <2>1 DEF UndoFails, RunEnds, SuccessIsServed, ShippedIsNamed, FailureLeavesLive, Told, ShipPlace, ShipNamed
    <2>6. QED
           BY <2>2, <2>3, <2>4, <2>5 DEF ShipStands
<1>23. CASE ShipKilled
    <2>1. ship.at # "over" /\ RunEnds("none")
        BY <1>0, <1>23, RunOver DEF ShipKilled
    <2>2. ShipPlace'
           BY <1>0, <1>23, <2>1 DEF ShipKilled, RunEnds, ShipData, ShipPlace
    <2>3. ShipKept'
           BY <1>0, <1>23, <2>1 DEF ShipKilled, RunEnds, Halfway, ShipData, ShipPlace, ShipKept
    <2>4. ShipNamed'
           BY <1>0, <1>23, <2>1 DEF ShipKilled, RunEnds, ShipNamed, ShipPlace
    <2>5. (SuccessIsServed /\ ShippedIsNamed /\ FailureLeavesLive)'
           BY <1>0, <1>23, <2>1 DEF ShipKilled, RunEnds, SuccessIsServed, ShippedIsNamed, FailureLeavesLive, Told, ShipPlace, ShipNamed
    <2>6. QED
           BY <2>2, <2>3, <2>4, <2>5 DEF ShipStands
<1>24. CASE UNCHANGED shipVars
    <2>1. UNCHANGED shipVars
        BY <1>24
    <2>2. ShipPlace' /\ ShipKept' /\ ShipNamed'
        <3>1. ShipPlace'
            BY <1>0, <2>1 DEF shipVars, ShipPlace
        <3>2. ShipKept'
            BY <1>0, <2>1 DEF shipVars, ShipKept
        <3>3. ShipNamed'
            BY <1>0, <2>1 DEF shipVars, ShipNamed
        <3>4. QED
            BY <3>1, <3>2, <3>3
    <2>3. SuccessIsServed' /\ ShippedIsNamed' /\ FailureLeavesLive'
        BY <1>0, <2>1 DEF shipVars, SuccessIsServed, ShippedIsNamed, FailureLeavesLive, Told
    <2>4. QED
        BY <2>2, <2>3 DEF ShipStands
<1>25. QED
    BY <1>1, <1>2, <1>3, <1>4, <1>5, <1>6, <1>7, <1>8, <1>9, <1>10, <1>11, <1>12, <1>13, <1>14, <1>15, <1>16, <1>17, <1>18, <1>19, <1>20, <1>21, <1>22, <1>23, <1>24 DEF ShipNext

\* deploy-api.sh and deploy-front.sh: the version that was well is live or is
\* the backup until a run breaks off halfway, a rollback and a failure leave
\* what was live, and a run that is told a success is served, with its own
\* configuration and schema, and is what its name says, wherever a command
\* fails or the run is killed.
THEOREM ShipsAlways ==
    ShipSpec => [](ShipTypeOK /\ FailureLeavesLive /\ VersionIsKept /\ SuccessIsServed /\ ShippedIsNamed)
<1>1. ShipInit => ShipInv
    <2> SUFFICES ASSUME ShipInit PROVE ShipInv
        OBVIOUS
    <2>1. Release(0) = 1 /\ 1 \in 0 .. Release(MaxShips) /\ 1 \in 1 .. Release(MaxShips) /\ 0 \in 0 .. MaxShips
          /\ 1 \in 1 .. MaxTree + 1
        BY DeployAssumption DEF Release
    <2>2. NoDir \in ShipDirs /\ [rel |-> 1, built |-> TRUE] \in ShipDirs
        BY <2>1, DirNamed DEF ShipDirs
    <2>3. ship \in ShipRuns
        BY <2>1, <2>2 DEF ShipInit, ShipRuns, Steps, Reports, Unmarked
    <2>4. sound \subseteq 1 .. Release(MaxShips)
        <3>1. \A i \in 1 .. MaxShips : Release(i) \in 1 .. Release(MaxShips)
            BY ShipNats
        <3>2. QED
            BY <2>1, <3>1 DEF ShipInit
    <2>5. ShipData
        <3>1. tree \in [head : 1 .. MaxTree + 1, dirty : BOOLEAN] /\ marker \in Nat
            BY <2>1 DEF ShipInit, Unmarked
        <3>2. live \in ShipDirs /\ bak \in ShipDirs /\ live.rel = 1 /\ bak = NoDir
            BY <2>2 DEF ShipInit
        <3>3. /\ conf \in 0 .. MaxShips /\ schema \in 0 .. MaxShips /\ served \in 0 .. Release(MaxShips)
              /\ kept \in 1 .. Release(MaxShips) /\ torn \in BOOLEAN
            BY <2>1 DEF ShipInit
        <3>4. half \in {"api", "front"} /\ (half = "front" => conf = 0 /\ schema = 0 /\ ship.at \notin {"conf", "build", "migrate"})
            BY DEF ShipInit
        <3>5. QED
            BY <2>4, <3>1, <3>2, <3>3, <3>4 DEF ShipData
    <2>6. ShipPlace /\ ShipKept /\ ShipNamed
        BY DEF ShipInit, ShipPlace, ShipKept, ShipNamed, Trapped, Sending, Placed, Undoing, Unmarked
    <2>7. SuccessIsServed /\ ShippedIsNamed /\ FailureLeavesLive
        BY DEF ShipInit, SuccessIsServed, ShippedIsNamed, FailureLeavesLive, Told
    <2>8. QED
        BY <2>3, <2>5, <2>6, <2>7 DEF ShipInv
<1>2. ShipInv /\ [ShipNext]_shipVars => ShipInv'
    BY ShipStep, ShipRunStep, ShipDataStep DEF ShipInv, ShipStands
<1>3. ShipInv => ShipTypeOK /\ FailureLeavesLive /\ VersionIsKept /\ SuccessIsServed /\ ShippedIsNamed
    <2> SUFFICES ASSUME ShipInv PROVE ShipTypeOK /\ FailureLeavesLive /\ VersionIsKept /\ SuccessIsServed /\ ShippedIsNamed
        OBVIOUS
    <2>1. kept \in 0 .. Release(MaxShips) /\ live.rel \in 0 .. Release(MaxShips) /\ bak.rel \in 0 .. Release(MaxShips)
        <3>1. Release(MaxShips) \in Nat
            BY DeployAssumption DEF Release
        <3>2. QED
            BY <3>1 DEF ShipInv, ShipData, ShipDirs
    <2>2. ship.id \in 0 .. MaxShips /\ ship.at \in Steps /\ ship.report \in Reports
        BY DEF ShipInv, ShipRuns
    <2>3. ShipTypeOK
        BY <2>1, <2>2 DEF ShipTypeOK, ShipInv, ShipData, Steps, Undoing, Reports
    <2>4. VersionIsKept
        BY <2>2 DEF VersionIsKept, ShipInv, ShipKept, Steps, Undoing, Trapped, Sending, Placed
    <2>5. QED
        BY <2>3, <2>4 DEF ShipInv
<1>4. QED
    BY <1>1, <1>2, <1>3, PTL DEF ShipSpec
-----------------------------------------------------------------------------
(* HostKeys.                                                               *)

\* A connection on its way to its first pin was given no pin, and what it saw
\* is a key.
Standings == [at : {"idle", "shake", "trusted", "relabel", "open"},
              pins : [Algorithms -> Keys \cup {NoKey}],
              key : Keys \cup {NoKey}]

DialsInv ==
    /\ dial \in [Dials -> Standings]
    /\ \A d \in Dials :
        /\ dial[d].at \in {"trusted", "relabel"} => dial[d].key \in Keys
        /\ dial[d].at = "trusted" => dial[d].pins = Unpinned

KeyInv == KeyTypeOK /\ DialsInv

LEMMA AlgorithmsAreNamed == \A k \in Keys : AlgOf[k] \in Algorithms /\ AlgOf[k] # Legacy
BY HostKeyAssumption DEF Algorithms

LEMMA KeyInitInv == KeyInit => KeyInv
<1> SUFFICES ASSUME KeyInit PROVE KeyInv
    OBVIOUS
<1>1. pins \in [Algorithms -> Keys \cup {NoKey}] /\ accepted \subseteq Keys
    BY AlgorithmsAreNamed DEF KeyInit, Unpinned
<1>2. \A a \in Pins \ {Legacy} : AlgOf[pins[a]] = a
    BY AlgorithmsAreNamed DEF KeyInit, Unpinned, Pins
<1>3. QED
    BY <1>1, <1>2, HostKeyAssumption DEF KeyInit, KeyInv, DialsInv, Standings, KeyTypeOK, IdleDial, Unpinned

\* A step keeps the invariant, and pins no key beside or over another by
\* itself.
KeyStepIsAsked ==
    \A a \in Algorithms : pins'[a] \notin {pins[a], NoKey} /\ Pins # {} =>
        \/ pins'[a] \in accepted'
        \/ \E b \in Pins : pins[b] = pins'[a]
        \/ \E d \in Dials : dial[d].at = "trusted" /\ dial[d].key = pins'[a]
                            /\ dial[d].pins = Unpinned

LEMMA KeyStep == KeyInv /\ [KeyNext]_keyVars => KeyInv' /\ KeyStepIsAsked
<1> SUFFICES ASSUME KeyInv, [KeyNext]_keyVars PROVE KeyInv' /\ KeyStepIsAsked
    OBVIOUS
<1> USE AlgorithmsAreNamed
<1>0. Evicted \in [Dials -> Standings]
      /\ \A d \in Dials : Evicted[d].at \in {"trusted", "relabel"} => Evicted[d] = dial[d]
    BY DEF KeyInv, DialsInv, Evicted, IdleDial, Unpinned, Standings
<1>1. ASSUME NEW d \in Dials, KeyDial(d) PROVE KeyInv' /\ KeyStepIsAsked
    BY <1>1 DEF KeyDial, KeyInv, DialsInv, Standings, KeyTypeOK, KeyStepIsAsked, Pins
<1>2. ASSUME NEW d \in Dials, KeyShake(d) PROVE KeyInv' /\ KeyStepIsAsked
    <2> DEFINE v == Verdict(dial[d].pins, offers)
    <2>1. v \in {"trusted", "matched", "relabel", "mismatch"} /\ (v = "trusted" => dial[d].pins = Unpinned)
        BY DEF Verdict
    <2>2. offers \in Keys /\ there' = there /\ pins' = pins /\ offers' = offers /\ swaps' = swaps /\ accepted' = accepted
        BY <1>2 DEF KeyShake, KeyInv, KeyTypeOK
    <2>3. dial' = IF v = "mismatch" THEN [Evicted EXCEPT ![d] = IdleDial]
                  ELSE [dial EXCEPT ![d].at = IF v = "matched" THEN "open" ELSE v, ![d].key = offers]
        BY <1>2 DEF KeyShake
    <2> HIDE DEF v
    <2>4. DialsInv'
        <3>1. CASE v = "mismatch"
            BY <1>0, <2>3, <3>1 DEF KeyInv, DialsInv, IdleDial, Unpinned, Standings
        <3>2. CASE v # "mismatch"
            BY <2>1, <2>2, <2>3, <3>2 DEF KeyInv, DialsInv, Standings
        <3>3. QED
            BY <3>1, <3>2
    <2>5. KeyStepIsAsked
        BY <2>2 DEF KeyStepIsAsked
    <2>6. Pins' = Pins
        BY <2>2 DEF Pins
    <2>7. \A e \in Dials : dial'[e].at \in {"idle", "shake", "trusted", "relabel", "open"}
        BY <2>4 DEF DialsInv, Standings
    <2>8. KeyTypeOK'
        BY <2>2, <2>6, <2>7 DEF KeyInv, KeyTypeOK
    <2>9. KeyInv'
        BY <2>4, <2>8 DEF KeyInv
    <2>10. QED
        BY <2>5, <2>9
<1>3. ASSUME NEW d \in Dials, KeyPin(d) PROVE KeyInv' /\ KeyStepIsAsked
    BY <1>3 DEF KeyPin, KeyInv, DialsInv, Standings, KeyTypeOK, KeyStepIsAsked, Pins
<1>4. ASSUME NEW d \in Dials, KeyRelabel(d) PROVE KeyInv' /\ KeyStepIsAsked
    BY <1>4 DEF KeyRelabel, KeyInv, DialsInv, Standings, KeyTypeOK, KeyStepIsAsked, Pins, Algorithms
<1>5. ASSUME NEW d \in Dials, KeyHangUp(d) PROVE KeyInv' /\ KeyStepIsAsked
    BY <1>5 DEF KeyHangUp, KeyInv, DialsInv, Standings, KeyTypeOK, KeyStepIsAsked, Pins, IdleDial, Unpinned
<1>6. CASE KeyAccept
    BY <1>0, <1>6 DEF KeyAccept, KeyInv, DialsInv, Standings, KeyTypeOK, KeyStepIsAsked, Pins
<1>7. CASE KeyOnForm
    BY <1>0, <1>7 DEF KeyOnForm, KeyInv, DialsInv, Standings, KeyTypeOK, KeyStepIsAsked, Pins
<1>8. CASE KeyHostGone
    BY <1>0, <1>8 DEF KeyHostGone, KeyInv, DialsInv, Standings, KeyTypeOK, KeyStepIsAsked, Pins, Unpinned
<1>9. CASE ServerSwaps
    BY <1>9, HostKeyAssumption DEF ServerSwaps, KeyInv, DialsInv, Standings, KeyTypeOK, KeyStepIsAsked, Pins
<1>10. CASE UNCHANGED keyVars
    BY <1>10 DEF keyVars, KeyInv, DialsInv, Standings, KeyTypeOK, KeyStepIsAsked, Pins
<1>11. QED
    BY <1>1, <1>2, <1>3, <1>4, <1>5, <1>6, <1>7, <1>8, <1>9, <1>10 DEF KeyNext

\* A key is pinned on a host with any pin only because a person confirmed it,
\* because its row is relabelled, or because two connections found the host
\* without a pin (HostKeyService), for any keys and connections.
THEOREM PinsAlways == KeySpec => []KeyTypeOK /\ PinsDoNotSpread
<1>1. KeySpec => []KeyInv /\ [][KeyStepIsAsked]_keyVars
    BY KeyInitInv, KeyStep, PTL DEF KeySpec
<1>2. QED
    BY <1>1, PTL DEF KeyInv, PinsDoNotSpread, KeyStepIsAsked
-----------------------------------------------------------------------------
(* HostEdits.                                                              *)

\* An edit on its way to its transaction carries roots a member may have.
RowInv ==
    /\ RowTypeOK /\ host \in [there : BOOLEAN, home : Paths]
    /\ edit \in [Edits -> [at : {"idle", "tx", "done"}, home : Maybe(Paths),
                           roots : Maybe(SUBSET Paths), was : Maybe(Paths)]]
    /\ \A e \in Edits :
        /\ edit[e].at = "tx" => edit[e].was # {}
        /\ edit[e].at = "tx" /\ edit[e].roots # {} /\ ~owner => The(edit[e].roots) # {}
    /\ NeverRootless

LEMMA TheOne == ASSUME NEW S, NEW m \in Maybe(S), m # {} PROVE The(m) \in S
BY DEF Maybe, The

LEMMA RowInitInv == RowInit => RowInv
BY HostEditAssumption DEF RowInit, RowInv, RowTypeOK, NeverRootless, Idle, Maybe

LEMMA RowStep == RowInv /\ [RowNext]_rowVars => RowInv'
<1> SUFFICES ASSUME RowInv, [RowNext]_rowVars PROVE RowInv'
    OBVIOUS
<1>1. CASE HostCreate
    <2>1. PICK h \in Paths, rs \in Maybe(SUBSET Paths) :
              LET wanted == IF rs = {} THEN {h} ELSE The(rs)
              IN  Usable(h, wanted) /\ host' = [there |-> TRUE, home |-> h] /\ roots' = wanted
        BY <1>1 DEF HostCreate
    <2>2. rs # {} => The(rs) \in SUBSET Paths
        BY TheOne
    <2>3. QED
        BY <1>1, <2>1, <2>2 DEF HostCreate, RowInv, RowTypeOK, NeverRootless, Usable
<1>2. ASSUME NEW e \in Edits, HostEdit(e) PROVE RowInv'
    <2>1. PICK h \in Maybe(Paths), rs \in Maybe(SUBSET Paths) :
              /\ rs # {} => Usable(IF h = {} THEN host.home ELSE The(h), The(rs))
              /\ edit' = [edit EXCEPT ![e] = [at |-> "tx", home |-> h, roots |-> rs, was |-> {host.home}]]
        BY <1>2 DEF HostEdit
    <2>2. {host.home} \in Maybe(Paths)
        BY DEF RowInv, RowTypeOK, Maybe
    <2>3. UNCHANGED <<host, roots, owner>>
        BY <1>2 DEF HostEdit
    <2>4. QED
        BY <2>1, <2>2, <2>3 DEF RowInv, RowTypeOK, NeverRootless, Usable
<1>3. ASSUME NEW e \in Edits, HostEditCommit(e) PROVE RowInv'
    <2> DEFINE q == edit[e]
    <2>1. /\ q.home # {} => The(q.home) \in Paths
          /\ q.roots # {} => The(q.roots) \in SUBSET Paths
          /\ The(q.was) \in Paths
        BY <1>3, TheOne DEF HostEditCommit, RowInv
    <2>2. [Idle EXCEPT !.at = "done"] = [at |-> "done", home |-> {}, roots |-> {}, was |-> {}]
        BY DEF Idle
    <2>3. edit' \in [Edits -> [at : {"idle", "tx", "done"}, home : Maybe(Paths),
                              roots : Maybe(SUBSET Paths), was : Maybe(Paths)]]
          /\ \A f \in Edits : edit'[f].at = "tx" => edit'[f] = edit[f]
        BY <1>3, <2>2 DEF HostEditCommit, RowInv, Maybe
    <2>4. owner' = owner /\ edit' \in [Edits -> [at : {"idle", "tx", "done"}, home : Maybe(Paths),
                                             roots : Maybe(SUBSET Paths), was : Maybe(Paths)]]
        BY <1>3, <2>3 DEF HostEditCommit
    <2>5. CASE ~host.there
        <3>1. host' = host /\ roots' = roots
            BY <1>3, <2>5 DEF HostEditCommit
        <3>2. QED
            BY <2>3, <2>4, <3>1 DEF RowInv, RowTypeOK, NeverRootless
    <2>6. CASE host.there
        <3>1. host' \in [there : BOOLEAN, home : Paths] /\ host'.there
            BY <1>3, <2>1, <2>6 DEF HostEditCommit, RowInv
        <3>2. roots' = IF q.roots # {} THEN The(q.roots)
                       ELSE IF q.home # {} THEN Moved(The(q.was), The(q.home)) ELSE roots
            BY <1>3, <2>6 DEF HostEditCommit
        <3>3. roots' \subseteq Paths
            BY <2>1, <3>2 DEF Moved, RowInv, RowTypeOK
        <3>4. ~owner => roots' # {}
            BY <1>3, <2>6, <3>2 DEF Moved, RowInv, NeverRootless, HostEditCommit
        <3>5. QED
            BY <2>3, <2>4, <3>1, <3>3, <3>4 DEF RowInv, RowTypeOK, NeverRootless
    <2>7. QED
        BY <2>5, <2>6
<1>4. CASE HostRemove
    BY <1>4 DEF HostRemove, RowInv, RowTypeOK, NeverRootless
<1>5. CASE UNCHANGED rowVars
    BY <1>5 DEF rowVars, RowInv, RowTypeOK, NeverRootless
<1>6. QED
    BY <1>1, <1>2, <1>3, <1>4, <1>5 DEF RowNext

\* Whatever edits of a member's host interleave, it keeps a root
\* (HostsService.update), for any paths and edits.
THEOREM RootsAlways == RowSpec => [](RowTypeOK /\ NeverRootless)
<1>1. RowSpec => []RowInv
    BY RowInitInv, RowStep, PTL DEF RowSpec
<1>2. RowInv => RowTypeOK /\ NeverRootless
    BY DEF RowInv
<1>3. QED
    BY <1>1, <1>2, PTL
-----------------------------------------------------------------------------
(* HostReadings.                                                           *)

\* What the variables hold, named apart from how they hang together.
Asking  == [at : {"idle", "driver", "collect", "wait"}, kind : Kinds, gen : Nat]
Reading == [gen : Int, fresh : BOOLEAN]

ReadShape ==
    /\ gen \in 0..MaxEdits /\ owed \in BOOLEAN /\ readings \in 0..MaxReadings
    /\ reader \in [Readers -> Asking] /\ cache \in [Kinds -> Reading]
    /\ inFlight \in [Coalesced -> Readers \cup {"none"}]
    /\ history \in Seq(Nat) /\ Len(history) <= Window /\ late \subseteq Kinds

\* Nothing was read over a connection of the future.
ReadPast ==
    /\ \A r \in Readers : reader[r].gen <= gen
    /\ \A k \in Kinds : cache[k].gen \in -1..gen

\* Who collects for a coalesced kind is the one `inFlight` names, and who waits
\* waits for somebody.
ReadLinks ==
    /\ \A k \in Coalesced : inFlight[k] # "none" => At(inFlight[k], "collect", k)
    /\ \A k \in Coalesced, r \in Readers : At(r, "collect", k) => inFlight[k] = r
    /\ \A r \in Readers : reader[r].at = "wait" => Pending(reader[r].kind)

\* Unless an edit is still to be told, whoever is under way has the connection
\* as it is, or was there when it was told.
CurrentOrLate ==
    ~owed => /\ ForgottenWithTheEdit
             /\ \A r \in Readers : reader[r].at # "idle" => reader[r].gen = gen \/ reader[r].kind \in late

ReadInv == ReadShape /\ ReadPast /\ ReadLinks /\ CurrentOrLate

LEMMA ReadInitInv == ReadInit => ReadInv
<1> SUFFICES ASSUME ReadInit PROVE ReadInv
    OBVIOUS
<1>1. Quiet \in Asking /\ None \in Reading
    BY DEF Quiet, None, Asking, Reading, Kinds
<1>2. ReadShape
    <2>1. MaxEdits \in Nat /\ MaxReadings \in Nat /\ Window \in Nat
        BY ReadingAssumption
    <2>2. gen \in 0..MaxEdits /\ readings \in 0..MaxReadings
        BY <2>1 DEF ReadInit
    <2>7. late \subseteq Kinds /\ owed \in BOOLEAN
        BY Zenon DEF ReadInit
    <2>3. history \in Seq(Nat) /\ Len(history) <= Window
        BY <2>1 DEF ReadInit
    <2>4. reader \in [Readers -> Asking] /\ cache \in [Kinds -> Reading]
        BY <1>1 DEF ReadInit
    <2>5. inFlight \in [Coalesced -> Readers \cup {"none"}]
        BY DEF ReadInit
    <2>6. QED
        BY <2>2, <2>3, <2>4, <2>5, <2>7 DEF ReadShape
<1>3. ReadPast
    BY DEF ReadInit, ReadPast, Quiet, None
<1>4. ReadLinks
    BY DEF ReadInit, ReadLinks, Quiet, At
<1>5. CurrentOrLate
    BY DEF ReadInit, CurrentOrLate, ForgottenWithTheEdit, Quiet, None
<1>6. QED
    BY <1>2, <1>3, <1>4, <1>5 DEF ReadInv

\* The window: what is kept is the end of what there was.
LEMMA KeptWindow ==
    ASSUME NEW s \in Seq(Nat), NEW g \in Nat, Len(s) <= Window
    PROVE  /\ Kept(Append(s, g)) \in Seq(Nat)
           /\ Len(Kept(Append(s, g))) <= Window
           /\ \A i \in DOMAIN Kept(Append(s, g)) :
                 Kept(Append(s, g))[i] = g \/ \E j \in DOMAIN s : Kept(Append(s, g))[i] = s[j]
<1> DEFINE t == Append(s, g)
<1>1. t \in Seq(Nat) /\ Len(t) = Len(s) + 1 /\ Len(s) \in Nat /\ Window \in Nat \ {0}
    BY ReadingAssumption
<1>2. \A i \in 1 .. Len(t) : t[i] = g \/ \E j \in DOMAIN s : t[i] = s[j]
    OBVIOUS
<1> HIDE DEF t
<1>3. CASE Len(t) > Window
    <2> DEFINE m == Len(t) - Window + 1
    <2>1. Kept(t) = SubSeq(t, m, Len(t)) /\ m \in 1 .. Len(t)
        BY <1>1, <1>3 DEF Kept
    <2>2. /\ SubSeq(t, m, Len(t)) \in Seq(Nat) /\ Len(SubSeq(t, m, Len(t))) = Window
          /\ \A i \in 1 .. Window : SubSeq(t, m, Len(t))[i] = t[i + m - 1] /\ i + m - 1 \in 1 .. Len(t)
        <3>1. m \in Nat /\ m >= 1 /\ m <= Len(t) /\ Len(t) \in Nat /\ Len(t) - m + 1 = Window
            BY <1>1, <2>1
        <3> HIDE DEF m
        <3>2. SubSeq(t, m, Len(t)) \in Seq(Nat) /\ Len(SubSeq(t, m, Len(t))) = Len(t) - m + 1
            BY <1>1, <3>1
        <3>3. \A i \in 1 .. Window : i + m - 1 \in 1 .. Len(t) /\ i \in 1 .. Len(t) - m + 1
            BY <1>1, <3>1
        <3>4. \A i \in 1 .. Len(t) - m + 1 : SubSeq(t, m, Len(t))[i] = t[i + m - 1]
            BY <1>1, <3>1
        <3>5. QED
            BY <3>1, <3>2, <3>3, <3>4
    <2>3. DOMAIN SubSeq(t, m, Len(t)) = 1 .. Window
        BY <1>1, <2>2
    <2>4. \A i \in 1 .. Window : \/ SubSeq(t, m, Len(t))[i] = g
                                \/ \E j \in DOMAIN s : SubSeq(t, m, Len(t))[i] = s[j]
        BY <1>2, <2>2
    <2>5. /\ Kept(t) \in Seq(Nat) /\ Len(Kept(t)) <= Window
          /\ \A i \in DOMAIN Kept(t) : Kept(t)[i] = g \/ \E j \in DOMAIN s : Kept(t)[i] = s[j]
        <3>1. Window <= Window
            BY <1>1
        <3> HIDE DEF m
        <3>2. QED
            BY <2>1, <2>2, <2>3, <2>4, <3>1
    <2>6. QED
        BY <2>5 DEF t
<1>4. CASE ~(Len(t) > Window)
    BY <1>1, <1>2, <1>4 DEF Kept, t
<1>5. QED
    BY <1>3, <1>4

\* A request that comes leaves what is kept alone.
LEMMA AskStep == ASSUME ReadInv, NEW r \in Readers, ReadAsk(r) PROVE ReadInv'
<1>1. PICK k \in Kinds : reader' = [reader EXCEPT ![r] = [at |-> "driver", kind |-> k, gen |-> gen]]
    BY DEF ReadAsk
<1>3. /\ gen' = gen /\ owed' = owed /\ cache' = cache /\ inFlight' = inFlight /\ history' = history
      /\ readings' = readings /\ late' = late
    BY DEF ReadAsk
<1>4. reader[r].at = "idle"
    BY DEF ReadAsk
<1>5. gen \in Nat /\ [at |-> "driver", kind |-> k, gen |-> gen] \in Asking
    BY ReadingAssumption DEF ReadInv, ReadShape, Asking
<1>7. reader \in [Readers -> Asking]
    BY DEF ReadInv, ReadShape
<1>8. /\ reader' \in [Readers -> Asking] /\ reader'[r] = [at |-> "driver", kind |-> k, gen |-> gen]
      /\ \A q \in Readers \ {r} : reader'[q] = reader[q]
    BY <1>1, <1>5, <1>7
<1>9. ReadShape'
    BY <1>3, <1>8 DEF ReadInv, ReadShape
<1>10. ReadPast'
    BY <1>3, <1>5, <1>8 DEF ReadInv, ReadPast
<1>11. ReadLinks'
    <2>1. \A i \in Coalesced : inFlight[i] # "none" => inFlight[i] \in Readers
        BY DEF ReadInv, ReadShape
    <2>2. QED
        BY <1>3, <1>4, <1>8, <2>1 DEF ReadInv, ReadLinks, At, Pending
<1>12. CurrentOrLate'
    BY <1>3, <1>8 DEF ReadInv, CurrentOrLate, ForgottenWithTheEdit
<1>13. QED
    BY <1>9, <1>10, <1>11, <1>12 DEF ReadInv

\* Those who are answered ask no more.
LEMMA QuietReaders ==
    ASSUME ReadInv, NEW rs, NEW next, next = Answered(rs)
    PROVE  /\ next \in [Readers -> Asking]
           /\ \A q \in Readers : next[q] = IF q \in rs THEN Quiet ELSE reader[q]
           /\ Quiet.at = "idle" /\ Quiet.gen = 0
<1>1. Quiet \in Asking /\ Quiet.at = "idle" /\ Quiet.gen = 0
    BY DEF Quiet, Asking, Kinds
<1>2. QED
    BY <1>1 DEF Answered, ReadInv, ReadShape

LEMMA BeginStep == ASSUME ReadInv, NEW r \in Readers, ReadBegin(r) PROVE ReadInv'
<1> DEFINE k == reader[r].kind
<1>1. /\ gen' = gen /\ owed' = owed /\ cache' = cache /\ history' = history /\ late' = late
      /\ reader[r].at = "driver"
    BY DEF ReadBegin
<1>2. reader \in [Readers -> Asking] /\ k \in Kinds /\ gen \in Nat /\ readings \in 0..MaxReadings
    BY ReadingAssumption DEF ReadInv, ReadShape, Asking
<1>3. \A i \in Coalesced : inFlight[i] # "none" => inFlight[i] \in Readers /\ inFlight[i] # r
    BY <1>1 DEF ReadInv, ReadShape, ReadLinks, At
<1>4. CASE cache[k].fresh
    <2>1. reader' = Answered({r}) /\ inFlight' = inFlight /\ readings' = readings
        BY <1>4 DEF ReadBegin
    <2>2. /\ reader' \in [Readers -> Asking] /\ Quiet.at = "idle" /\ Quiet.gen = 0
          /\ \A q \in Readers : reader'[q] = IF q = r THEN Quiet ELSE reader[q]
        BY <2>1, QuietReaders
    <2>3. ReadShape'
        BY <1>1, <2>1, <2>2 DEF ReadInv, ReadShape
    <2>4. ReadPast'
        BY <1>1, <1>2, <2>2 DEF ReadInv, ReadPast
    <2>5. ReadLinks'
        <3>1. \A i \in Coalesced : inFlight[i] # "none" => At(inFlight[i], "collect", i)'
            BY <1>3, <2>1, <2>2 DEF ReadInv, ReadLinks, At
        <3>2. \A i \in Coalesced, q \in Readers : At(q, "collect", i)' => inFlight[i] = q
            BY <2>2 DEF ReadInv, ReadLinks, At
        <3>3. \A q \in Readers : reader'[q].at = "wait" => reader'[q] = reader[q]
            BY <2>2
        <3>4. \A q \in Readers : reader[q].at = "wait" => Pending(reader[q].kind)
            BY DEF ReadInv, ReadLinks
        <3>5. \A q \in Readers : reader'[q].at = "wait" => Pending(reader'[q].kind)
            BY <3>3, <3>4
        <3>6. (\A q \in Readers : reader[q].at = "wait" => Pending(reader[q].kind))'
            BY <2>1, <3>5 DEF Pending
        <3>7. QED
            BY <2>1, <3>1, <3>2, <3>6 DEF ReadLinks, At
    <2>6. CurrentOrLate'
        BY <1>1, <2>2 DEF ReadInv, CurrentOrLate, ForgottenWithTheEdit
    <2>7. QED
        BY <2>3, <2>4, <2>5, <2>6 DEF ReadInv
<1>5. CASE ~cache[k].fresh /\ Pending(k)
    <2>1. reader' = [reader EXCEPT ![r].at = "wait"] /\ inFlight' = inFlight /\ readings' = readings
        BY <1>5 DEF ReadBegin
    <2>2. /\ reader' \in [Readers -> Asking]
          /\ \A q \in Readers : reader'[q].kind = reader[q].kind /\ reader'[q].gen = reader[q].gen
          /\ \A q \in Readers : reader'[q].at = IF q = r THEN "wait" ELSE reader[q].at
        BY <1>2, <2>1 DEF Asking
    <2>3. ReadShape'
        BY <1>1, <2>1, <2>2 DEF ReadInv, ReadShape
    <2>4. ReadPast'
        BY <1>1, <2>2 DEF ReadInv, ReadPast
    <2>5. ReadLinks'
        <3>1. \A i \in Coalesced : inFlight[i] # "none" => At(inFlight[i], "collect", i)'
            BY <1>3, <2>1, <2>2 DEF ReadInv, ReadLinks, At
        <3>2. \A i \in Coalesced, q \in Readers : At(q, "collect", i)' => inFlight[i] = q
            BY <2>2 DEF ReadInv, ReadLinks, At
        <3>3. \A q \in Readers : reader'[q].at = "wait" => Pending(reader[q].kind)
            BY <1>5, <2>2 DEF ReadInv, ReadLinks
        <3>4. QED
            BY <2>1, <2>2, <3>1, <3>2, <3>3 DEF ReadLinks, At, Pending
    <2>6. CurrentOrLate'
        BY <1>1, <2>2 DEF ReadInv, CurrentOrLate, ForgottenWithTheEdit
    <2>7. QED
        BY <2>3, <2>4, <2>5, <2>6 DEF ReadInv
<1>6. CASE ~cache[k].fresh /\ ~Pending(k)
    <2>1. /\ reader' = [reader EXCEPT ![r].at = "collect"]
          /\ readings < MaxReadings /\ readings' = readings + 1
          /\ inFlight' = IF k \in Coalesced THEN [inFlight EXCEPT ![k] = r] ELSE inFlight
        BY <1>6 DEF ReadBegin
    <2>2. /\ reader' \in [Readers -> Asking]
          /\ \A q \in Readers : reader'[q].kind = reader[q].kind /\ reader'[q].gen = reader[q].gen
          /\ \A q \in Readers : reader'[q].at = IF q = r THEN "collect" ELSE reader[q].at
        BY <1>2, <2>1 DEF Asking
    <2>3. /\ inFlight' \in [Coalesced -> Readers \cup {"none"}]
          /\ \A i \in Coalesced : inFlight'[i] = IF i = k THEN r ELSE inFlight[i]
        BY <1>2, <2>1 DEF ReadInv, ReadShape
    <2>4. ReadShape'
        <3>1. readings' \in 0..MaxReadings
            BY <1>2, <2>1, ReadingAssumption
        <3>2. QED
            BY <1>1, <2>2, <2>3, <3>1 DEF ReadInv, ReadShape
    <2>5. ReadPast'
        BY <1>1, <2>2 DEF ReadInv, ReadPast
    <2>6. ReadLinks'
        <3>1. r # "none"
            BY ReadingAssumption
        <3>2. \A i \in Coalesced : i = k => inFlight[i] = "none"
            BY <1>6 DEF Pending
        <3>3. \A q \in Readers : reader[q].at = "wait" => Pending(reader[q].kind)
            BY DEF ReadInv, ReadLinks
        <3>4. \A q \in Readers : reader'[q].at = "wait" => Pending(reader[q].kind)'
            BY <2>2, <2>3, <3>1, <3>3 DEF Pending
        <3>5. \A i \in Coalesced : inFlight'[i] # "none" => At(inFlight[i], "collect", i)'
            BY <1>3, <2>2, <2>3 DEF ReadInv, ReadLinks, At
        <3>6. \A i \in Coalesced, q \in Readers : At(q, "collect", i)' => inFlight'[i] = q
            BY <2>2, <2>3, <3>2, ReadingAssumption DEF ReadInv, ReadLinks, At
        <3>7. QED
            BY <3>4, <3>5, <3>6 DEF ReadLinks, At
    <2>7. CurrentOrLate'
        BY <1>1, <2>2 DEF ReadInv, CurrentOrLate, ForgottenWithTheEdit
    <2>8. QED
        BY <2>4, <2>5, <2>6, <2>7 DEF ReadInv
<1>7. QED
    BY <1>4, <1>5, <1>6

LEMMA DoneStep == ASSUME ReadInv, NEW r \in Readers, ReadDone(r) PROVE ReadInv'
<1> DEFINE k  == reader[r].kind
           g  == reader[r].gen
           rs == {r} \cup {w \in Readers : At(w, "wait", k)}
<1>1. /\ gen' = gen /\ owed' = owed /\ readings' = readings /\ late' = late
      /\ reader[r].at = "collect" /\ reader' = Answered(rs)
      /\ cache' = [cache EXCEPT ![k] = [gen |-> g, fresh |-> TRUE]]
      /\ inFlight' = IF k \in Coalesced THEN [inFlight EXCEPT ![k] = "none"] ELSE inFlight
    BY DEF ReadDone
<1>2. k \in Kinds /\ g \in Nat /\ g <= gen /\ gen \in Nat
    BY ReadingAssumption DEF ReadInv, ReadShape, ReadPast, Asking
<1>3. /\ reader' \in [Readers -> Asking] /\ Quiet.at = "idle" /\ Quiet.gen = 0
      /\ \A q \in Readers : reader'[q] = IF q \in rs THEN Quiet ELSE reader[q]
    <2>1. reader' = Answered(rs)
        BY <1>1
    <2>2. QED
        BY <2>1, QuietReaders
<1>4. /\ cache' \in [Kinds -> Reading]
      /\ \A i \in Kinds : cache'[i].gen = IF i = k THEN g ELSE cache[i].gen
    BY <1>1, <1>2 DEF ReadInv, ReadShape, Reading
<1>5. /\ inFlight' \in [Coalesced -> Readers \cup {"none"}]
      /\ \A i \in Coalesced : inFlight'[i] = IF i = k THEN "none" ELSE inFlight[i]
    BY <1>1, <1>2 DEF ReadInv, ReadShape
<1>6. /\ history' \in Seq(Nat) /\ Len(history') <= Window
      /\ \A i \in DOMAIN history' : \/ history'[i] = g /\ k = "metrics"
                                   \/ \E j \in DOMAIN history : history'[i] = history[j]
    <2>1. history \in Seq(Nat) /\ Len(history) <= Window
        BY DEF ReadInv, ReadShape
    <2>2. CASE history' = history
        BY <2>1, <2>2
    <2>3. CASE k = "metrics" /\ history' = Kept(Append(history, g))
        BY <1>2, <2>1, <2>3, KeptWindow
    <2>4. QED
        BY <2>2, <2>3 DEF ReadDone
<1>7. ReadShape'
    BY <1>1, <1>3, <1>4, <1>5, <1>6 DEF ReadInv, ReadShape
<1>8. ReadPast'
    BY <1>1, <1>2, <1>3, <1>4 DEF ReadInv, ReadPast
<1>9. ReadLinks'
    <2>1. \A i \in Coalesced : inFlight[i] # "none" => inFlight[i] \in Readers /\ At(inFlight[i], "collect", i)
        BY DEF ReadInv, ReadShape, ReadLinks
    <2>2. \A i \in Coalesced : inFlight'[i] # "none" => At(inFlight[i], "collect", i)' /\ inFlight'[i] = inFlight[i]
        BY <1>1, <1>3, <1>5, <2>1 DEF At
    <2>3. \A i \in Coalesced, q \in Readers : At(q, "collect", i)' => At(q, "collect", i) /\ q # r
        BY <1>3 DEF At
    <2>4. \A i \in Coalesced, q \in Readers : At(q, "collect", i)' => inFlight'[i] = q
        <3>1. \A i \in Coalesced, q \in Readers : At(q, "collect", i) => inFlight[i] = q
            BY DEF ReadInv, ReadLinks
        <3>2. k \in Coalesced => inFlight[k] = r
            BY <1>1, <3>1 DEF At
        <3>3. QED
            BY <1>5, <2>3, <3>1, <3>2
    <2>5. \A q \in Readers : reader'[q].at = "wait" => Pending(reader[q].kind)'
        <3>1. \A q \in Readers : reader[q].at = "wait" => Pending(reader[q].kind)
            BY DEF ReadInv, ReadLinks
        <3>2. \A q \in Readers : reader'[q].at = "wait" => reader'[q] = reader[q] /\ reader[q].kind # k
            BY <1>3 DEF At
        <3>3. QED
            BY <1>5, <3>1, <3>2 DEF Pending
    <2>6. QED
        BY <2>2, <2>4, <2>5 DEF ReadLinks, At
<1>10. CurrentOrLate'
    <2> SUFFICES ASSUME ~owed PROVE CurrentOrLate'
        BY <1>1 DEF CurrentOrLate
    <2>1. g = gen \/ k \in late
        BY <1>1 DEF ReadInv, CurrentOrLate
    <2>2. \A i \in Kinds : cache'[i].gen \in {-1, gen} \/ i \in late
        BY <1>4, <2>1 DEF ReadInv, CurrentOrLate, ForgottenWithTheEdit
    <2>3. (\A i \in DOMAIN history' : history'[i] = gen) \/ "metrics" \in late
        BY <1>6, <2>1 DEF ReadInv, CurrentOrLate, ForgottenWithTheEdit
    <2>4. \A q \in Readers : reader'[q].at # "idle" => reader'[q].gen = gen \/ reader'[q].kind \in late
        BY <1>3 DEF ReadInv, CurrentOrLate
    <2>5. QED
        BY <1>1, <2>2, <2>3, <2>4 DEF CurrentOrLate, ForgottenWithTheEdit
<1>11. QED
    BY <1>7, <1>8, <1>9, <1>10 DEF ReadInv

LEMMA ExpireStep == ASSUME ReadInv, NEW k \in Kinds, ReadExpire(k) PROVE ReadInv'
<1>1. /\ gen' = gen /\ owed' = owed /\ inFlight' = inFlight /\ history' = history /\ reader' = reader
      /\ readings' = readings /\ late' = late /\ cache' = [cache EXCEPT ![k].fresh = FALSE]
    BY DEF ReadExpire
<1>2. cache' \in [Kinds -> Reading] /\ \A i \in Kinds : cache'[i].gen = cache[i].gen
    BY <1>1 DEF ReadInv, ReadShape, Reading
<1>3. ReadShape'
    BY <1>1, <1>2 DEF ReadInv, ReadShape
<1>4. ReadPast'
    BY <1>1, <1>2 DEF ReadInv, ReadPast
<1>5. ReadLinks'
    BY <1>1 DEF ReadInv, ReadLinks, At, Pending
<1>6. CurrentOrLate'
    BY <1>1, <1>2 DEF ReadInv, CurrentOrLate, ForgottenWithTheEdit
<1>7. QED
    BY <1>3, <1>4, <1>5, <1>6 DEF ReadInv

LEMMA EditStep == ASSUME ReadInv, ReadEdit PROVE ReadInv'
<1>1. /\ gen' = gen + 1 /\ owed' = TRUE /\ gen < MaxEdits /\ UNCHANGED <<cache, inFlight, history, reader, readings, late>>
    BY DEF ReadEdit
<1>2. gen \in Nat /\ gen' \in 0..MaxEdits
    BY <1>1, ReadingAssumption DEF ReadInv, ReadShape
<1>3. ReadShape'
    BY <1>1, <1>2 DEF ReadInv, ReadShape
<1>4. ReadPast'
    <2>1. \A r \in Readers : reader[r].gen \in Nat
        BY DEF ReadInv, ReadShape, Asking
    <2>2. QED
        BY <1>1, <1>2, <2>1 DEF ReadInv, ReadPast
<1>5. ReadLinks'
    BY <1>1 DEF ReadInv, ReadLinks, At, Pending
<1>6. QED
    BY <1>1, <1>3, <1>4, <1>5 DEF ReadInv, CurrentOrLate

LEMMA ForgetStep == ASSUME ReadInv, ReadForget PROVE ReadInv'
<1>1. /\ gen' = gen /\ owed' = FALSE /\ inFlight' = inFlight /\ reader' = reader /\ readings' = readings
      /\ cache' = [k \in Kinds |-> None] /\ history' = <<>>
      /\ late' = {reader[r].kind : r \in {q \in Readers : reader[q].at # "idle"}}
    BY DEF ReadForget
<1>2. None \in Reading /\ None.gen = -1
    BY DEF None, Reading
<1>3. ReadShape'
    <2>1. late' \subseteq Kinds
        BY <1>1 DEF ReadInv, ReadShape, Asking
    <2>2. history' \in Seq(Nat) /\ Len(history') <= Window
        BY <1>1, ReadingAssumption
    <2>3. cache' \in [Kinds -> Reading]
        BY <1>1, <1>2
    <2>4. QED
        BY <1>1, <2>1, <2>2, <2>3 DEF ReadInv, ReadShape
<1>4. ReadPast'
    <2>1. gen \in Nat
        BY ReadingAssumption DEF ReadInv, ReadShape
    <2>2. QED
        BY <1>1, <1>2, <2>1 DEF ReadInv, ReadPast
<1>5. ReadLinks'
    BY <1>1 DEF ReadInv, ReadLinks, At, Pending
<1>6. CurrentOrLate'
    <2>1. \A r \in Readers : reader'[r].at # "idle" => reader'[r].kind \in late'
        BY <1>1
    <2>2. ForgottenWithTheEdit'
        BY <1>1, <1>2 DEF ForgottenWithTheEdit
    <2>3. QED
        BY <2>1, <2>2 DEF CurrentOrLate
<1>7. QED
    BY <1>3, <1>4, <1>5, <1>6 DEF ReadInv

LEMMA ReadStep == ReadInv /\ [ReadNext]_readVars => ReadInv'
<1> SUFFICES ASSUME ReadInv, [ReadNext]_readVars PROVE ReadInv'
    OBVIOUS
<1>1. CASE UNCHANGED readVars
    BY <1>1 DEF readVars, ReadInv, ReadShape, ReadPast, ReadLinks, CurrentOrLate, ForgottenWithTheEdit, At, Pending
<1>2. CASE ReadNext
    BY <1>2, AskStep, BeginStep, DoneStep, ExpireStep, EditStep, ForgetStep DEF ReadNext
<1>3. QED
    BY <1>1, <1>2

LEMMA OneCollector == ReadInv => OneSampleAtATime
<1> SUFFICES ASSUME ReadInv, NEW k \in Coalesced
             PROVE  Cardinality({r \in Readers : At(r, "collect", k)}) <= 1
    BY DEF OneSampleAtATime
<1> DEFINE S == {r \in Readers : At(r, "collect", k)}
<1>1. S \subseteq {inFlight[k]}
    BY DEF ReadInv, ReadLinks
<1>2. IsFiniteSet({inFlight[k]}) /\ Cardinality({inFlight[k]}) = 1
    BY FS_Singleton
<1>3. Cardinality(S) <= Cardinality({inFlight[k]})
    BY <1>1, <1>2, FS_Subset
<1>4. QED
    BY <1>2, <1>3

\* The readings of a host are taken one at a time, and an edit of the
\* connection leaves nothing read over the old one but what was being read
\* (HostMetricsService, HostDisksService, HostSummaryService), for any readers.
THEOREM ReadingsAlways == ReadSpec => [](ReadTypeOK /\ OneSampleAtATime /\ ForgottenWithTheEdit)
<1>1. ReadSpec => []ReadInv
    BY ReadInitInv, ReadStep, PTL DEF ReadSpec
<1>2. ReadInv => ReadTypeOK /\ OneSampleAtATime /\ ForgottenWithTheEdit
    <2>1. ReadInv => ReadTypeOK
        BY DEF ReadInv, ReadShape, ReadPast, ReadLinks, ReadTypeOK, Reading
    <2>2. ReadInv => ForgottenWithTheEdit
        BY DEF ReadInv, CurrentOrLate, ForgottenWithTheEdit
    <2>3. QED
        BY <2>1, <2>2, OneCollector
<1>3. QED
    BY <1>1, <1>2, PTL
-----------------------------------------------------------------------------
(* Side by side.                                                           *)

\* A behaviour of the parts is a behaviour of each: the others stutter.
LEMMA EachPart ==
    PartSpec => ReadSpec /\ RowSpec /\ KeySpec /\ TrailSpec /\ SudoSpec /\ CallSpec /\ ShipSpec
<1>1. PartInit => ReadInit /\ RowInit /\ KeyInit /\ TrailInit /\ SudoInit /\ CallInit /\ ShipInit
    BY DEF PartInit
<1>2. [PartNext]_<<readVars, rowVars, keyVars, trailVars, sudoVars, sshVars, shipVars, part>> =>
          /\ [ReadNext]_readVars /\ [RowNext]_rowVars /\ [KeyNext]_keyVars /\ [TrailNext]_trailVars
          /\ [SudoNext]_sudoVars /\ [CallNext]_sshVars /\ [ShipNext]_shipVars
    BY DEF PartNext
<1>3. QED
    BY <1>1, <1>2, PTL DEF PartSpec, ReadSpec, RowSpec, KeySpec, TrailSpec, SudoSpec, CallSpec, ShipSpec

\* The types of all of them.
THEOREM HostTypes == PartSpec => []HostTypesOK
BY EachPart, ReadingsAlways, RootsAlways, PinsAlways, TrailAlways, WindowsAlways, CallsAlways, ShipsAlways, PTL
   DEF HostTypesOK

\* What is kept of a host is of the host as it is, a slot of its connection is
\* held by a call under way, and the version that runs is kept until the next
\* one is well.
THEOREM HostsAlwaysKept == PartSpec => []HostsAreKept
BY EachPart, ReadingsAlways, RootsAlways, CallsAlways, ShipsAlways, PTL DEF HostsAreKept

\* Who acted is on record and was allowed to; a sudo window lasts what it says
\* and ends with its session; a deploy that is told a success is served and is
\* what its name says.
THEOREM ActsAlwaysOnRecord == PartSpec => []ActsAreOnRecord
BY EachPart, TrailAlways, WindowsAlways, ShipsAlways, PTL DEF ActsAreOnRecord

\* A key is pinned by a person, and what goes on as root does so with a password
\* that a window was open for.
THEOREM NothingIsEverGranted == PartSpec => NothingIsGranted
BY EachPart, PinsAlways, RootAlwaysLetIn, PTL DEF NothingIsGranted
=============================================================================
