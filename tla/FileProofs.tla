----------------------------- MODULE FileProofs -----------------------------
(* Theorems about the handlers of files: UploadResume, for any attempts,   *)
(* copies, sizes and rivals; RenameBatch, for any directory and pattern;   *)
(* PermissionUndo, for any tree and modes; DeleteTree, for any tree and    *)
(* requests; TailRegistry, for any streams and caps; Downloads, for any    *)
(* host and denylist; CompareTrees, for any two trees; and what follows    *)
(* for MCFiles, where they stand side by side.                             *)
EXTENDS MCFiles, FiniteSetTheorems, SequenceTheorems, WellFoundedInduction, TLAPS

-----------------------------------------------------------------------------
(* Uploads.                                                                *)

\* The file up to a block.
Seg(n) == [i \in 1..n |-> i]

Writing == {"write", "settle", "rename"}
Before  == {"idle", "asked", "check", "open"}
Codes   == {"none", "ESKIPPED", "ERESUME", "EACCES", "wire", "host", "ETOOMUCH", "EDENYLISTED",
            "ETOOMANYCOPIES", "done"}

Pcs == Before \cup Writing \cup {"discard", "over"}

Standing == [pc : Pcs, pol : Policies, token : Tokens,
             from : 0..Size, fd : Inodes \cup {0}, sent : 0..Size, final : 0..Copies,
             code : Codes, got : Seq(0..Size), hit : Inodes \cup {0}]

UplData ==
    /\ place \in [1..Copies -> Inodes \cup {0}] /\ partial \in [Tokens -> Inodes \cup {0}]
    /\ data \in [Inodes -> Seq(0..Size)]
    /\ clean \subseteq Attempts /\ mixed \subseteq Inodes /\ litter \subseteq Tokens
    /\ rootDir \in BOOLEAN /\ window \in BOOLEAN /\ rivals \in 0..MaxRivals
    /\ upl \in [Attempts -> Standing]
    /\ \A a \in Attempts :
          /\ upl[a].token \in {"resume", a} /\ Written(a) \in 0..Size
          /\ UplOpen(a) <=> upl[a].pc \in Writing
          /\ upl[a].pc = "rename" => upl[a].final # 0

\* Every inode in use was made by a rival or by an attempt that has opened its
\* partial, so there is always another.
UplRoom ==
    Cardinality(Used \ {0}) + Cardinality({a \in Attempts : upl[a].pc \in Before})
        <= Cardinality(Attempts) + rivals

\* Nobody has sent a block before the partial is open, and what is discarded
\* failed.
UplStart ==
    \A a \in Attempts :
        /\ upl[a].pc \in Before => upl[a].sent = 0
        /\ upl[a].pc = "discard" => upl[a].code # "done"

\* A partial has one name, and the streams on it one token.
UplNamed ==
    /\ \A t, u \in Tokens : partial[t] = partial[u] /\ partial[t] # 0 => t = u
    /\ \A t \in Tokens, b \in Attempts : partial[t] = upl[b].fd /\ partial[t] # 0 => upl[b].token = t

\* An inode that two streams were never on has at most one and holds what that
\* one wrote; left as a partial, it is the beginning of the file.
UplAlone ==
    \A i \in Inodes \ mixed :
        /\ \A b \in Streaming(i) : data[i] = Seg(Written(b))
        /\ \A b, c \in Streaming(i) : b = c
        /\ \A t \in Tokens : partial[t] = i => data[i] = Seg(Len(data[i]))

\* An attempt nobody got in the way of is on its partial, which holds what it
\* has sent; one about to go on finds as much there as it asked to.
UplOwn(a) ==
    /\ upl[a].pc \in Writing => partial[upl[a].token] = upl[a].fd /\ data[upl[a].fd] = Seg(Written(a))
    /\ upl[a].pc \in {"settle", "rename"} => Written(a) = Size
    /\ upl[a].pc = "open" /\ upl[a].from > 0 =>
          partial[upl[a].token] # 0 /\ Len(data[partial[upl[a].token]]) = upl[a].from
    /\ upl[a].pc = "rename" =>
          place[upl[a].final] = 0 \/ upl[a].pol = "overwrite"

Holding(a) == upl[a].pc \in Writing \cup {"discard"}

\* What is left of partials, in a directory the account may change: one under
\* a name of its own has its attempt ...
UplLeft ==
    ~rootDir => \A a \in Attempts : partial[a] # 0 => a \in litter \/ (upl[a].token = a /\ Holding(a))

\* ... and while nobody got in anybody's way so has the one a later attempt can
\* find, or it holds something.
UplLitter ==
    /\ ~rootDir /\ partial["resume"] # 0 /\ "resume" \notin litter
    /\ \A a \in Attempts : upl[a].pc # "idle" => a \in clean
    => \/ \E b \in Attempts : upl[b].token = "resume" /\ Holding(b)
       \/ Len(data[partial["resume"]]) \in 1..Size

UplInv ==
    /\ UplData /\ UplRoom /\ UplStart /\ UplNamed /\ UplAlone
    /\ \A a \in clean : UplOwn(a)
    /\ UploadedIsWhole /\ UplLeft /\ UplLitter

LEMMA UplConsts ==
    /\ Copies \in Nat \ {0} /\ Size \in Nat \ {0} /\ MaxRivals \in Nat
    /\ Protected \subseteq 1..Copies /\ IsFiniteSet(Attempts) /\ Cardinality(Attempts) \in Nat
    /\ "resume" \notin Attempts /\ Tokens = {"resume"} \cup Attempts
    /\ \A i \in Inodes : i \in Nat /\ i # 0
BY UploadAssumption, FS_CardinalityType DEF Tokens, Inodes

LEMMA SegSeq ==
    ASSUME NEW n \in Nat
    PROVE  /\ Seg(n) \in Seq(Nat) /\ Len(Seg(n)) = n
           /\ Append(Seg(n), n + 1) = Seg(n + 1)
<1>1. Seg(n) \in Seq(Nat) /\ Len(Seg(n)) = n /\ \A i \in 1..n : Seg(n)[i] = i
    BY DEF Seg
<1>2. Seg(n + 1) \in Seq(Nat) /\ Len(Seg(n + 1)) = n + 1 /\ \A i \in 1..(n + 1) : Seg(n + 1)[i] = i
    BY DEF Seg
<1>3. QED
    BY <1>1, <1>2, SeqEqual, AppendProperties

\* While an attempt has not opened its partial, or a rival may come, there is
\* an inode that is not in use.
LEMMA UplFresh ==
    ASSUME UplData, UplRoom, (\E a \in Attempts : upl[a].pc \in Before) \/ rivals < MaxRivals
    PROVE  NewInode \in Inodes /\ NewInode \notin Used
<1> DEFINE waiting == {a \in Attempts : upl[a].pc \in Before}
           U == Used \ {0}
<1>1. IsFiniteSet(Inodes) /\ Cardinality(Inodes) = 2 * Cardinality(Attempts) + MaxRivals
    <2> DEFINE n == 2 * Cardinality(Attempts) + MaxRivals
    <2>1. n \in Nat
        BY UplConsts
    <2> HIDE DEF n
    <2>2. IsFiniteSet(1..n) /\ Cardinality(1..n) = n
        BY <2>1, FS_Interval
    <2>3. QED
        BY <2>2 DEF n, Inodes
<1>2. U \in SUBSET Inodes /\ waiting \in SUBSET Attempts
    BY DEF UplData, Used, Standing
<1>3. IsFiniteSet(U) /\ IsFiniteSet(waiting) /\ Cardinality(U) \in Nat /\ Cardinality(waiting) \in Nat
    BY <1>1, <1>2, UplConsts, FS_Subset, FS_CardinalityType
<1>4. Cardinality(U) + Cardinality(waiting) <= Cardinality(Attempts) + rivals
    BY DEF UplRoom
<1>5. (\E a \in Attempts : upl[a].pc \in Before) => Cardinality(waiting) # 0
    <2>1. (\E a \in Attempts : upl[a].pc \in Before) => waiting # {}
        OBVIOUS
    <2> HIDE DEF waiting
    <2>2. QED
        BY <2>1, <1>3, FS_EmptySet
<1> HIDE DEF U, waiting
<1>6. U # Inodes
    BY <1>1, <1>3, <1>4, <1>5, UplConsts DEF UplData
<1>7. \E i \in Inodes : i \notin Used
    BY <1>2, <1>6, UplConsts DEF U
<1>8. QED
    BY <1>7 DEF NewInode

\* A standing with one field changed, by field.
LEMMA StandingPc ==
    ASSUME NEW s \in Standing, NEW v \in Pcs
    PROVE  LET r == [s EXCEPT !.pc = v]
           IN  /\ r \in Standing /\ r.pc = v
               /\ r.pol = s.pol /\ r.token = s.token /\ r.from = s.from /\ r.fd = s.fd
               /\ r.sent = s.sent /\ r.final = s.final /\ r.code = s.code /\ r.got = s.got
               /\ r.hit = s.hit
BY DEF Standing

LEMMA StandingPol ==
    ASSUME NEW s \in Standing, NEW v \in Policies
    PROVE  LET r == [s EXCEPT !.pol = v]
           IN  /\ r \in Standing /\ r.pol = v
               /\ r.pc = s.pc /\ r.token = s.token /\ r.from = s.from /\ r.fd = s.fd
               /\ r.sent = s.sent /\ r.final = s.final /\ r.code = s.code /\ r.got = s.got
               /\ r.hit = s.hit
BY DEF Standing

LEMMA StandingToken ==
    ASSUME NEW s \in Standing, NEW v \in Tokens
    PROVE  LET r == [s EXCEPT !.token = v]
           IN  /\ r \in Standing /\ r.token = v
               /\ r.pc = s.pc /\ r.pol = s.pol /\ r.from = s.from /\ r.fd = s.fd
               /\ r.sent = s.sent /\ r.final = s.final /\ r.code = s.code /\ r.got = s.got
               /\ r.hit = s.hit
BY DEF Standing

LEMMA StandingFrom ==
    ASSUME NEW s \in Standing, NEW v \in 0..Size
    PROVE  LET r == [s EXCEPT !.from = v]
           IN  /\ r \in Standing /\ r.from = v
               /\ r.pc = s.pc /\ r.pol = s.pol /\ r.token = s.token /\ r.fd = s.fd
               /\ r.sent = s.sent /\ r.final = s.final /\ r.code = s.code /\ r.got = s.got
               /\ r.hit = s.hit
BY DEF Standing

LEMMA StandingFd ==
    ASSUME NEW s \in Standing, NEW v \in Inodes \cup {0}
    PROVE  LET r == [s EXCEPT !.fd = v]
           IN  /\ r \in Standing /\ r.fd = v
               /\ r.pc = s.pc /\ r.pol = s.pol /\ r.token = s.token /\ r.from = s.from
               /\ r.sent = s.sent /\ r.final = s.final /\ r.code = s.code /\ r.got = s.got
               /\ r.hit = s.hit
BY DEF Standing

LEMMA StandingSent ==
    ASSUME NEW s \in Standing, NEW v \in 0..Size
    PROVE  LET r == [s EXCEPT !.sent = v]
           IN  /\ r \in Standing /\ r.sent = v
               /\ r.pc = s.pc /\ r.pol = s.pol /\ r.token = s.token /\ r.from = s.from
               /\ r.fd = s.fd /\ r.final = s.final /\ r.code = s.code /\ r.got = s.got
               /\ r.hit = s.hit
BY DEF Standing

LEMMA StandingFinal ==
    ASSUME NEW s \in Standing, NEW v \in 0..Copies
    PROVE  LET r == [s EXCEPT !.final = v]
           IN  /\ r \in Standing /\ r.final = v
               /\ r.pc = s.pc /\ r.pol = s.pol /\ r.token = s.token /\ r.from = s.from
               /\ r.fd = s.fd /\ r.sent = s.sent /\ r.code = s.code /\ r.got = s.got
               /\ r.hit = s.hit
BY DEF Standing

LEMMA StandingCode ==
    ASSUME NEW s \in Standing, NEW v \in Codes
    PROVE  LET r == [s EXCEPT !.code = v]
           IN  /\ r \in Standing /\ r.code = v
               /\ r.pc = s.pc /\ r.pol = s.pol /\ r.token = s.token /\ r.from = s.from
               /\ r.fd = s.fd /\ r.sent = s.sent /\ r.final = s.final /\ r.got = s.got
               /\ r.hit = s.hit
BY DEF Standing

LEMMA StandingGot ==
    ASSUME NEW s \in Standing, NEW v \in Seq(0..Size)
    PROVE  LET r == [s EXCEPT !.got = v]
           IN  /\ r \in Standing /\ r.got = v
               /\ r.pc = s.pc /\ r.pol = s.pol /\ r.token = s.token /\ r.from = s.from
               /\ r.fd = s.fd /\ r.sent = s.sent /\ r.final = s.final /\ r.code = s.code
               /\ r.hit = s.hit
BY DEF Standing

LEMMA StandingHit ==
    ASSUME NEW s \in Standing, NEW v \in Inodes \cup {0}
    PROVE  LET r == [s EXCEPT !.hit = v]
           IN  /\ r \in Standing /\ r.hit = v
               /\ r.pc = s.pc /\ r.pol = s.pol /\ r.token = s.token /\ r.from = s.from
               /\ r.fd = s.fd /\ r.sent = s.sent /\ r.final = s.final /\ r.code = s.code
               /\ r.got = s.got
BY DEF Standing

\* An attempt that has not come is one that has not begun.
LEMMA IdleStands == Idle \in Standing
BY UplConsts DEF Idle, Standing, Pcs, Before, Policies, Codes

LEMMA UplFields ==
    ASSUME UplData, NEW a \in Attempts
    PROVE  /\ upl[a] \in Standing /\ upl[a].pc \in Pcs
           /\ upl[a].pol \in Policies /\ upl[a].token \in Tokens /\ upl[a].token \in {"resume", a}
           /\ upl[a].from \in 0..Size /\ upl[a].fd \in Inodes \cup {0} /\ upl[a].sent \in 0..Size
           /\ upl[a].from + upl[a].sent \in 0..Size /\ upl[a].final \in 0..Copies
           /\ upl[a].code \in Codes /\ upl[a].got \in Seq(0..Size) /\ upl[a].hit \in Inodes \cup {0}
           /\ upl[a].fd # 0 <=> upl[a].pc \in Writing
           /\ upl[a].pc = "rename" => upl[a].final # 0
           /\ Mine(a) \in Inodes \cup {0}
BY DEF UplData, Standing, Written, UplOpen, Mine

\* The answer to an attempt.
LEMMA UplEnded ==
    ASSUME NEW c \in Codes
    PROVE  LET r == [Idle EXCEPT !.pc = "over", !.code = c]
           IN  /\ r \in Standing /\ r.token = "resume" /\ r.from = 0 /\ r.sent = 0 /\ r.fd = 0
               /\ r.pc = "over" /\ r.code = c /\ r.final = 0
<1> DEFINE s == [Idle EXCEPT !.pc = "over"]
           r == [s EXCEPT !.code = c]
<1>1. /\ Idle.token = "resume" /\ Idle.from = 0 /\ Idle.sent = 0 /\ Idle.fd = 0 /\ Idle.final = 0
    BY DEF Idle
<1>2. "over" \in Pcs
    BY DEF Pcs
<1>3. s \in Standing /\ s.token = "resume" /\ s.from = 0 /\ s.sent = 0 /\ s.fd = 0 /\ s.final = 0 /\ s.pc = "over"
    BY <1>1, <1>2, IdleStands, StandingPc
<1> HIDE DEF s
<1>4. /\ r \in Standing /\ r.token = "resume" /\ r.from = 0 /\ r.sent = 0 /\ r.fd = 0
      /\ r.pc = "over" /\ r.code = c /\ r.final = 0
    BY <1>3, StandingCode
<1>5. QED
    BY <1>4 DEF s

\* An attempt turns to what it may be, and the others stay as they are.
UplTurn(a, r) ==
    /\ upl' = [upl EXCEPT ![a] = r]
    /\ r \in Standing /\ r.token \in {"resume", a} /\ r.from + r.sent \in 0..Size
    /\ r.fd # 0 <=> r.pc \in Writing
    /\ r.pc = "rename" => r.final # 0
    /\ r.pc # "idle"

LEMMA UplTurns ==
    ASSUME UplData, NEW a \in Attempts, NEW r, UplTurn(a, r)
    PROVE  /\ upl'[a] = r /\ \A b \in Attempts \ {a} : upl'[b] = upl[b] /\ Written(b)' = Written(b)
           /\ Written(a)' = r.from + r.sent
           /\ upl' \in [Attempts -> Standing]
           /\ \A b \in Attempts :
                 /\ upl'[b].token \in {"resume", b} /\ Written(b)' \in 0..Size
                 /\ UplOpen(b)' <=> upl'[b].pc \in Writing
                 /\ upl'[b].pc = "rename" => upl'[b].final # 0
<1>1. upl'[a] = r /\ \A b \in Attempts \ {a} : upl'[b] = upl[b]
    BY DEF UplData, UplTurn
<1>2. upl' \in [Attempts -> Standing]
    BY DEF UplData, UplTurn
<1>3. QED
    BY <1>1, <1>2 DEF UplData, UplTurn, Written, UplOpen

LEMMA UplEndTurn ==
    ASSUME NEW a \in Attempts, NEW c \in Codes, End(a, c)
    PROVE  \E r \in Standing : /\ UplTurn(a, r) /\ r.pc = "over" /\ r.code = c /\ r.fd = 0
                               /\ r.final = 0 /\ r.token = "resume" /\ r.from = 0 /\ r.sent = 0
<1> DEFINE r == [Idle EXCEPT !.pc = "over", !.code = c]
<1>1. upl' = [upl EXCEPT ![a] = r]
    BY DEF End
<1>2. /\ r \in Standing /\ r.token = "resume" /\ r.from = 0 /\ r.sent = 0 /\ r.fd = 0
      /\ r.pc = "over" /\ r.code = c /\ r.final = 0
    BY UplEnded
<1> HIDE DEF r
<1>3. UplTurn(a, r)
    BY <1>1, <1>2, UplConsts DEF UplTurn, Writing
<1>4. QED
    BY <1>2, <1>3

LEMMA UplAskTurn ==
    ASSUME UplData, NEW a \in Attempts, UploadAsk(a)
    PROVE  \E r \in Standing : UplTurn(a, r) /\ r.pc = "asked" /\ r.fd = 0 /\ r.sent = 0 /\ r.final = 0
<1>1. PICK p \in Policies, resume \in BOOLEAN, again \in BOOLEAN :
        LET t == IF resume THEN "resume" ELSE a
            n == IF resume /\ again /\ Length(t) <= Size THEN Length(t) ELSE 0
        IN  upl' = [upl EXCEPT ![a] = [Idle EXCEPT !.pc = "asked", !.pol = p, !.token = t, !.from = n]]
    BY DEF UploadAsk
<1> DEFINE t == IF resume THEN "resume" ELSE a
           n == IF resume /\ again /\ Length(t) <= Size THEN Length(t) ELSE 0
           s1 == [Idle EXCEPT !.pc = "asked"]
           s2 == [s1 EXCEPT !.pol = p]
           s3 == [s2 EXCEPT !.token = t]
           r == [s3 EXCEPT !.from = n]
<1>2. upl' = [upl EXCEPT ![a] = r]
    BY <1>1
<1>3. t \in Tokens /\ t \in {"resume", a}
    BY UplConsts
<1> HIDE DEF t
<1>4. Length(t) \in Nat
    BY <1>3 DEF Length, UplData
<1>5. n \in 0..Size
    BY <1>4, UplConsts
<1> HIDE DEF n
<1>6. Idle.fd = 0 /\ Idle.sent = 0 /\ Idle.final = 0 /\ "asked" \in Pcs
    BY DEF Idle, Pcs, Before
<1>7. s1 \in Standing /\ s1.pc = "asked" /\ s1.fd = 0 /\ s1.sent = 0 /\ s1.final = 0
    BY <1>6, IdleStands, StandingPc
<1> HIDE DEF s1
<1>8. s2 \in Standing /\ s2.pc = "asked" /\ s2.fd = 0 /\ s2.sent = 0 /\ s2.final = 0
    BY <1>7, StandingPol
<1> HIDE DEF s2
<1>9. s3 \in Standing /\ s3.pc = "asked" /\ s3.fd = 0 /\ s3.sent = 0 /\ s3.final = 0 /\ s3.token = t
    BY <1>3, <1>8, StandingToken
<1> HIDE DEF s3
<1>10. r \in Standing /\ r.pc = "asked" /\ r.fd = 0 /\ r.sent = 0 /\ r.final = 0 /\ r.token = t /\ r.from = n
    BY <1>5, <1>9, StandingFrom
<1> HIDE DEF r
<1>11. UplTurn(a, r)
    BY <1>2, <1>3, <1>5, <1>10, UplConsts DEF UplTurn, Writing
<1>12. QED
    BY <1>10, <1>11
\* What the fields that a step leaves alone are.
Kin(r, a) == /\ r.pol = upl[a].pol /\ r.token = upl[a].token /\ r.from = upl[a].from

\* A step that only goes on.
LEMMA UplPcTurn ==
    ASSUME UplData, NEW a \in Attempts, NEW pc \in Pcs, upl' = [upl EXCEPT ![a].pc = pc],
           upl[a].pc \in Writing <=> pc \in Writing, pc \notin {"rename", "idle"}
    PROVE  \E r \in Standing : /\ UplTurn(a, r) /\ Kin(r, a) /\ r.pc = pc /\ r.fd = upl[a].fd /\ r.sent = upl[a].sent
                               /\ r.final = upl[a].final /\ r.code = upl[a].code
<1> DEFINE r == [upl[a] EXCEPT !.pc = pc]
<1>1. upl' = [upl EXCEPT ![a] = r]
    OBVIOUS
<1>2. /\ r \in Standing /\ r.pc = pc /\ Kin(r, a) /\ r.fd = upl[a].fd /\ r.sent = upl[a].sent
      /\ r.final = upl[a].final /\ r.code = upl[a].code
    BY UplFields, StandingPc DEF Kin
<1> HIDE DEF r
<1>3. UplTurn(a, r)
    BY <1>1, <1>2, UplFields DEF UplTurn, Kin
<1>4. QED
    BY <1>2, <1>3

LEMMA UplBeginTurn ==
    ASSUME UplData, NEW a \in Attempts, UploadBegin(a)
    PROVE  \E r \in Standing : UplTurn(a, r) /\ r.fd = 0
              /\ \/ r.pc = "over" /\ r.code = "ESKIPPED"
                 \/ /\ r.pc = (IF upl[a].from > 0 THEN "check" ELSE "open")
                    /\ Kin(r, a) /\ r.sent = upl[a].sent
<1>1. upl[a].pc = "asked" /\ upl[a].fd = 0
    BY UplFields DEF UploadBegin, Writing
<1>2. CASE End(a, "ESKIPPED")
    BY <1>2, UplEndTurn DEF Codes
<1>3. CASE upl' = [upl EXCEPT ![a].pc = IF upl[a].from > 0 THEN "check" ELSE "open"]
    <2> DEFINE pc == IF upl[a].from > 0 THEN "check" ELSE "open"
    <2>1. pc \in Pcs /\ pc \notin Writing /\ upl[a].pc \notin Writing
        BY <1>1 DEF Pcs, Before, Writing
    <2>2. upl' = [upl EXCEPT ![a].pc = pc]
        BY <1>3
    <2> HIDE DEF pc
    <2>3. QED
        BY <1>1, <2>1, <2>2, UplPcTurn DEF pc
<1>4. QED
    BY <1>2, <1>3 DEF UploadBegin

LEMMA UplCheckTurn ==
    ASSUME UplData, NEW a \in Attempts, UploadCheck(a)
    PROVE  \E r \in Standing : UplTurn(a, r) /\ r.fd = 0
              /\ \/ r.pc = "over" /\ r.code = "ERESUME"
                 \/ /\ r.pc = "open" /\ Kin(r, a) /\ r.sent = upl[a].sent
                    /\ Length(upl[a].token) = upl[a].from
<1>1. upl[a].pc = "check" /\ upl[a].fd = 0
    BY UplFields DEF UploadCheck, Writing
<1>2. CASE End(a, "ERESUME")
    BY <1>2, UplEndTurn DEF Codes
<1>3. CASE Length(upl[a].token) = upl[a].from /\ upl' = [upl EXCEPT ![a].pc = "open"]
    <2>1. "open" \in Pcs /\ "open" \notin Writing /\ upl[a].pc \notin Writing
        BY <1>1 DEF Pcs, Before, Writing
    <2>2. QED
        BY <1>1, <1>3, <2>1, UplPcTurn
<1>4. QED
    BY <1>2, <1>3 DEF UploadCheck

LEMMA UplOpenTurn ==
    ASSUME UplData, NEW a \in Attempts, upl[a].pc = "open", NEW i \in Inodes, i # 0,
           upl' = [upl EXCEPT ![a].pc = "write", ![a].fd = i]
    PROVE  \E r \in Standing : UplTurn(a, r) /\ Kin(r, a) /\ r.pc = "write" /\ r.fd = i /\ r.sent = upl[a].sent
                               /\ r.final = upl[a].final
<1> DEFINE s == [upl[a] EXCEPT !.pc = "write"]
           r == [s EXCEPT !.fd = i]
<1>1. upl' = [upl EXCEPT ![a] = r]
    BY DEF UplData
<1>2. "write" \in Pcs
    BY DEF Pcs, Writing
<1>3. s \in Standing /\ Kin(s, a) /\ s.pc = "write" /\ s.sent = upl[a].sent /\ s.final = upl[a].final
    BY <1>2, UplFields, StandingPc DEF Kin
<1> HIDE DEF s
<1>4. /\ r \in Standing /\ Kin(r, a) /\ r.pc = "write" /\ r.fd = i /\ r.sent = upl[a].sent
      /\ r.final = upl[a].final
    BY <1>3, StandingFd DEF Kin
<1> HIDE DEF r
<1>5. UplTurn(a, r)
    BY <1>1, <1>4, UplFields DEF UplTurn, Kin, Writing
<1>6. QED
    BY <1>4, <1>5

LEMMA UplWriteTurn ==
    ASSUME UplData, NEW a \in Attempts, UploadWrite(a)
    PROVE  \E r \in Standing : UplTurn(a, r) /\ Kin(r, a) /\ r.pc = "write" /\ r.fd = upl[a].fd
                               /\ r.sent = upl[a].sent + 1 /\ r.final = upl[a].final
<1> DEFINE r == [upl[a] EXCEPT !.sent = @ + 1]
<1>1. upl' = [upl EXCEPT ![a] = r] /\ upl[a].pc = "write" /\ upl[a].from + upl[a].sent < Size
    BY DEF UploadWrite, Written
<1>0. upl[a].sent \in 0..Size /\ upl[a].from \in 0..Size /\ Size \in Nat
    BY UplFields, UplConsts
<1>2. upl[a].sent + 1 \in 0..Size /\ upl[a].from + (upl[a].sent + 1) \in 0..Size
    BY <1>0, <1>1
<1>3. /\ r \in Standing /\ Kin(r, a) /\ r.pc = "write" /\ r.fd = upl[a].fd
      /\ r.sent = upl[a].sent + 1 /\ r.final = upl[a].final
    BY <1>1, <1>2, UplFields, StandingSent DEF Kin
<1> HIDE DEF r
<1>4. UplTurn(a, r)
    BY <1>1, <1>2, <1>3, UplFields DEF UplTurn, Kin, Writing
<1>5. QED
    BY <1>3, <1>4

\* An attempt whose stream is closed and whose partial is to go.
LEMMA UplDropTurn ==
    ASSUME UplData, NEW a \in Attempts, NEW c \in Codes,
           upl' = [upl EXCEPT ![a].pc = "discard", ![a].code = c, ![a].fd = 0]
    PROVE  \E r \in Standing : UplTurn(a, r) /\ Kin(r, a) /\ r.pc = "discard" /\ r.code = c /\ r.fd = 0
                               /\ r.sent = upl[a].sent
<1> DEFINE s == [upl[a] EXCEPT !.pc = "discard"]
           q == [s EXCEPT !.code = c]
           r == [q EXCEPT !.fd = 0]
<1>1. upl' = [upl EXCEPT ![a] = r]
    BY DEF UplData
<1>2. "discard" \in Pcs
    BY DEF Pcs
<1>3. s \in Standing /\ Kin(s, a) /\ s.pc = "discard" /\ s.sent = upl[a].sent
    BY <1>2, UplFields, StandingPc DEF Kin
<1> HIDE DEF s
<1>4. q \in Standing /\ Kin(q, a) /\ q.pc = "discard" /\ q.code = c /\ q.sent = upl[a].sent
    BY <1>3, StandingCode DEF Kin
<1> HIDE DEF q
<1>5. r \in Standing /\ Kin(r, a) /\ r.pc = "discard" /\ r.code = c /\ r.fd = 0 /\ r.sent = upl[a].sent
    BY <1>4, StandingFd DEF Kin
<1> HIDE DEF r
<1>6. UplTurn(a, r)
    BY <1>1, <1>5, UplFields DEF UplTurn, Kin, Writing
<1>7. QED
    BY <1>5, <1>6
\* A set of numbers has a first.
LEMMA FirstPlace ==
    ASSUME NEW S \in SUBSET Nat, S # {}
    PROVE  \E n \in S : \A m \in S : n <= m
<1>1. PICK n \in S : \A m \in S : ~(<<m, n>> \in OpToRel(<, Nat))
    BY NatLessThanWellFounded, WFMin
<1>2. \A m \in S : ~(m < n)
    BY <1>1 DEF OpToRel
<1>3. QED
    BY <1>2

LEMMA UplCatchTurn ==
    ASSUME UplData, NEW a \in Attempts, NEW why \in {"wire", "host", "ETOOMUCH"}, Catch(a, why)
    PROVE  \E r \in Standing : UplTurn(a, r) /\ r.fd = 0
              /\ \/ r.pc = "over" /\ r.code = why /\ Kept(a, why)
                 \/ r.pc = "discard" /\ r.code = why /\ Kin(r, a) /\ r.sent = upl[a].sent
<1>1. why \in Codes
    BY DEF Codes
<1>2. CASE Kept(a, why) /\ End(a, why)
    BY <1>1, <1>2, UplEndTurn
<1>3. CASE upl' = [upl EXCEPT ![a].pc = "discard", ![a].code = why, ![a].fd = 0]
    BY <1>1, <1>3, UplDropTurn
<1>4. QED
    BY <1>2, <1>3 DEF Catch

LEMMA UplEndsTurn ==
    ASSUME UplData, NEW a \in Attempts, UploadEnds(a)
    PROVE  \E r \in Standing : UplTurn(a, r)
              /\ \/ r.pc = "settle" /\ Kin(r, a) /\ r.fd = upl[a].fd /\ r.sent = upl[a].sent
                 \/ r.pc = "over" /\ r.code = "ETOOMUCH" /\ Kept(a, "ETOOMUCH") /\ r.fd = 0
                 \/ r.pc = "discard" /\ r.code = "ETOOMUCH" /\ Kin(r, a) /\ r.fd = 0 /\ r.sent = upl[a].sent
<1>1. CASE Catch(a, "ETOOMUCH")
    BY <1>1, UplCatchTurn
<1>2. CASE upl[a].pc = "write" /\ upl' = [upl EXCEPT ![a].pc = "settle"]
    <2>1. "settle" \in Pcs /\ "settle" \in Writing /\ upl[a].pc \in Writing
        BY <1>2 DEF Pcs, Writing
    <2>2. QED
        BY <1>2, <2>1, UplPcTurn
<1>3. QED
    BY <1>1, <1>2 DEF UploadEnds

\* The name that is settled on is free, or may be replaced.
LEMMA UplSettleTurn ==
    ASSUME UplData, NEW a \in Attempts, UploadSettle(a)
    PROVE  \E r \in Standing : UplTurn(a, r) /\ Kin(r, a)
              /\ \/ /\ r.pc = "rename" /\ r.fd = upl[a].fd /\ r.sent = upl[a].sent
                    /\ r.final \in 1..Copies
                    /\ place[r.final] = 0 \/ upl[a].pol = "overwrite"
                 \/ r.pc = "discard" /\ r.code # "done" /\ r.fd = 0 /\ r.sent = upl[a].sent
<1> DEFINE c == IF place[1] = 0 \/ upl[a].pol = "overwrite" THEN 1
                ELSE IF upl[a].pol = "skip" \/ FreeCopies = {} THEN 0
                ELSE CHOOSE n \in FreeCopies : \A m \in FreeCopies : n <= m
           why == IF c # 0 THEN "EDENYLISTED"
                  ELSE IF upl[a].pol = "skip" THEN "ESKIPPED" ELSE "ETOOMANYCOPIES"
           s == [upl[a] EXCEPT !.pc = "rename"]
           r == [s EXCEPT !.final = c]
<1>1. upl[a].pc = "settle" /\ upl[a].fd # 0
    BY UplFields DEF UploadSettle, Writing
<1>2. c \in 0..Copies /\ (c # 0 => place[c] = 0 \/ upl[a].pol = "overwrite")
    <2>1. CASE place[1] = 0 \/ upl[a].pol = "overwrite"
        BY <2>1, UplConsts
    <2>2. CASE ~(place[1] = 0 \/ upl[a].pol = "overwrite") /\ (upl[a].pol = "skip" \/ FreeCopies = {})
        BY <2>2, UplConsts
    <2>3. CASE ~(place[1] = 0 \/ upl[a].pol = "overwrite") /\ ~(upl[a].pol = "skip" \/ FreeCopies = {})
        <3>1. FreeCopies \in SUBSET Nat /\ FreeCopies # {} /\ FreeCopies \subseteq 2..Copies
            BY <2>3, UplConsts DEF FreeCopies
        <3>2. PICK n \in FreeCopies : \A m \in FreeCopies : n <= m
            BY <3>1, FirstPlace
        <3>3. c \in FreeCopies
            BY <2>3, <3>2
        <3>4. QED
            BY <3>1, <3>3, UplConsts DEF FreeCopies
    <2>4. QED
        BY <2>1, <2>2, <2>3
<1>3. upl' = (IF c = 0 \/ c \in Protected
              THEN [upl EXCEPT ![a].pc = "discard", ![a].fd = 0, ![a].code = why]
              ELSE [upl EXCEPT ![a].pc = "rename", ![a].final = c])
    BY DEF UploadSettle
<1> HIDE DEF c
<1>4. CASE c = 0 \/ c \in Protected
    <2>1. why \in Codes /\ why # "done"
        BY DEF Codes
    <2> HIDE DEF why
    <2>2. upl' = [upl EXCEPT ![a].pc = "discard", ![a].code = why, ![a].fd = 0]
        BY <1>3, <1>4 DEF UplData
    <2>3. \E r1 \in Standing : /\ UplTurn(a, r1) /\ Kin(r1, a) /\ r1.pc = "discard" /\ r1.code = why /\ r1.fd = 0
                               /\ r1.sent = upl[a].sent
        BY <2>1, <2>2, UplDropTurn
    <2>4. QED
        BY <2>1, <2>3
<1>5. CASE ~(c = 0 \/ c \in Protected)
    <2>1. upl' = [upl EXCEPT ![a] = r]
        BY <1>3, <1>5 DEF UplData
    <2>2. "rename" \in Pcs
        BY DEF Pcs, Writing
    <2>3. s \in Standing /\ Kin(s, a) /\ s.pc = "rename" /\ s.fd = upl[a].fd /\ s.sent = upl[a].sent
        BY <2>2, UplFields, StandingPc DEF Kin
    <2> HIDE DEF s
    <2>4. /\ r \in Standing /\ Kin(r, a) /\ r.pc = "rename" /\ r.fd = upl[a].fd /\ r.sent = upl[a].sent
          /\ r.final = c
        BY <1>2, <2>3, StandingFinal DEF Kin
    <2> HIDE DEF r
    <2>5. UplTurn(a, r)
        BY <1>1, <1>5, <2>1, <2>4, UplFields DEF UplTurn, Kin, Writing
    <2>6. c \in 1..Copies
        BY <1>2, <1>5, UplConsts
    <2>7. QED
        BY <1>2, <1>5, <2>4, <2>5, <2>6
<1>6. QED
    BY <1>4, <1>5

\* The rename: refused, or the partial becomes the file.
LEMMA UplRenameTurn ==
    ASSUME UplData, NEW a \in Attempts, UploadRename(a)
    PROVE  \E r \in Standing : UplTurn(a, r) /\ r.fd = 0
              /\ \/ /\ Mine(a) = 0 \/ ~Allowed
                    /\ r.pc = "discard" /\ r.code = "host" /\ Kin(r, a)
                    /\ UNCHANGED <<place, partial, clean>>
                 \/ /\ Mine(a) # 0 /\ Allowed
                    /\ r.pc = "over" /\ r.pol = upl[a].pol /\ r.token = "resume"
                    /\ r.code = "done" /\ r.got = data[Mine(a)] /\ r.hit = place[upl[a].final]
                    /\ place' = [place EXCEPT ![upl[a].final] = Mine(a)]
                    /\ partial' = [partial EXCEPT ![upl[a].token] = 0]
                    /\ clean' = clean \ Spoilt(upl[a].token, upl[a].final, a)
<1> DEFINE c == upl[a].final
           i == Mine(a)
<1>1. upl[a].pc = "rename" /\ upl[a].fd # 0 /\ c \in 0..Copies
    BY UplFields DEF UploadRename, Writing
<1>2. CASE i = 0 \/ ~Allowed
    <2>1. Catch(a, "host") /\ UNCHANGED <<place, partial, clean>> /\ ~Kept(a, "host")
        BY <1>2 DEF UploadRename, Kept
    <2>2. QED
        BY <1>2, <2>1, UplCatchTurn
<1>3. CASE ~(i = 0 \/ ~Allowed)
    <2> DEFINE s1 == [Idle EXCEPT !.pc = "over"]
               s2 == [s1 EXCEPT !.code = "done"]
               s3 == [s2 EXCEPT !.pol = upl[a].pol]
               s4 == [s3 EXCEPT !.got = data[i]]
               r  == [s4 EXCEPT !.hit = place[c]]
    <2>1. upl' = [upl EXCEPT ![a] = r] /\ place' = [place EXCEPT ![c] = i]
          /\ partial' = [partial EXCEPT ![upl[a].token] = 0]
          /\ clean' = clean \ Spoilt(upl[a].token, c, a)
        BY <1>3 DEF UploadRename
    <2>2. data[i] \in Seq(0..Size)
        BY <1>3, UplFields DEF UplData
    <2>3. place[c] \in Inodes \cup {0}
        BY <1>1, UplFields DEF UplData
    <2>4. Idle.fd = 0 /\ Idle.sent = 0 /\ Idle.from = 0 /\ Idle.token = "resume" /\ "over" \in Pcs /\ "done" \in Codes
        BY DEF Idle, Pcs, Codes
    <2>5. s1 \in Standing /\ s1.pc = "over" /\ s1.fd = 0 /\ s1.sent = 0 /\ s1.from = 0 /\ s1.token = "resume"
        BY <2>4, IdleStands, StandingPc
    <2> HIDE DEF s1
    <2>6. s2 \in Standing /\ s2.pc = "over" /\ s2.fd = 0 /\ s2.sent = 0 /\ s2.from = 0 /\ s2.token = "resume"
          /\ s2.code = "done"
        BY <2>4, <2>5, StandingCode
    <2> HIDE DEF s2
    <2>7. s3 \in Standing /\ s3.pc = "over" /\ s3.fd = 0 /\ s3.sent = 0 /\ s3.from = 0 /\ s3.token = "resume"
          /\ s3.code = "done" /\ s3.pol = upl[a].pol
        BY <2>6, UplFields, StandingPol
    <2> HIDE DEF s3
    <2>8. s4 \in Standing /\ s4.pc = "over" /\ s4.fd = 0 /\ s4.sent = 0 /\ s4.from = 0 /\ s4.token = "resume"
          /\ s4.code = "done" /\ s4.pol = upl[a].pol /\ s4.got = data[i]
        BY <2>2, <2>7, StandingGot
    <2> HIDE DEF s4
    <2>9. r \in Standing /\ r.pc = "over" /\ r.fd = 0 /\ r.sent = 0 /\ r.from = 0 /\ r.token = "resume"
          /\ r.code = "done" /\ r.pol = upl[a].pol /\ r.got = data[i] /\ r.hit = place[c]
        BY <2>3, <2>8, StandingHit
    <2> HIDE DEF r
    <2>10. UplTurn(a, r)
        BY <2>1, <2>9, UplConsts DEF UplTurn, Writing
    <2>11. QED
        BY <1>3, <2>1, <2>9, <2>10
<1>4. QED
    BY <1>2, <1>3

\* The step of an attempt, with the turn it takes.
LEMMA UplTurnOf ==
    ASSUME UplData, UplRoom, NEW a \in Attempts,
           \/ UploadAsk(a) \/ UploadBegin(a) \/ UploadCheck(a) \/ UploadOpen(a) \/ UploadWrite(a)
           \/ UploadBreaks(a) \/ UploadEnds(a) \/ UploadSettle(a) \/ UploadRename(a) \/ UploadDiscard(a)
    PROVE  \E r \in Standing : UplTurn(a, r)
<1>1. CASE UploadAsk(a) \/ UploadBegin(a) \/ UploadCheck(a) \/ UploadWrite(a) \/ UploadEnds(a)
    BY <1>1, UplAskTurn, UplBeginTurn, UplCheckTurn, UplWriteTurn, UplEndsTurn
<1>2. CASE UploadSettle(a) \/ UploadRename(a)
    BY <1>2, UplSettleTurn, UplRenameTurn
<1>3. CASE UploadBreaks(a)
    BY <1>3, UplCatchTurn DEF UploadBreaks
<1>4. CASE UploadDiscard(a)
    BY <1>4, UplEndTurn, UplFields DEF UploadDiscard
<1>5. CASE UploadOpen(a)
    <2>1. CASE rootDir /\ (~window \/ upl[a].from > 0)
        <3>1. End(a, IF window THEN "ERESUME" ELSE "EACCES")
            BY <1>5, <2>1 DEF UploadOpen
        <3>2. (IF window THEN "ERESUME" ELSE "EACCES") \in Codes
            BY DEF Codes
        <3>3. QED
            BY <3>1, <3>2, UplEndTurn
    <2>2. CASE ~(rootDir /\ (~window \/ upl[a].from > 0))
        <3> DEFINE i == IF Mine(a) = 0 THEN NewInode ELSE Mine(a)
        <3>1. upl[a].pc = "open" /\ upl' = [upl EXCEPT ![a].pc = "write", ![a].fd = i]
            BY <1>5, <2>2 DEF UploadOpen
        <3>2. i \in Inodes /\ i # 0
            <4>1. upl[a].pc \in Before
                BY <3>1 DEF Before
            <4>2. NewInode \in Inodes
                BY <4>1, UplFresh
            <4>3. QED
                BY <4>2, UplFields, UplConsts
        <3> HIDE DEF i
        <3>3. QED
            BY <3>1, <3>2, UplOpenTurn
    <2>3. QED
        BY <2>1, <2>2
<1>6. QED
    BY <1>1, <1>2, <1>3, <1>4, <1>5

LEMMA UplDataStep ==
    ASSUME UplData, UplRoom, [UploadNext]_uplVars
    PROVE  UplData'
<1> DEFINE Store == /\ place' \in [1..Copies -> Inodes \cup {0}] /\ partial' \in [Tokens -> Inodes \cup {0}]
                    /\ data' \in [Inodes -> Seq(0..Size)]
                    /\ clean' \subseteq Attempts /\ mixed' \subseteq Inodes /\ litter' \subseteq Tokens
                    /\ rootDir' \in BOOLEAN /\ window' \in BOOLEAN /\ rivals' \in 0..MaxRivals
<1>1. ASSUME NEW a \in Attempts,
             \/ UploadAsk(a) \/ UploadBegin(a) \/ UploadCheck(a) \/ UploadOpen(a) \/ UploadWrite(a)
             \/ UploadBreaks(a) \/ UploadEnds(a) \/ UploadSettle(a) \/ UploadRename(a) \/ UploadDiscard(a)
      PROVE  UplData'
    <2>1. PICK r \in Standing : UplTurn(a, r)
        BY <1>1, UplTurnOf
    <2>2. Store
        <3>1. CASE UploadCheck(a) \/ UploadBreaks(a) \/ UploadEnds(a) \/ UploadSettle(a) \/ UploadAsk(a)
            BY <3>1 DEF UplData, UploadCheck, UploadBreaks, UploadEnds, UploadSettle, UploadAsk
        <3>2. CASE UploadBegin(a)
            BY <3>2 DEF UplData, UploadBegin
        <3>3. CASE UploadOpen(a)
            <4>1. CASE rootDir /\ (~window \/ upl[a].from > 0)
                BY <3>3, <4>1 DEF UplData, UploadOpen
            <4>2. CASE ~(rootDir /\ (~window \/ upl[a].from > 0))
                <5> DEFINE i == IF Mine(a) = 0 THEN NewInode ELSE Mine(a)
                <5>1. upl[a].pc \in Before
                    BY <3>3 DEF UploadOpen, Before
                <5>2. i \in Inodes
                    BY <5>1, UplFresh, UplFields
                <5>3. /\ partial' = [partial EXCEPT ![upl[a].token] = i]
                      /\ data' = data \/ data' = [data EXCEPT ![i] = <<>>]
                      /\ clean' \subseteq clean /\ mixed' \subseteq mixed \cup {i} /\ litter' \subseteq litter
                      /\ UNCHANGED <<place, rootDir, window, rivals>>
                    BY <3>3, <4>2 DEF UploadOpen
                <5> HIDE DEF i
                <5>4. partial' \in [Tokens -> Inodes \cup {0}]
                    BY <5>2, <5>3 DEF UplData
                <5>5. <<>> \in Seq(0..Size)
                    OBVIOUS
                <5>6. data' \in [Inodes -> Seq(0..Size)]
                    BY <5>2, <5>3, <5>5 DEF UplData
                <5>7. QED
                    BY <5>2, <5>3, <5>4, <5>6 DEF UplData
            <4>3. QED
                BY <4>1, <4>2
        <3>4. CASE UploadWrite(a)
            <4> DEFINE i == upl[a].fd
                       b == Written(a) + 1
                       at == upl[a].sent + 1
                       d == data[i]
            <4>1. upl[a].pc = "write" /\ Written(a) < Size /\ UNCHANGED <<place, partial, rootDir, window, mixed, litter, rivals>>
                  /\ clean' \subseteq clean
                  /\ data' = [data EXCEPT ![i] = IF upl[a].from > 0 \/ at > Len(d) THEN Append(d, b) ELSE [d EXCEPT ![at] = b]]
                BY <3>4 DEF UploadWrite
            <4>2. i \in Inodes /\ b \in 0..Size /\ at \in Nat /\ at # 0
                <5>1. /\ upl[a].fd \in Inodes \cup {0} /\ (upl[a].fd # 0 <=> upl[a].pc \in Writing)
                      /\ upl[a].from \in 0..Size /\ upl[a].sent \in 0..Size
                    BY UplFields
                <5>2. i \in Inodes
                    BY <4>1, <5>1 DEF Writing
                <5>3. Size \in Nat
                    BY UplConsts
                <5>4. b \in 0..Size
                    BY <4>1, <5>1, <5>3 DEF Written
                <5>5. at \in Nat /\ at # 0
                    BY <5>1, <5>3
                <5>6. QED
                    BY <5>2, <5>4, <5>5
            <4>3. d \in Seq(0..Size)
                BY <4>2 DEF UplData
            <4> HIDE DEF i, b, at, d
            <4>4. Append(d, b) \in Seq(0..Size) /\ (at <= Len(d) => [d EXCEPT ![at] = b] \in Seq(0..Size))
                BY <4>2, <4>3
            <4> DEFINE w == IF upl[a].from > 0 \/ at > Len(d) THEN Append(d, b) ELSE [d EXCEPT ![at] = b]
            <4>5. w \in Seq(0..Size)
                <5>1. Len(d) \in Nat
                    BY <4>3
                <5>2. at > Len(d) \/ at <= Len(d)
                    BY <4>2, <5>1
                <5>3. CASE upl[a].from > 0 \/ at > Len(d)
                    BY <4>4, <5>3
                <5>4. CASE ~(upl[a].from > 0 \/ at > Len(d))
                    BY <4>4, <5>2, <5>4
                <5>5. QED
                    BY <5>3, <5>4
            <4>6. data' = [data EXCEPT ![i] = w]
                BY <4>1
            <4> HIDE DEF w
            <4>7. data' \in [Inodes -> Seq(0..Size)]
                BY <4>2, <4>5, <4>6 DEF UplData
            <4>8. QED
                BY <4>1, <4>7 DEF UplData
        <3>5. CASE UploadRename(a)
            <4>1. Mine(a) \in Inodes \cup {0}
                BY UplFields
            <4>2. UNCHANGED <<data, rootDir, window, mixed, litter, rivals>>
                  /\ \/ UNCHANGED <<place, partial, clean>>
                     \/ /\ place' = [place EXCEPT ![upl[a].final] = Mine(a)]
                        /\ partial' = [partial EXCEPT ![upl[a].token] = 0]
                        /\ clean' \subseteq clean
                BY <3>5 DEF UploadRename
            <4>3. QED
                BY <4>1, <4>2 DEF UplData
        <3>6. CASE UploadDiscard(a)
            <4>1. upl[a].token \in Tokens
                BY UplFields
            <4>2. /\ litter' \subseteq litter \cup {upl[a].token} /\ clean' \subseteq clean
                  /\ partial' \in {partial, [partial EXCEPT ![upl[a].token] = 0]}
                  /\ UNCHANGED <<place, data, rootDir, window, mixed, rivals>>
                BY <3>6 DEF UploadDiscard
            <4>3. QED
                BY <4>1, <4>2 DEF UplData
        <3>7. QED
            BY <1>1, <3>1, <3>2, <3>3, <3>4, <3>5, <3>6
    <2>3. QED
        BY <2>1, <2>2, UplTurns DEF UplData
<1>2. CASE RivalWrites
    <2>1. PICK c \in 1..Copies :
              /\ rivals < MaxRivals /\ place' = [place EXCEPT ![c] = NewInode]
              /\ data' = [data EXCEPT ![NewInode] = <<0>>]
              /\ clean' \subseteq clean /\ rivals' = rivals + 1
              /\ UNCHANGED <<partial, rootDir, window, upl, mixed, litter>>
        BY <1>2 DEF RivalWrites
    <2>2. NewInode \in Inodes
        BY <2>1, UplFresh
    <2>3. <<0>> \in Seq(0..Size)
        BY UplConsts
    <2>4. Store
        BY <2>1, <2>2, <2>3, UplConsts DEF UplData
    <2>5. QED
        BY <2>1, <2>4 DEF UplData, Written, UplOpen
<1>3. CASE UploadWindowEnds \/ UNCHANGED uplVars
    BY <1>3 DEF UploadWindowEnds, uplVars, UplData, Written, UplOpen
<1>4. QED
    BY <1>1, <1>2, <1>3 DEF UploadNext

\* A step that takes one inode more takes it for an attempt or for a rival.
LEMMA UplRoomKept ==
    ASSUME UplData, UplRoom, NEW i,
           \/ /\ Used' \subseteq Used \cup {0} /\ rivals' = rivals
              /\ \A b \in Attempts : upl'[b].pc \in Before => upl[b].pc \in Before
           \/ /\ Used' \subseteq Used \cup {0, i} /\ rivals' = rivals
              /\ \A b \in Attempts : upl'[b].pc \in Before => upl[b].pc \in Before
              /\ \E a \in Attempts : upl[a].pc \in Before /\ upl'[a].pc \notin Before
           \/ /\ Used' \subseteq Used \cup {0, i} /\ rivals' = rivals + 1
              /\ \A b \in Attempts : upl'[b].pc \in Before => upl[b].pc \in Before
    PROVE  UplRoom'
<1> DEFINE B == {a \in Attempts : upl[a].pc \in Before}
           C == {a \in Attempts : upl'[a].pc \in Before}
           U == Used \ {0}
           V == Used' \ {0}
<1>1. Cardinality(U) + Cardinality(B) <= Cardinality(Attempts) + rivals
    BY DEF UplRoom
<1>2. IsFiniteSet(U) /\ IsFiniteSet(B)
    <2>1. U \in SUBSET Inodes
        BY DEF UplData, Used, Standing
    <2>2. IsFiniteSet(Inodes)
        <3>1. 2 * Cardinality(Attempts) + MaxRivals \in Nat
            BY UplConsts
        <3>2. QED
            BY <3>1, FS_Interval DEF Inodes
    <2>3. QED
        BY <2>1, <2>2, UplConsts, FS_Subset
<1>3. C \in SUBSET B /\ C \in SUBSET Attempts
    OBVIOUS
<1>4. \/ V \in SUBSET U /\ rivals' = rivals
      \/ V \in SUBSET (U \cup {i}) /\ rivals' = rivals /\ \E a \in B : C \in SUBSET (B \ {a})
      \/ V \in SUBSET (U \cup {i}) /\ rivals' = rivals + 1
    OBVIOUS
<1>5. UplRoom' = (Cardinality(V) + Cardinality(C) <= Cardinality(Attempts) + rivals')
    BY DEF UplRoom
<1> HIDE DEF B, C, U, V
<1>6. Cardinality(C) <= Cardinality(B) /\ Cardinality(C) \in Nat /\ Cardinality(B) \in Nat /\ Cardinality(U) \in Nat
    BY <1>2, <1>3, FS_Subset, FS_CardinalityType
<1>7. IsFiniteSet(U \cup {i}) /\ Cardinality(U \cup {i}) <= Cardinality(U) + 1
    <2>1. CASE i \in U
        <3>1. U \cup {i} = U
            BY <2>1
        <3>2. IsFiniteSet(U \cup {i}) /\ Cardinality(U \cup {i}) = Cardinality(U)
            BY <1>2, <3>1, Zenon
        <3>3. QED
            BY <1>6, <3>2
    <2>2. CASE i \notin U
        <3>1. IsFiniteSet(U \cup {i}) /\ Cardinality(U \cup {i}) = Cardinality(U) + 1
            BY <1>2, <2>2, FS_AddElement
        <3>2. QED
            BY <1>6, <3>1
    <2>3. QED
        BY <2>1, <2>2
<1>8. rivals \in Nat /\ Cardinality(Attempts) \in Nat
    BY UplConsts DEF UplData
<1>9. CASE V \in SUBSET U /\ rivals' = rivals
    <2>1. Cardinality(V) <= Cardinality(U) /\ Cardinality(V) \in Nat
        BY <1>2, <1>9, FS_Subset, FS_CardinalityType
    <2>2. Cardinality(V) + Cardinality(C) <= Cardinality(Attempts) + rivals'
        BY <1>1, <1>6, <1>8, <1>9, <2>1
    <2>3. QED
        BY <1>5, <2>2
<1>10. CASE V \in SUBSET (U \cup {i})
    <2>1. Cardinality(V) <= Cardinality(U) + 1 /\ Cardinality(V) \in Nat
        <3>1. Cardinality(V) <= Cardinality(U \cup {i}) /\ Cardinality(V) \in Nat
            BY <1>7, <1>10, FS_Subset, FS_CardinalityType
        <3>2. Cardinality(U \cup {i}) \in Nat
            BY <1>7, FS_CardinalityType
        <3>3. QED
            BY <1>6, <1>7, <3>1, <3>2
    <2>2. CASE rivals' = rivals + 1
        <3>1. Cardinality(V) + Cardinality(C) <= Cardinality(Attempts) + rivals'
            BY <1>1, <1>6, <1>8, <2>1, <2>2
        <3>2. QED
            BY <1>5, <3>1
    <2>3. ASSUME rivals' = rivals, NEW a \in B, C \in SUBSET (B \ {a}) PROVE UplRoom'
        <3>1. Cardinality(B \ {a}) = Cardinality(B) - 1 /\ IsFiniteSet(B \ {a})
            BY <1>2, <2>3, FS_RemoveElement
        <3>2. Cardinality(C) <= Cardinality(B) - 1
            BY <2>3, <3>1, FS_Subset
        <3>3. Cardinality(V) + Cardinality(C) <= Cardinality(Attempts) + rivals'
            BY <1>1, <1>6, <1>8, <2>1, <2>3, <3>2
        <3>4. QED
            BY <1>5, <3>3
    <2>4. QED
        BY <1>4, <1>9, <2>2, <2>3
<1>11. QED
    BY <1>4, <1>9, <1>10

LEMMA UplRoomStep ==
    ASSUME UplData, UplRoom, [UploadNext]_uplVars
    PROVE  UplRoom'
<1>1. ASSUME NEW a \in Attempts, NEW r \in Standing, UplTurn(a, r), NEW i,
             r.fd \in {0, upl[a].fd, i}, r.pc \in Before => upl[a].pc \in Before,
             \A t \in Tokens : partial'[t] \in {0, partial[t], i},
             \A c \in 1..Copies : place'[c] \in {place[c]} \cup Used,
             rivals' = rivals, i \in Used \/ (upl[a].pc \in Before /\ r.pc \notin Before)
      PROVE  UplRoom'
    <2>1. upl'[a] = r /\ \A b \in Attempts \ {a} : upl'[b] = upl[b]
        BY <1>1, UplTurns
    <2>2. Used' \subseteq Used \cup {0, i}
        BY <1>1, <2>1 DEF Used
    <2>3. \A b \in Attempts : upl'[b].pc \in Before => upl[b].pc \in Before
        BY <1>1, <2>1
    <2>4. CASE i \in Used
        <3>1. Used' \subseteq Used \cup {0}
            BY <2>2, <2>4
        <3>2. QED
            BY <1>1, <2>3, <3>1, UplRoomKept
    <2>5. CASE upl[a].pc \in Before /\ r.pc \notin Before
        BY <1>1, <2>1, <2>2, <2>3, <2>5, UplRoomKept
    <2>6. QED
        BY <1>1, <2>4, <2>5
<1>2. ASSUME NEW a \in Attempts,
             \/ UploadAsk(a) \/ UploadBegin(a) \/ UploadCheck(a) \/ UploadWrite(a)
             \/ UploadBreaks(a) \/ UploadEnds(a) \/ UploadSettle(a) \/ UploadDiscard(a)
      PROVE  UplRoom'
    <2>1. PICK r \in Standing : /\ UplTurn(a, r) /\ r.fd \in {0, upl[a].fd}
                                /\ r.pc \in Before => upl[a].pc \in Before
        <3>1. CASE UploadAsk(a)
            BY <3>1, UplAskTurn DEF UploadAsk, Before
        <3>2. CASE UploadBegin(a)
            BY <3>2, UplBeginTurn DEF UploadBegin, Before
        <3>3. CASE UploadCheck(a)
            BY <3>3, UplCheckTurn DEF UploadCheck, Before
        <3>4. CASE UploadWrite(a)
            BY <3>4, UplWriteTurn DEF Before
        <3>5. CASE UploadBreaks(a)
            BY <3>5, UplCatchTurn DEF UploadBreaks, Before
        <3>6. CASE UploadEnds(a)
            BY <3>6, UplEndsTurn DEF Before
        <3>7. CASE UploadSettle(a)
            BY <3>7, UplSettleTurn DEF Before
        <3>8. CASE UploadDiscard(a)
            BY <3>8, UplEndTurn, UplFields DEF UploadDiscard, Before
        <3>9. QED
            BY <1>2, <3>1, <3>2, <3>3, <3>4, <3>5, <3>6, <3>7, <3>8
    <2>2. UNCHANGED <<place, rivals>> /\ \A t \in Tokens : partial'[t] \in {0, partial[t]}
        BY <1>2 DEF UploadAsk, UploadBegin, UploadCheck, UploadWrite, UploadBreaks, UploadEnds, UploadSettle,
                    UploadDiscard, UplData
    <2>3. upl[a].fd \in Used
        BY DEF Used
    <2>4. QED
        BY <1>1, <2>1, <2>2, <2>3
<1>3. ASSUME NEW a \in Attempts, UploadOpen(a) PROVE UplRoom'
    <2>1. CASE rootDir /\ (~window \/ upl[a].from > 0)
        <3>1. PICK r \in Standing : UplTurn(a, r) /\ r.fd = 0 /\ r.pc = "over"
            <4>1. (IF window THEN "ERESUME" ELSE "EACCES") \in Codes
                BY DEF Codes
            <4>2. QED
                BY <1>3, <2>1, <4>1, UplEndTurn DEF UploadOpen
        <3>2. UNCHANGED <<place, partial, rivals>> /\ "over" \notin Before
            BY <1>3, <2>1 DEF UploadOpen, Before
        <3>3. upl[a].fd \in Used
            BY DEF Used
        <3>4. QED
            BY <1>1, <3>1, <3>2, <3>3
    <2>2. CASE ~(rootDir /\ (~window \/ upl[a].from > 0))
        <3> DEFINE i == IF Mine(a) = 0 THEN NewInode ELSE Mine(a)
        <3>1. upl[a].pc = "open" /\ upl' = [upl EXCEPT ![a].pc = "write", ![a].fd = i]
              /\ partial' = [partial EXCEPT ![upl[a].token] = i] /\ UNCHANGED <<place, rivals>>
            BY <1>3, <2>2 DEF UploadOpen
        <3>2. upl[a].pc \in Before
            BY <3>1 DEF Before
        <3>3. i \in Inodes /\ i # 0
            BY <3>2, UplFresh, UplFields, UplConsts
        <3> HIDE DEF i
        <3>4. PICK r \in Standing : UplTurn(a, r) /\ r.pc = "write" /\ r.fd = i
            BY <3>1, <3>3, UplOpenTurn
        <3>5. "write" \notin Before
            BY DEF Before
        <3>6. \A t \in Tokens : partial'[t] \in {0, partial[t], i}
            BY <3>1 DEF UplData
        <3>7. QED
            BY <1>1, <3>1, <3>2, <3>4, <3>5, <3>6
    <2>3. QED
        BY <2>1, <2>2
<1>4. ASSUME NEW a \in Attempts, UploadRename(a) PROVE UplRoom'
    <2>1. PICK r \in Standing : UplTurn(a, r) /\ r.fd = 0 /\ r.pc \in {"over", "discard"}
        BY <1>4, UplRenameTurn
    <2>2. Mine(a) \in Used
        BY UplFields DEF Used, Mine
    <2>3. /\ \A t \in Tokens : partial'[t] \in {0, partial[t]}
          /\ \A c \in 1..Copies : place'[c] \in {place[c]} \cup Used
          /\ rivals' = rivals
        BY <1>4, <2>2 DEF UploadRename, UplData
    <2>4. upl'[a] = r /\ \A b \in Attempts \ {a} : upl'[b] = upl[b]
        BY <2>1, UplTurns
    <2>5. Used' \subseteq Used \cup {0}
        <3>1. \A t \in Tokens : partial'[t] \in Used \cup {0}
            BY <2>3 DEF Used
        <3>2. \A c \in 1..Copies : place'[c] \in Used
            BY <2>3 DEF Used
        <3>3. \A b \in Attempts : upl'[b].fd \in Used \cup {0}
            BY <2>1, <2>4 DEF Used
        <3>4. QED
            BY <3>1, <3>2, <3>3 DEF Used
    <2>6. \A b \in Attempts : upl'[b].pc \in Before => upl[b].pc \in Before
        BY <2>1, <2>4 DEF Before
    <2>7. QED
        BY <2>3, <2>5, <2>6, UplRoomKept
<1>5. CASE RivalWrites
    <2>1. /\ UNCHANGED <<partial, upl>> /\ rivals' = rivals + 1
          /\ \A c \in 1..Copies : place'[c] \in {place[c], NewInode}
        BY <1>5 DEF RivalWrites, UplData
    <2>2. Used' \subseteq Used \cup {0, NewInode}
        BY <2>1 DEF Used
    <2>3. QED
        BY <2>1, <2>2, UplRoomKept
<1>6. CASE UploadWindowEnds \/ UNCHANGED uplVars
    <2>1. UNCHANGED <<partial, upl, rivals, place>>
        BY <1>6 DEF UploadWindowEnds, uplVars
    <2>2. Used' = Used
        BY <2>1 DEF Used
    <2>3. QED
        BY <2>1, <2>2, UplRoomKept
<1>7. QED
    BY <1>2, <1>3, <1>4, <1>5, <1>6 DEF UploadNext

LEMMA SegNone == Seg(0) = <<>>
<1>1. Seg(0) \in Seq(Nat) /\ Len(Seg(0)) = 0
    BY SegSeq
<1>2. QED
    BY <1>1, EmptySeq

\* A step of an attempt that writes nothing and opens nothing: it goes on with
\* its stream or without one, and a partial may go.
Quiet(a, r) ==
    /\ UplTurn(a, r) /\ UNCHANGED <<data, mixed, rootDir>> /\ litter \subseteq litter'
    /\ r.fd = 0 \/ (r.fd = upl[a].fd /\ Kin(r, a) /\ r.sent = upl[a].sent)
    /\ \A t \in Tokens : partial'[t] \in {0, partial[t]}

\* The partial an attempt opens: its own, or a new one.
Opening(a, r, i) ==
    /\ upl[a].pc = "open" /\ upl[a].fd = 0 /\ i # 0
    /\ UplTurn(a, r) /\ Kin(r, a) /\ r.pc = "write" /\ r.fd = i /\ r.sent = upl[a].sent
    /\ (i = Mine(a) \/ (i \notin Used /\ Mine(a) = 0))
    /\ partial'[upl[a].token] = i /\ \A t \in Tokens \ {upl[a].token} : partial'[t] = partial[t]
    /\ \A j \in Inodes \ {i} : data'[j] = data[j]
    /\ data'[i] = (IF upl[a].from > 0 /\ Mine(a) # 0 THEN data[i] ELSE <<>>)
    /\ clean' = clean \ (Spoilt(upl[a].token, 0, a) \cup (IF upl[a].from > 0 /\ i \in mixed THEN {a} ELSE {}))
    /\ mixed' = (IF Streaming(i) # {} \/ (upl[a].from > 0 /\ (i \in mixed \/ a \notin clean))
                 THEN mixed \cup {i} ELSE mixed \ {i})
    /\ UNCHANGED <<place, rootDir>> /\ litter' = litter \ {upl[a].token}

LEMMA UplOpens ==
    ASSUME UplData, UplRoom, NEW a \in Attempts, UploadOpen(a)
    PROVE  \/ /\ rootDir /\ UNCHANGED <<place, partial, clean>>
              /\ \E r \in Standing : Quiet(a, r) /\ r.pc = "over" /\ r.code # "done"
           \/ \E i \in Inodes, r \in Standing : Opening(a, r, i)
<1>1. CASE rootDir /\ (~window \/ upl[a].from > 0)
    <2>1. (IF window THEN "ERESUME" ELSE "EACCES") \in Codes
        BY DEF Codes
    <2>2. PICK r \in Standing : UplTurn(a, r) /\ r.fd = 0 /\ r.pc = "over" /\ r.code # "done"
        BY <1>1, <2>1, UplEndTurn DEF UploadOpen
    <2>3. UNCHANGED <<place, partial, data, clean, mixed, litter, rootDir>>
        BY <1>1 DEF UploadOpen
    <2>4. QED
        BY <1>1, <2>2, <2>3 DEF Quiet
<1>2. CASE ~(rootDir /\ (~window \/ upl[a].from > 0))
    <2> DEFINE i == IF Mine(a) = 0 THEN NewInode ELSE Mine(a)
               t == upl[a].token
    <2>1. /\ upl[a].pc = "open" /\ upl' = [upl EXCEPT ![a].pc = "write", ![a].fd = i]
          /\ partial' = [partial EXCEPT ![t] = i]
          /\ data' = (IF upl[a].from > 0 /\ Mine(a) # 0 THEN data ELSE [data EXCEPT ![i] = <<>>])
          /\ clean' = clean \ (Spoilt(t, 0, a) \cup (IF upl[a].from > 0 /\ i \in mixed THEN {a} ELSE {}))
          /\ mixed' = (IF Streaming(i) # {} \/ (upl[a].from > 0 /\ (i \in mixed \/ a \notin clean))
                       THEN mixed \cup {i} ELSE mixed \ {i})
          /\ UNCHANGED <<place, rootDir>> /\ litter' = litter \ {t}
        BY <1>2 DEF UploadOpen
    <2>2. upl[a].pc \in Before /\ upl[a].fd = 0
        BY <2>1, UplFields DEF Before, Writing
    <2>3. i \in Inodes /\ i # 0 /\ (i = Mine(a) \/ (i \notin Used /\ Mine(a) = 0))
        BY <2>2, UplFresh, UplFields, UplConsts
    <2>4. t \in Tokens
        BY UplFields
    <2> HIDE DEF i, t
    <2>5. PICK r \in Standing : UplTurn(a, r) /\ Kin(r, a) /\ r.pc = "write" /\ r.fd = i /\ r.sent = upl[a].sent
        BY <2>1, <2>3, UplOpenTurn
    <2>6. partial'[t] = i /\ \A u \in Tokens \ {t} : partial'[u] = partial[u]
        BY <2>1, <2>4 DEF UplData
    <2>7. /\ \A j \in Inodes \ {i} : data'[j] = data[j]
          /\ data'[i] = (IF upl[a].from > 0 /\ Mine(a) # 0 THEN data[i] ELSE <<>>)
        BY <2>1, <2>3 DEF UplData
    <2>8. Opening(a, r, i)
        BY <2>1, <2>2, <2>3, <2>5, <2>6, <2>7 DEF Opening, t
    <2>9. QED
        BY <2>3, <2>8
<1>3. QED
    BY <1>1, <1>2

LEMMA UplQuiet ==
    ASSUME UplData, NEW a \in Attempts,
           \/ UploadAsk(a) \/ UploadBegin(a) \/ UploadCheck(a) \/ UploadBreaks(a) \/ UploadEnds(a)
           \/ UploadSettle(a) \/ UploadRename(a) \/ UploadDiscard(a)
    PROVE  \E r \in Standing :
              /\ Quiet(a, r)
              /\ r.pc \in Before => r.sent = 0 \/ (upl[a].pc \in Before /\ r.sent = upl[a].sent)
              /\ r.pc = "discard" => r.code # "done"
<1>1. UNCHANGED <<data, mixed, rootDir>> /\ litter \subseteq litter' /\ \A t \in Tokens : partial'[t] \in {0, partial[t]}
    BY DEF UploadAsk, UploadBegin, UploadCheck, UploadBreaks, UploadEnds, UploadSettle, UploadRename,
           UploadDiscard, UplData
<1>2. \E r \in Standing : /\ UplTurn(a, r)
                          /\ r.fd = 0 \/ (r.fd = upl[a].fd /\ Kin(r, a) /\ r.sent = upl[a].sent)
                          /\ r.pc \in Before => r.sent = 0 \/ (upl[a].pc \in Before /\ r.sent = upl[a].sent)
                          /\ r.pc = "discard" => r.code # "done"
    <2>1. CASE UploadAsk(a)
        BY <2>1, UplAskTurn
    <2>2. CASE UploadBegin(a)
        BY <2>2, UplBeginTurn DEF UploadBegin, Before
    <2>3. CASE UploadCheck(a)
        BY <2>3, UplCheckTurn DEF UploadCheck, Before
    <2>4. CASE UploadBreaks(a)
        BY <2>4, UplCatchTurn DEF UploadBreaks, Before
    <2>5. CASE UploadEnds(a)
        BY <2>5, UplEndsTurn DEF Before
    <2>6. CASE UploadSettle(a)
        BY <2>6, UplSettleTurn DEF Before
    <2>7. CASE UploadRename(a)
        BY <2>7, UplRenameTurn DEF Before
    <2>8. CASE UploadDiscard(a)
        BY <2>8, UplEndTurn, UplFields DEF UploadDiscard, Before
    <2>9. QED
        BY <2>1, <2>2, <2>3, <2>4, <2>5, <2>6, <2>7, <2>8
<1>3. QED
    BY <1>1, <1>2 DEF Quiet

LEMMA UplStartStep ==
    ASSUME UplData, UplRoom, UplStart, [UploadNext]_uplVars
    PROVE  UplStart'
<1>1. ASSUME NEW a \in Attempts, NEW r \in Standing, UplTurn(a, r),
             r.pc \in Before => r.sent = 0 \/ (upl[a].pc \in Before /\ r.sent = upl[a].sent),
             r.pc = "discard" => r.code # "done"
      PROVE  UplStart'
    BY <1>1, UplTurns DEF UplStart
<1>2. ASSUME NEW a \in Attempts,
             \/ UploadAsk(a) \/ UploadBegin(a) \/ UploadCheck(a) \/ UploadBreaks(a) \/ UploadEnds(a)
             \/ UploadSettle(a) \/ UploadRename(a) \/ UploadDiscard(a)
      PROVE  UplStart'
    BY <1>1, <1>2, UplQuiet DEF Quiet
<1>3. ASSUME NEW a \in Attempts, UploadOpen(a) PROVE UplStart'
    <2>1. "write" \notin Before /\ "over" \notin Before
        BY DEF Before
    <2>2. QED
        BY <1>1, <1>3, <2>1, UplOpens DEF Quiet, Opening
<1>4. ASSUME NEW a \in Attempts, UploadWrite(a) PROVE UplStart'
    <2>1. "write" \notin Before
        BY DEF Before
    <2>2. QED
        BY <1>1, <1>4, <2>1, UplWriteTurn
<1>5. CASE RivalWrites \/ UploadWindowEnds \/ UNCHANGED uplVars
    BY <1>5 DEF UplStart, RivalWrites, UploadWindowEnds, uplVars
<1>6. QED
    BY <1>2, <1>3, <1>4, <1>5 DEF UploadNext

\* The block an attempt writes, and where it lands when what is there is what
\* the attempt wrote.
Carrying(a, r) ==
    /\ upl[a].pc = "write" /\ upl[a].fd \in Inodes /\ UplTurn(a, r) /\ Kin(r, a)
    /\ r.pc = "write" /\ r.fd = upl[a].fd /\ r.from + r.sent = Written(a) + 1 /\ Written(a) \in Nat
    /\ \A j \in Inodes \ {upl[a].fd} : data'[j] = data[j]
    /\ data[upl[a].fd] = Seg(Written(a)) => data'[upl[a].fd] = Seg(Written(a) + 1)
    /\ UNCHANGED <<place, partial, rootDir, mixed, litter>>

LEMMA UplWrites ==
    ASSUME UplData, NEW a \in Attempts, UploadWrite(a)
    PROVE  \E r \in Standing : Carrying(a, r)
<1> DEFINE i == upl[a].fd
           b == Written(a) + 1
           at == upl[a].sent + 1
           w == IF upl[a].from > 0 \/ at > Len(data[i]) THEN Append(data[i], b) ELSE [data[i] EXCEPT ![at] = b]
<1>1. PICK r \in Standing : UplTurn(a, r) /\ Kin(r, a) /\ r.pc = "write" /\ r.fd = i /\ r.sent = upl[a].sent + 1
    BY UplWriteTurn
<1>2. upl[a].pc = "write" /\ data' = [data EXCEPT ![i] = w] /\ UNCHANGED <<place, partial, rootDir, mixed, litter>>
    BY DEF UploadWrite
<1>3. i \in Inodes /\ upl[a].from \in 0..Size /\ upl[a].sent \in 0..Size /\ Size \in Nat
    BY <1>2, UplFields, UplConsts DEF Writing
<1>4. Written(a) \in Nat /\ r.from + r.sent = Written(a) + 1
    BY <1>1, <1>3 DEF Written, Kin
<1>5. data[i] = Seg(Written(a)) => w = Seg(Written(a) + 1)
    <2>1. ASSUME data[i] = Seg(Written(a)) PROVE w = Append(Seg(Written(a)), Written(a) + 1)
        <3>1. Len(Seg(Written(a))) = Written(a)
            BY <1>4, SegSeq
        <3>2. upl[a].from > 0 \/ at > Len(data[i])
            BY <1>3, <2>1, <3>1 DEF Written
        <3>3. QED
            BY <2>1, <3>2
    <2>2. QED
        BY <1>4, <2>1, SegSeq
<1> HIDE DEF w
<1>6. (\A j \in Inodes \ {i} : data'[j] = data[j]) /\ data'[i] = w
    BY <1>2, <1>3 DEF UplData
<1>7. QED
    BY <1>1, <1>2, <1>3, <1>4, <1>5, <1>6 DEF Carrying

LEMMA UplNamedStep ==
    ASSUME UplData, UplRoom, UplNamed, [UploadNext]_uplVars
    PROVE  UplNamed'
<1>1. ASSUME NEW a \in Attempts, NEW r \in Standing, UplTurn(a, r),
             r.fd = 0 \/ (r.fd = upl[a].fd /\ r.token = upl[a].token),
             \A t \in Tokens : partial'[t] \in {0, partial[t]}
      PROVE  UplNamed'
    BY <1>1, UplTurns DEF UplNamed
<1>2. ASSUME NEW a \in Attempts,
             \/ UploadAsk(a) \/ UploadBegin(a) \/ UploadCheck(a) \/ UploadBreaks(a) \/ UploadEnds(a)
             \/ UploadSettle(a) \/ UploadRename(a) \/ UploadDiscard(a)
      PROVE  UplNamed'
    BY <1>1, <1>2, UplQuiet DEF Quiet, Kin
<1>3. ASSUME NEW a \in Attempts, UploadOpen(a) PROVE UplNamed'
    <2>1. ASSUME NEW r \in Standing, Quiet(a, r) PROVE UplNamed'
        BY <1>1, <2>1 DEF Quiet, Kin
    <2>2. ASSUME NEW i \in Inodes, NEW r \in Standing, Opening(a, r, i) PROVE UplNamed'
        <3> DEFINE t == upl[a].token
        <3>1. /\ upl'[a] = r /\ r.fd = i /\ r.token = t /\ i # 0 /\ t \in Tokens
              /\ \A b \in Attempts \ {a} : upl'[b] = upl[b]
            BY <2>2, UplTurns, UplFields DEF Opening, Kin
        <3>2. partial'[t] = i /\ \A u \in Tokens \ {t} : partial'[u] = partial[u]
            BY <2>2 DEF Opening
        <3>3. (\A u \in Tokens \ {t} : partial[u] # i) /\ \A b \in Attempts : upl[b].fd = i => upl[b].token = t
            <4>1. CASE i = Mine(a)
                BY <3>1, <4>1 DEF UplNamed, Mine
            <4>2. CASE i \notin Used
                BY <4>2 DEF Used
            <4>3. QED
                BY <2>2, <4>1, <4>2 DEF Opening
        <3> HIDE DEF t
        <3>4. \A u, v \in Tokens : partial'[u] = partial'[v] /\ partial'[u] # 0 => u = v
            BY <3>1, <3>2, <3>3 DEF UplNamed
        <3>5. \A u \in Tokens, b \in Attempts : partial'[u] = upl'[b].fd /\ partial'[u] # 0 => upl'[b].token = u
            BY <3>1, <3>2, <3>3 DEF UplNamed
        <3>6. QED
            BY <3>4, <3>5 DEF UplNamed
    <2>3. QED
        BY <1>3, <2>1, <2>2, UplOpens
<1>4. ASSUME NEW a \in Attempts, UploadWrite(a) PROVE UplNamed'
    BY <1>1, <1>4, UplWrites DEF Carrying, Kin
<1>5. CASE RivalWrites \/ UploadWindowEnds \/ UNCHANGED uplVars
    BY <1>5 DEF UplNamed, RivalWrites, UploadWindowEnds, uplVars
<1>6. QED
    BY <1>2, <1>3, <1>4, <1>5 DEF UploadNext

LEMMA UplAloneStep ==
    ASSUME UplData, UplRoom, UplStart, UplNamed, UplAlone, (\A a \in clean : UplOwn(a)),
           [UploadNext]_uplVars
    PROVE  UplAlone'
<1>1. ASSUME NEW a \in Attempts, NEW r \in Standing, Quiet(a, r) PROVE UplAlone'
    <2>1. ASSUME NEW i \in Inodes \ mixed' PROVE i \in Inodes \ mixed /\ data'[i] = data[i]
        BY <1>1 DEF Quiet
    <2>2. /\ upl'[a] = r /\ Written(a)' = r.from + r.sent
          /\ \A b \in Attempts \ {a} : upl'[b] = upl[b] /\ Written(b)' = Written(b)
        BY <1>1, UplTurns DEF Quiet
    <2>3. ASSUME NEW i \in Inodes \ mixed', NEW b \in Streaming(i)'
          PROVE  b \in Streaming(i) /\ Written(b)' = Written(b)
        <3>1. i # 0 /\ b \in Attempts /\ upl'[b].fd = i
            BY <2>3, UplConsts DEF Streaming
        <3>2. CASE b = a
            BY <1>1, <2>2, <3>1, <3>2 DEF Quiet, Kin, Streaming, Written
        <3>3. CASE b # a
            BY <2>2, <3>1, <3>3 DEF Streaming
        <3>4. QED
            BY <3>2, <3>3
    <2>4. ASSUME NEW i \in Inodes \ mixed', NEW t \in Tokens, partial'[t] = i PROVE partial[t] = i
        BY <1>1, <2>4, UplConsts DEF Quiet
    <2>5. QED
        BY <2>1, <2>3, <2>4 DEF UplAlone
<1>2. ASSUME NEW a \in Attempts, NEW i \in Inodes, NEW r \in Standing, Opening(a, r, i) PROVE UplAlone'
    <2>1. /\ upl'[a] = r /\ Written(a)' = upl[a].from + upl[a].sent /\ r.fd = i
          /\ \A b \in Attempts \ {a} : upl'[b] = upl[b] /\ Written(b)' = Written(b)
        BY <1>2, UplTurns DEF Opening, Kin
    <2>2. upl[a].sent = 0 /\ upl[a].from \in Nat
        BY <1>2, UplFields, UplConsts DEF Opening, UplStart, Before
    <2>3. ASSUME NEW j \in Inodes \ mixed', j # i
          PROVE  /\ \A b \in Streaming(j)' : data'[j] = Seg(Written(b)')
                 /\ \A b, c \in Streaming(j)' : b = c
                 /\ \A t \in Tokens : partial'[t] = j => data'[j] = Seg(Len(data'[j]))
        <3>1. j \in Inodes \ mixed /\ data'[j] = data[j]
            BY <1>2, <2>3 DEF Opening
        <3>2. \A b \in Streaming(j)' : b \in Streaming(j) /\ Written(b)' = Written(b)
            BY <2>1, <2>3 DEF Streaming
        <3>3. \A t \in Tokens : partial'[t] = j => partial[t] = j
            BY <1>2, <2>3 DEF Opening
        <3>4. QED
            BY <3>1, <3>2, <3>3 DEF UplAlone
    <2>4. ASSUME i \notin mixed'
          PROVE  /\ \A b \in Streaming(i)' : data'[i] = Seg(Written(b)')
                 /\ \A b, c \in Streaming(i)' : b = c
                 /\ data'[i] = Seg(Len(data'[i]))
        <3>1. Streaming(i) = {} /\ (upl[a].from > 0 => i \notin mixed /\ a \in clean)
            BY <1>2, <2>4 DEF Opening
        <3>2. \A b \in Streaming(i)' : b = a
            BY <2>1, <3>1 DEF Streaming
        <3>3. data'[i] = Seg(upl[a].from)
            <4>1. CASE upl[a].from > 0
                <5>1. Mine(a) # 0 /\ Len(data[Mine(a)]) = upl[a].from
                    BY <1>2, <3>1, <4>1 DEF UplOwn, Opening, Mine
                <5>2. Mine(a) = i /\ upl[a].token \in Tokens
                    BY <1>2, <5>1, UplFields DEF Opening
                <5>3. data[i] = Seg(Len(data[i]))
                    BY <3>1, <4>1, <5>2 DEF UplAlone, Mine
                <5>4. QED
                    BY <1>2, <4>1, <5>1, <5>2, <5>3 DEF Opening
            <4>2. CASE ~(upl[a].from > 0)
                BY <1>2, <2>2, <4>2, SegNone DEF Opening
            <4>3. QED
                BY <4>1, <4>2
        <3>4. Written(a)' = upl[a].from
            BY <2>1, <2>2
        <3>5. QED
            BY <2>2, <3>2, <3>3, <3>4, SegSeq
    <2>5. QED
        BY <2>3, <2>4 DEF UplAlone
<1>3. ASSUME NEW a \in Attempts, NEW r \in Standing, Carrying(a, r) PROVE UplAlone'
    <2> DEFINE i == upl[a].fd
    <2>1. /\ upl'[a] = r /\ Written(a)' = Written(a) + 1 /\ r.fd = i /\ i \in Inodes
          /\ \A b \in Attempts \ {a} : upl'[b] = upl[b] /\ Written(b)' = Written(b)
        BY <1>3, UplTurns DEF Carrying
    <2>2. (\A j \in Inodes : Streaming(j)' = Streaming(j)) /\ a \in Streaming(i) /\ partial' = partial /\ mixed' = mixed
        BY <1>3, <2>1 DEF Streaming, Carrying
    <2>3. ASSUME i \notin mixed
          PROVE  data'[i] = Seg(Written(a)') /\ data'[i] = Seg(Len(data'[i])) /\ \A b \in Streaming(i) : b = a
        <3>1. data[i] = Seg(Written(a)) /\ \A b \in Streaming(i) : b = a
            BY <2>1, <2>2, <2>3 DEF UplAlone
        <3>2. data'[i] = Seg(Written(a) + 1)
            BY <1>3, <3>1 DEF Carrying
        <3>3. Written(a) + 1 \in Nat
            BY <1>3 DEF Carrying
        <3>4. Len(Seg(Written(a) + 1)) = Written(a) + 1
            BY <3>3, SegSeq
        <3>5. QED
            BY <2>1, <3>1, <3>2, <3>4
    <2>4. \A j \in Inodes \ {i} : data'[j] = data[j] /\ \A b \in Streaming(j) : b # a
        BY <1>3 DEF Carrying, Streaming
    <2> HIDE DEF i
    <2>5. ASSUME NEW j \in Inodes \ mixed
          PROVE  /\ \A b \in Streaming(j) : data'[j] = Seg(Written(b)')
                 /\ \A b, c \in Streaming(j) : b = c
                 /\ \A t \in Tokens : partial[t] = j => data'[j] = Seg(Len(data'[j]))
        <3>1. CASE j = i
            BY <2>3, <2>5, <3>1
        <3>2. CASE j # i
            <4>1. \A b \in Streaming(j) : Written(b)' = Written(b)
                BY <2>1, <2>4, <3>2 DEF Streaming
            <4>2. QED
                BY <2>4, <2>5, <3>2, <4>1 DEF UplAlone
        <3>3. QED
            BY <3>1, <3>2
    <2>6. QED
        BY <2>2, <2>5 DEF UplAlone
<1>4. CASE RivalWrites
    <2>1. NewInode \in Inodes /\ NewInode \notin Used
        BY <1>4, UplFresh DEF RivalWrites
    <2>2. /\ UNCHANGED <<partial, upl, mixed>>
          /\ \A j \in Inodes \ {NewInode} : data'[j] = data[j]
        BY <1>4 DEF RivalWrites, UplData
    <2>3. Streaming(NewInode) = {} /\ \A t \in Tokens : partial[t] # NewInode
        BY <2>1 DEF Streaming, Used
    <2>4. (\A j \in Inodes : Streaming(j)' = Streaming(j)) /\ \A b \in Attempts : Written(b)' = Written(b)
        BY <2>2 DEF Streaming, Written
    <2>5. QED
        BY <2>2, <2>3, <2>4 DEF UplAlone, Streaming
<1>5. CASE UploadWindowEnds \/ UNCHANGED uplVars
    BY <1>5 DEF UplAlone, UploadWindowEnds, uplVars, Streaming, Written
<1>6. QED
    BY <1>1, <1>2, <1>3, <1>4, <1>5, UplQuiet, UplOpens, UplWrites DEF UploadNext

\* An attempt that is still clean and did not move is as it was, when what it
\* is on and what it goes by did not.
LEMMA UplOwnKept ==
    ASSUME UplData, NEW b \in Attempts, UplOwn(b), upl'[b] = upl[b], Written(b)' = Written(b),
           upl[b].pc \in Writing \cup {"open"} => partial'[upl[b].token] = partial[upl[b].token],
           upl[b].pc \in Writing => data'[upl[b].fd] = data[upl[b].fd],
           upl[b].pc = "open" /\ partial[upl[b].token] # 0 =>
               data'[partial[upl[b].token]] = data[partial[upl[b].token]],
           upl[b].pc = "rename" => place'[upl[b].final] = place[upl[b].final]
    PROVE  UplOwn(b)'
BY DEF UplOwn, Writing

LEMMA UplOwnStep ==
    ASSUME UplData, UplRoom, UplStart, UplNamed, UplAlone, \A a \in clean : UplOwn(a),
           [UploadNext]_uplVars
    PROVE  \A a \in clean' : UplOwn(a)'
<1>0. clean \subseteq Attempts /\ \A b \in Attempts : Written(b) \in 0..Size
    BY DEF UplData
<1>1. ASSUME NEW a \in Attempts, NEW r \in Standing, UplTurn(a, r),
             UNCHANGED <<place, partial, data>>, clean' \subseteq clean \cup {a},
             a \in clean' => UplOwn(a)'
      PROVE  \A b \in clean' : UplOwn(b)'
    <2>1. ASSUME NEW b \in clean', b # a PROVE UplOwn(b)'
        <3>1. b \in clean /\ b \in Attempts /\ upl'[b] = upl[b] /\ Written(b)' = Written(b)
            BY <1>0, <1>1, <2>1, UplTurns
        <3>2. UplOwn(b)
            BY <3>1
        <3>3. QED
            BY <1>1, <3>1, <3>2, UplOwnKept
    <2>2. QED
        BY <1>1, <2>1
<1>2. ASSUME NEW a \in Attempts, UploadAsk(a) PROVE \A b \in clean' : UplOwn(b)'
    <2>1. PICK r \in Standing : UplTurn(a, r) /\ r.pc = "asked"
        BY <1>2, UplAskTurn
    <2>2. UNCHANGED <<place, partial, data>> /\ clean' = clean \cup {a}
        BY <1>2 DEF UploadAsk
    <2>3. UplOwn(a)'
        BY <2>1, UplTurns DEF UplOwn, Writing
    <2>4. QED
        BY <1>1, <2>1, <2>2, <2>3
<1>3. ASSUME NEW a \in Attempts, UploadCheck(a) PROVE \A b \in clean' : UplOwn(b)'
    <2>1. PICK r \in Standing : UplTurn(a, r) /\ (r.pc = "over" \/ (r.pc = "open" /\ Kin(r, a) /\ Length(upl[a].token) = upl[a].from))
        BY <1>3, UplCheckTurn
    <2>2. UNCHANGED <<place, partial, data, clean>>
        BY <1>3 DEF UploadCheck
    <2>3. upl'[a] = r
        BY <2>1, UplTurns
    <2>4. UplOwn(a)'
        BY <2>1, <2>2, <2>3, UplConsts DEF UplOwn, Writing, Kin, Length
    <2>5. QED
        BY <1>1, <2>1, <2>2, <2>4
<1>4. ASSUME NEW a \in Attempts, UploadBreaks(a) PROVE \A b \in clean' : UplOwn(b)'
    <2>1. PICK r \in Standing : UplTurn(a, r) /\ r.pc \in {"over", "discard"}
        BY <1>4, UplCatchTurn DEF UploadBreaks
    <2>2. UNCHANGED <<place, partial, data, clean>>
        BY <1>4 DEF UploadBreaks
    <2>3. UplOwn(a)'
        BY <2>1, UplTurns DEF UplOwn, Writing
    <2>4. QED
        BY <1>1, <2>1, <2>2, <2>3
<1>5. ASSUME NEW a \in Attempts, UploadEnds(a) PROVE \A b \in clean' : UplOwn(b)'
    <2>1. PICK r \in Standing : UplTurn(a, r)
              /\ (r.pc \in {"over", "discard"} \/ (r.pc = "settle" /\ Kin(r, a) /\ r.fd = upl[a].fd /\ r.sent = upl[a].sent))
        BY <1>5, UplEndsTurn
    <2>2. UNCHANGED <<place, partial, data, clean>> /\ upl[a].pc = "write" /\ Written(a) = Size
        BY <1>5 DEF UploadEnds
    <2>3. upl'[a] = r /\ Written(a)' = r.from + r.sent
        BY <2>1, UplTurns
    <2>4. ASSUME a \in clean PROVE UplOwn(a)'
        <3>1. UplOwn(a)
            BY <2>4
        <3>2. QED
            BY <2>1, <2>2, <2>3, <3>1 DEF UplOwn, Writing, Kin, Written
    <2>5. QED
        BY <1>1, <2>1, <2>2, <2>4
<1>6. ASSUME NEW a \in Attempts, UploadSettle(a) PROVE \A b \in clean' : UplOwn(b)'
    <2>1. PICK r \in Standing : UplTurn(a, r) /\ Kin(r, a)
              /\ (r.pc = "discard" \/ (/\ r.pc = "rename" /\ r.fd = upl[a].fd /\ r.sent = upl[a].sent
                                       /\ place[r.final] = 0 \/ upl[a].pol = "overwrite"))
        BY <1>6, UplSettleTurn
    <2>2. UNCHANGED <<place, partial, data, clean>> /\ upl[a].pc = "settle"
        BY <1>6 DEF UploadSettle
    <2>3. upl'[a] = r /\ Written(a)' = r.from + r.sent
        BY <2>1, UplTurns
    <2>4. ASSUME a \in clean PROVE UplOwn(a)'
        <3>1. UplOwn(a)
            BY <2>4
        <3>2. QED
            BY <2>1, <2>2, <2>3, <3>1 DEF UplOwn, Writing, Kin, Written
    <2>5. QED
        BY <1>1, <2>1, <2>2, <2>4
<1>7. ASSUME NEW a \in Attempts, UploadBegin(a) PROVE \A b \in clean' : UplOwn(b)'
    <2>1. PICK r \in Standing : UplTurn(a, r) /\ (r.pc = "over" \/ (r.pc = (IF upl[a].from > 0 THEN "check" ELSE "open") /\ Kin(r, a)))
        BY <1>7, UplBeginTurn
    <2>2. PICK swept \in SUBSET Tokens :
              /\ partial' = [t \in Tokens |-> IF t \in swept THEN 0 ELSE partial[t]]
              /\ clean' = clean \ {b \in Attempts \ {a} : upl[b].token \in swept /\ upl[b].pc \notin {"idle", "asked", "over"}}
        <3>1. Aged \subseteq Tokens
            BY DEF Aged
        <3>2. QED
            BY <1>7, <3>1 DEF UploadBegin
    <2>3. UNCHANGED <<place, data>>
        BY <1>7 DEF UploadBegin
    <2>4. upl'[a] = r /\ \A b \in Attempts \ {a} : upl'[b] = upl[b] /\ Written(b)' = Written(b)
        BY <2>1, UplTurns
    <2>5. UplOwn(a)'
        BY <2>1, <2>4 DEF UplOwn, Writing, Kin
    <2>6. ASSUME NEW b \in clean', b # a PROVE UplOwn(b)'
        <3>1. b \in clean /\ b \in Attempts /\ upl'[b] = upl[b] /\ Written(b)' = Written(b) /\ upl[b].token \in Tokens
            BY <1>0, <2>2, <2>4, <2>6, UplFields
        <3>2. UplOwn(b)
            BY <3>1
        <3>3. upl[b].pc \in Writing \cup {"open"} => partial'[upl[b].token] = partial[upl[b].token]
            BY <2>2, <2>6, <3>1 DEF Writing
        <3>4. QED
            BY <2>3, <3>1, <3>2, <3>3, UplOwnKept
    <2>7. QED
        BY <2>5, <2>6
<1>8. ASSUME NEW a \in Attempts, UploadOpen(a) PROVE \A b \in clean' : UplOwn(b)'
    <2>1. ASSUME NEW r \in Standing, Quiet(a, r), r.pc = "over", UNCHANGED <<place, partial, clean>>
          PROVE  \A b \in clean' : UplOwn(b)'
        <3>1. UplOwn(a)'
            BY <2>1, UplTurns DEF UplOwn, Writing, Quiet
        <3>2. QED
            BY <1>1, <2>1, <3>1 DEF Quiet
    <2>2. ASSUME NEW i \in Inodes, NEW r \in Standing, Opening(a, r, i) PROVE \A b \in clean' : UplOwn(b)'
        <3> DEFINE t == upl[a].token
        <3>1. /\ upl'[a] = r /\ Written(a)' = r.from + r.sent /\ r.fd = i /\ r.token = t /\ r.pc = "write"
              /\ r.from = upl[a].from /\ r.sent = upl[a].sent
              /\ t \in Tokens /\ i # 0 /\ place' = place /\ partial'[t] = i
              /\ \A b \in Attempts \ {a} : upl'[b] = upl[b] /\ Written(b)' = Written(b)
            BY <2>2, UplTurns, UplFields DEF Opening, Kin
        <3>2. ASSUME a \in clean' PROVE UplOwn(a)'
            <4>1. upl[a].sent = 0 /\ upl[a].from \in Nat
                BY <2>2, UplFields, UplConsts DEF Opening, UplStart, Before
            <4>2. data'[i] = Seg(upl[a].from)
                <5>1. CASE upl[a].from > 0
                    <6>1. UplOwn(a) /\ i \notin mixed
                        BY <2>2, <3>2, <5>1 DEF Opening
                    <6>2. Mine(a) # 0 /\ Len(data[Mine(a)]) = upl[a].from
                        BY <2>2, <5>1, <6>1 DEF UplOwn, Opening, Mine
                    <6>3. Mine(a) = i
                        BY <2>2, <6>2 DEF Opening
                    <6>4. data[i] = Seg(Len(data[i]))
                        BY <3>1, <6>1, <6>3 DEF UplAlone, Mine
                    <6>5. QED
                        BY <2>2, <5>1, <6>2, <6>3, <6>4 DEF Opening
                <5>2. CASE ~(upl[a].from > 0)
                    BY <2>2, <4>1, <5>2, SegNone DEF Opening
                <5>3. QED
                    BY <5>1, <5>2
            <4>3. Written(a)' = upl[a].from
                BY <3>1, <4>1
            <4>4. QED
                BY <3>1, <4>2, <4>3 DEF UplOwn
        <3>3. ASSUME NEW b \in clean', b # a PROVE UplOwn(b)'
            <4>1. b \in clean /\ b \in Attempts /\ upl'[b] = upl[b] /\ Written(b)' = Written(b) /\ upl[b].token \in Tokens
                BY <1>0, <2>2, <3>1, <3>3, UplFields DEF Opening
            <4>2. UplOwn(b)
                BY <4>1
            <4>3. upl[b].pc \in Writing \cup {"open"} => upl[b].token # t
                BY <2>2, <3>3, <4>1 DEF Opening, Spoilt, Writing
            <4>4. ASSUME upl[b].pc \in Writing \cup {"open"}
                  PROVE  partial'[upl[b].token] = partial[upl[b].token] /\ partial[upl[b].token] # i /\ upl[b].fd # i
                <5>1. partial'[upl[b].token] = partial[upl[b].token]
                    BY <2>2, <4>1, <4>3, <4>4 DEF Opening
                <5>2. CASE i = Mine(a)
                    BY <3>1, <4>1, <4>3, <4>4, <5>1, <5>2 DEF UplNamed, Mine
                <5>3. CASE i \notin Used
                    BY <4>1, <5>1, <5>3 DEF Used
                <5>4. QED
                    BY <2>2, <5>1, <5>2, <5>3 DEF Opening
            <4>5. upl[b].pc \in Writing => data'[upl[b].fd] = data[upl[b].fd]
                BY <2>2, <4>1, <4>4, UplFields DEF Opening
            <4>6. upl[b].pc = "open" /\ partial[upl[b].token] # 0 =>
                      data'[partial[upl[b].token]] = data[partial[upl[b].token]]
                BY <2>2, <4>1, <4>4, UplFields DEF Opening, Mine
            <4>7. QED
                BY <3>1, <4>1, <4>2, <4>4, <4>5, <4>6, UplOwnKept
        <3>4. QED
            BY <3>2, <3>3
    <2>3. QED
        BY <1>8, <2>1, <2>2, UplOpens
<1>9. ASSUME NEW a \in Attempts, UploadWrite(a) PROVE \A b \in clean' : UplOwn(b)'
    <2>1. PICK r \in Standing : Carrying(a, r)
        BY <1>9, UplWrites
    <2>2. clean' = clean \ {c \in Attempts \ {a} : upl[c].fd = upl[a].fd
                  \/ (upl[c].pc \in {"open", "check"} /\ partial[upl[c].token] = upl[a].fd)}
        BY <1>9 DEF UploadWrite
    <2>3. /\ upl'[a] = r /\ Written(a)' = Written(a) + 1 /\ r.fd = upl[a].fd /\ r.token = upl[a].token
          /\ \A b \in Attempts \ {a} : upl'[b] = upl[b] /\ Written(b)' = Written(b)
        BY <2>1, UplTurns DEF Carrying, Kin
    <2>4. ASSUME a \in clean PROVE UplOwn(a)'
        <3>1. UplOwn(a)
            BY <2>4
        <3>2. partial[upl[a].token] = upl[a].fd /\ data[upl[a].fd] = Seg(Written(a))
            BY <2>1, <3>1 DEF UplOwn, Carrying, Writing
        <3>3. partial' = partial /\ data'[upl[a].fd] = Seg(Written(a) + 1) /\ r.pc = "write"
            BY <2>1, <3>2 DEF Carrying
        <3>4. QED
            BY <2>3, <3>2, <3>3 DEF UplOwn
    <2>5. ASSUME NEW b \in clean', b # a PROVE UplOwn(b)'
        <3>1. b \in clean /\ b \in Attempts /\ upl'[b] = upl[b] /\ Written(b)' = Written(b)
            BY <1>0, <2>2, <2>3, <2>5
        <3>2. UplOwn(b)
            BY <3>1
        <3>3. upl[b].fd # upl[a].fd /\ (upl[b].pc = "open" => partial[upl[b].token] # upl[a].fd)
            BY <2>2, <2>5, <3>1
        <3>4. upl[b].pc \in Writing => data'[upl[b].fd] = data[upl[b].fd]
            BY <2>1, <3>1, <3>3, UplFields DEF Carrying
        <3>5. upl[b].pc = "open" /\ partial[upl[b].token] # 0 =>
                  data'[partial[upl[b].token]] = data[partial[upl[b].token]]
            BY <2>1, <3>1, <3>3, UplFields DEF Carrying, Mine
        <3>6. place' = place /\ partial' = partial
            BY <2>1 DEF Carrying
        <3>7. QED
            BY <3>1, <3>2, <3>4, <3>5, <3>6, UplOwnKept
    <2>6. QED
        BY <2>2, <2>4, <2>5
<1>10. ASSUME NEW a \in Attempts, UploadRename(a) PROVE \A b \in clean' : UplOwn(b)'
    <2>1. PICK r \in Standing : UplTurn(a, r) /\ r.pc \in {"over", "discard"}
              /\ \/ UNCHANGED <<place, partial, clean>>
                 \/ /\ place' = [place EXCEPT ![upl[a].final] = Mine(a)]
                    /\ partial' = [partial EXCEPT ![upl[a].token] = 0]
                    /\ clean' = clean \ Spoilt(upl[a].token, upl[a].final, a)
        BY <1>10, UplRenameTurn
    <2>2. data' = data /\ upl[a].final # 0 /\ upl[a].token \in Tokens
        BY <1>10, UplFields DEF UploadRename
    <2>3. UplOwn(a)'
        BY <2>1, UplTurns DEF UplOwn, Writing
    <2>4. CASE UNCHANGED <<place, partial, clean>>
        BY <1>1, <2>1, <2>2, <2>3, <2>4
    <2>5. ASSUME place' = [place EXCEPT ![upl[a].final] = Mine(a)], partial' = [partial EXCEPT ![upl[a].token] = 0],
                 clean' = clean \ Spoilt(upl[a].token, upl[a].final, a), NEW b \in clean', b # a
          PROVE  UplOwn(b)'
        <3>1. b \in clean /\ b \in Attempts /\ upl'[b] = upl[b] /\ Written(b)' = Written(b) /\ upl[b].token \in Tokens
            BY <1>0, <2>1, <2>5, UplTurns, UplFields
        <3>2. UplOwn(b)
            BY <3>1
        <3>3. upl[b].pc \in Writing \cup {"open"} => upl[b].token # upl[a].token
            BY <2>5, <3>1 DEF Spoilt, Writing
        <3>4. upl[b].pc = "rename" => upl[b].final # upl[a].final
            BY <2>2, <2>5, <3>1 DEF Spoilt
        <3>5. upl[b].pc \in Writing \cup {"open"} => partial'[upl[b].token] = partial[upl[b].token]
            BY <2>5, <3>1, <3>3 DEF UplData
        <3>6. upl[b].pc = "rename" => place'[upl[b].final] = place[upl[b].final]
            BY <2>5, <3>4 DEF UplData
        <3>7. QED
            BY <2>2, <3>1, <3>2, <3>5, <3>6, UplOwnKept
    <2>6. QED
        BY <2>1, <2>3, <2>4, <2>5
<1>11. ASSUME NEW a \in Attempts, UploadDiscard(a) PROVE \A b \in clean' : UplOwn(b)'
    <2>1. PICK r \in Standing : UplTurn(a, r) /\ r.pc = "over"
        BY <1>11, UplEndTurn, UplFields DEF UploadDiscard
    <2>2. UNCHANGED <<place, data>>
        BY <1>11 DEF UploadDiscard
    <2>3. UplOwn(a)'
        BY <2>1, UplTurns DEF UplOwn, Writing
    <2>4. CASE UNCHANGED <<partial, clean>>
        BY <1>1, <2>1, <2>2, <2>3, <2>4
    <2>5. ASSUME partial' = [partial EXCEPT ![upl[a].token] = 0],
                 clean' = clean \ Spoilt(upl[a].token, 0, a), NEW b \in clean', b # a
          PROVE  UplOwn(b)'
        <3>1. b \in clean /\ b \in Attempts /\ upl'[b] = upl[b] /\ Written(b)' = Written(b) /\ upl[b].token \in Tokens
            BY <1>0, <2>1, <2>5, UplTurns, UplFields
        <3>2. UplOwn(b)
            BY <3>1
        <3>3. upl[b].pc \in Writing \cup {"open"} => upl[b].token # upl[a].token
            BY <2>5, <3>1 DEF Spoilt, Writing
        <3>4. upl[b].pc \in Writing \cup {"open"} => partial'[upl[b].token] = partial[upl[b].token]
            BY <2>5, <3>1, <3>3 DEF UplData
        <3>5. QED
            BY <2>2, <3>1, <3>2, <3>4, UplOwnKept
    <2>6. QED
        BY <1>11, <2>3, <2>4, <2>5 DEF UploadDiscard
<1>12. CASE RivalWrites
    <2>1. NewInode \in Inodes /\ NewInode \notin Used
        BY <1>12, UplFresh DEF RivalWrites
    <2>2. PICK c \in 1..Copies :
              /\ place' = [place EXCEPT ![c] = NewInode]
              /\ data' = [data EXCEPT ![NewInode] = <<0>>]
              /\ clean' = clean \ {a \in Attempts : upl[a].pc = "rename" /\ upl[a].final = c}
              /\ UNCHANGED <<partial, upl>>
        BY <1>12 DEF RivalWrites
    <2>3. ASSUME NEW b \in clean' PROVE UplOwn(b)'
        <3>1. b \in clean /\ b \in Attempts /\ upl'[b] = upl[b] /\ Written(b)' = Written(b) /\ upl[b].token \in Tokens
            BY <1>0, <2>2, <2>3, UplFields DEF Written
        <3>2. UplOwn(b)
            BY <3>1
        <3>3. upl[b].fd # NewInode /\ partial[upl[b].token] # NewInode
            BY <2>1, <3>1 DEF Used
        <3>4. data'[upl[b].fd] = data[upl[b].fd] /\ data'[partial[upl[b].token]] = data[partial[upl[b].token]]
            BY <2>2, <3>3 DEF UplData
        <3>5. upl[b].pc = "rename" => place'[upl[b].final] = place[upl[b].final]
            BY <2>2, <2>3, <3>1 DEF UplData
        <3>6. QED
            BY <2>2, <3>1, <3>2, <3>4, <3>5, UplOwnKept
    <2>4. QED
        BY <2>3
<1>13. CASE UploadWindowEnds \/ UNCHANGED uplVars
    BY <1>13 DEF UplOwn, UploadWindowEnds, uplVars, Written
<1>14. QED
    BY <1>2, <1>3, <1>4, <1>5, <1>6, <1>7, <1>8, <1>9, <1>10, <1>11, <1>12, <1>13 DEF UploadNext

LEMMA UplWholeStep ==
    ASSUME UplData, UplRoom, UplStart, \A a \in clean : UplOwn(a), UploadedIsWhole, [UploadNext]_uplVars
    PROVE  UploadedIsWhole'
<1>0. clean \subseteq Attempts
    BY DEF UplData
<1>1. ASSUME NEW a \in Attempts, NEW r \in Standing, UplTurn(a, r), clean' \subseteq clean \cup {a},
             r.pc = "over" /\ r.code = "done" /\ a \in clean' =>
                 r.got = Seg(Size) /\ (r.pol # "overwrite" => r.hit = 0)
      PROVE  UploadedIsWhole'
    <2>1. upl'[a] = r /\ \A b \in Attempts \ {a} : upl'[b] = upl[b]
        BY <1>1, UplTurns
    <2>2. ASSUME NEW b \in clean', Done(b)'
          PROVE  upl'[b].got = Seg(Size) /\ (upl'[b].pol # "overwrite" => upl'[b].hit = 0)
        <3>1. CASE b = a
            BY <1>1, <2>1, <2>2, <3>1 DEF Done
        <3>2. CASE b # a
            <4>1. b \in clean /\ Done(b) /\ upl'[b] = upl[b]
                BY <1>0, <1>1, <2>1, <2>2, <3>2 DEF Done
            <4>2. QED
                BY <4>1 DEF UploadedIsWhole, Seg
        <3>3. QED
            BY <3>1, <3>2
    <2>3. QED
        BY <2>2 DEF UploadedIsWhole, Seg
<1>2. ASSUME NEW a \in Attempts, UploadAsk(a) PROVE UploadedIsWhole'
    BY <1>1, <1>2, UplAskTurn DEF UploadAsk
<1>3. ASSUME NEW a \in Attempts, UploadCheck(a) \/ UploadBreaks(a) \/ UploadEnds(a) \/ UploadSettle(a) \/ UploadBegin(a)
      PROVE  UploadedIsWhole'
    <2>1. clean' \subseteq clean
        BY <1>3 DEF UploadCheck, UploadBreaks, UploadEnds, UploadSettle, UploadBegin
    <2>2. PICK r \in Standing : UplTurn(a, r) /\ (r.pc # "over" \/ r.code # "done")
        <3>1. CASE UploadCheck(a) \/ UploadEnds(a) \/ UploadSettle(a)
            BY <3>1, UplCheckTurn, UplEndsTurn, UplSettleTurn
        <3>2. CASE UploadBegin(a)
            BY <3>2, UplBeginTurn
        <3>3. CASE UploadBreaks(a)
            BY <3>3, UplCatchTurn DEF UploadBreaks
        <3>4. QED
            BY <1>3, <3>1, <3>2, <3>3
    <2>3. QED
        BY <1>1, <2>1, <2>2
<1>4. ASSUME NEW a \in Attempts, UploadOpen(a) PROVE UploadedIsWhole'
    BY <1>1, <1>4, UplOpens DEF Quiet, Opening
<1>5. ASSUME NEW a \in Attempts, UploadWrite(a) PROVE UploadedIsWhole'
    <2>1. clean' \subseteq clean
        BY <1>5 DEF UploadWrite
    <2>2. QED
        BY <1>1, <1>5, <2>1, UplWriteTurn
<1>6. ASSUME NEW a \in Attempts, UploadRename(a) PROVE UploadedIsWhole'
    <2>1. PICK r \in Standing : UplTurn(a, r)
              /\ \/ r.code = "host" /\ UNCHANGED clean
                 \/ /\ r.pol = upl[a].pol /\ r.got = data[Mine(a)] /\ r.hit = place[upl[a].final]
                    /\ clean' \subseteq clean
        BY <1>6, UplRenameTurn
    <2>2. CASE r.code = "host" /\ UNCHANGED clean
        BY <1>1, <2>1, <2>2
    <2>3. ASSUME r.pol = upl[a].pol, r.got = data[Mine(a)], r.hit = place[upl[a].final], clean' \subseteq clean,
                 a \in clean'
          PROVE  r.got = Seg(Size) /\ (r.pol # "overwrite" => r.hit = 0)
        <3>1. UplOwn(a) /\ upl[a].pc = "rename"
            BY <1>6, <2>3 DEF UploadRename
        <3>2. Mine(a) = upl[a].fd /\ data[upl[a].fd] = Seg(Written(a)) /\ Written(a) = Size
              /\ (place[upl[a].final] = 0 \/ upl[a].pol = "overwrite")
            BY <3>1 DEF UplOwn, Writing, Mine
        <3>3. QED
            BY <2>3, <3>2
    <2>4. QED
        BY <1>1, <2>1, <2>2, <2>3
<1>7. ASSUME NEW a \in Attempts, UploadDiscard(a) PROVE UploadedIsWhole'
    <2>1. clean' \subseteq clean /\ upl[a].pc = "discard" /\ End(a, upl[a].code)
        BY <1>7 DEF UploadDiscard
    <2>2. PICK r \in Standing : UplTurn(a, r) /\ r.code = upl[a].code
        BY <2>1, UplEndTurn, UplFields
    <2>3. r.code # "done"
        BY <2>1, <2>2 DEF UplStart
    <2>4. QED
        BY <1>1, <2>1, <2>2, <2>3
<1>8. CASE RivalWrites \/ UploadWindowEnds \/ UNCHANGED uplVars
    <2>1. clean' \subseteq clean /\ upl' = upl
        BY <1>8 DEF RivalWrites, UploadWindowEnds, uplVars
    <2>2. QED
        BY <2>1 DEF UploadedIsWhole, Done
<1>9. QED
    BY <1>2, <1>3, <1>4, <1>5, <1>6, <1>7, <1>8 DEF UploadNext

LEMMA UplLeftStep ==
    ASSUME UplData, UplRoom, UplLeft, [UploadNext]_uplVars
    PROVE  UplLeft'
<1>1. ASSUME NEW a \in Attempts, NEW r \in Standing, UplTurn(a, r), rootDir' = rootDir,
             \A b \in Attempts \ {a} : partial'[b] \in {0, partial[b]} /\ (b \in litter => b \in litter'),
             ~rootDir /\ partial'[a] # 0 => a \in litter' \/ (r.token = a /\ r.pc \in Writing \cup {"discard"})
      PROVE  UplLeft'
    BY <1>1, UplTurns DEF UplLeft, Holding
<1>2. ASSUME NEW a \in Attempts, NEW r \in Standing, Quiet(a, r),
             \/ upl[a].pc \notin Writing \cup {"discard"}
             \/ Kin(r, a) /\ r.pc \in Writing \cup {"discard"}
             \/ upl[a].token = "resume"
             \/ ~rootDir => partial'[a] = 0 \/ a \in litter'
      PROVE  UplLeft'
    <2>1. ~rootDir /\ partial'[a] # 0 => a \in litter' \/ (r.token = a /\ r.pc \in Writing \cup {"discard"})
        <3>1. a \in Tokens /\ a # "resume"
            BY UplConsts
        <3>2. ~rootDir /\ partial'[a] # 0 => a \in litter' \/ (upl[a].token = a /\ Holding(a))
            BY <1>2, <3>1 DEF UplLeft, Quiet
        <3>3. QED
            BY <1>2, <3>1, <3>2 DEF Holding, Kin
    <2>2. \A b \in Attempts \ {a} : partial'[b] \in {0, partial[b]} /\ (b \in litter => b \in litter')
        BY <1>2, UplConsts DEF Quiet
    <2>3. QED
        BY <1>1, <1>2, <2>1, <2>2 DEF Quiet
<1>3. ASSUME NEW a \in Attempts,
             \/ UploadAsk(a) \/ UploadBegin(a) \/ UploadCheck(a) \/ UploadBreaks(a) \/ UploadEnds(a)
             \/ UploadSettle(a) \/ UploadRename(a) \/ UploadDiscard(a)
      PROVE  UplLeft'
    <2>1. UNCHANGED <<data, mixed, rootDir>> /\ litter \subseteq litter' /\ \A t \in Tokens : partial'[t] \in {0, partial[t]}
        BY <1>3, UplQuiet DEF Quiet
    <2>2. CASE UploadAsk(a)
        <3>1. upl[a].pc \notin Writing \cup {"discard"}
            BY <2>2 DEF UploadAsk, Writing
        <3>2. QED
            BY <1>2, <2>1, <2>2, <3>1, UplAskTurn DEF Quiet
    <2>3. CASE UploadBegin(a)
        <3>1. upl[a].pc \notin Writing \cup {"discard"}
            BY <2>3 DEF UploadBegin, Writing
        <3>2. QED
            BY <1>2, <2>1, <2>3, <3>1, UplBeginTurn DEF Quiet
    <2>4. CASE UploadCheck(a)
        <3>1. upl[a].pc \notin Writing \cup {"discard"}
            BY <2>4 DEF UploadCheck, Writing
        <3>2. QED
            BY <1>2, <2>1, <2>4, <3>1, UplCheckTurn DEF Quiet
    <2>5. CASE UploadBreaks(a)
        <3>1. PICK r \in Standing : UplTurn(a, r) /\ r.fd = 0 /\ (upl[a].token = "resume" \/ (r.pc = "discard" /\ Kin(r, a)))
            BY <2>5, UplCatchTurn DEF UploadBreaks, Kept, Findable
        <3>2. Quiet(a, r)
            BY <2>1, <3>1 DEF Quiet
        <3>3. QED
            BY <1>2, <3>1, <3>2
    <2>6. CASE UploadEnds(a)
        <3>1. PICK r \in Standing : /\ UplTurn(a, r) /\ (r.fd = 0 \/ (r.fd = upl[a].fd /\ Kin(r, a) /\ r.sent = upl[a].sent))
                                    /\ (upl[a].token = "resume" \/ (r.pc \in {"settle", "discard"} /\ Kin(r, a)))
            BY <2>6, UplEndsTurn DEF Kept, Findable
        <3>2. Quiet(a, r)
            BY <2>1, <3>1 DEF Quiet
        <3>3. QED
            BY <1>2, <3>1, <3>2 DEF Writing
    <2>7. CASE UploadSettle(a)
        <3>1. PICK r \in Standing : /\ UplTurn(a, r) /\ (r.fd = 0 \/ (r.fd = upl[a].fd /\ Kin(r, a) /\ r.sent = upl[a].sent))
                                    /\ r.pc \in {"rename", "discard"} /\ Kin(r, a)
            BY <2>7, UplSettleTurn
        <3>2. Quiet(a, r)
            BY <2>1, <3>1 DEF Quiet
        <3>3. QED
            BY <1>2, <3>1, <3>2 DEF Writing
    <2>8. CASE UploadRename(a)
        <3>1. PICK r \in Standing : /\ UplTurn(a, r) /\ r.fd = 0
                                    /\ \/ r.pc = "discard" /\ Kin(r, a)
                                       \/ partial' = [partial EXCEPT ![upl[a].token] = 0]
            BY <2>8, UplRenameTurn
        <3>2. Quiet(a, r)
            BY <2>1, <3>1 DEF Quiet
        <3>3. upl[a].token \in {"resume", a} /\ upl[a].token \in Tokens /\ a \in Tokens
            BY UplFields, UplConsts
        <3>4. CASE r.pc = "discard" /\ Kin(r, a)
            BY <1>2, <3>2, <3>4
        <3>5. CASE partial' = [partial EXCEPT ![upl[a].token] = 0]
            <4>1. upl[a].token = "resume" \/ partial'[a] = 0
                BY <3>3, <3>5 DEF UplData
            <4>2. QED
                BY <1>2, <3>2, <4>1
        <3>6. QED
            BY <3>1, <3>4, <3>5
    <2>9. CASE UploadDiscard(a)
        <3>1. PICK r \in Standing : UplTurn(a, r) /\ r.fd = 0
            BY <2>9, UplEndTurn, UplFields DEF UploadDiscard
        <3>2. Quiet(a, r)
            BY <2>1, <3>1 DEF Quiet
        <3>3. upl[a].token \in {"resume", a} /\ upl[a].token \in Tokens /\ a \in Tokens
            BY UplFields, UplConsts
        <3>4. upl[a].token = "resume" \/ (~rootDir => partial'[a] = 0 \/ a \in litter')
            BY <2>9, <3>3 DEF UploadDiscard, UplData, Allowed, Mine
        <3>5. QED
            BY <1>2, <3>2, <3>4
    <2>10. QED
        BY <1>3, <2>2, <2>3, <2>4, <2>5, <2>6, <2>7, <2>8, <2>9
<1>4. ASSUME NEW a \in Attempts, UploadOpen(a) PROVE UplLeft'
    <2>1. ASSUME rootDir, rootDir' = rootDir PROVE UplLeft'
        BY <2>1 DEF UplLeft
    <2>2. ASSUME NEW i \in Inodes, NEW r \in Standing, Opening(a, r, i) PROVE UplLeft'
        <3>1. upl[a].token \in {"resume", a} /\ a \in Tokens /\ a # "resume" /\ \A b \in Attempts : b \in Tokens /\ b # "resume"
            BY UplFields, UplConsts
        <3>2. \A b \in Attempts \ {a} : partial'[b] = partial[b] /\ (b \in litter => b \in litter')
            BY <2>2, <3>1 DEF Opening
        <3>3. ~rootDir /\ upl[a].token # a => partial'[a] = 0 \/ a \in litter'
            BY <2>2, <3>1 DEF Opening, UplLeft
        <3>4. r.token = upl[a].token /\ r.pc = "write" /\ UplTurn(a, r) /\ rootDir' = rootDir
            BY <2>2 DEF Opening, Kin
        <3>5. QED
            BY <1>1, <3>2, <3>3, <3>4 DEF Writing
    <2>3. QED
        BY <1>4, <2>1, <2>2, UplOpens DEF Quiet
<1>5. ASSUME NEW a \in Attempts, UploadWrite(a) PROVE UplLeft'
    <2>1. PICK r \in Standing : Carrying(a, r)
        BY <1>5, UplWrites
    <2>2. /\ partial' = partial /\ rootDir' = rootDir /\ litter' = litter
          /\ UplTurn(a, r) /\ r.token = upl[a].token /\ r.pc = "write"
        BY <2>1 DEF Carrying, Kin
    <2>3. ~rootDir /\ partial[a] # 0 => a \in litter \/ upl[a].token = a
        BY DEF UplLeft
    <2>4. QED
        BY <1>1, <2>2, <2>3 DEF Writing
<1>6. CASE RivalWrites \/ UploadWindowEnds \/ UNCHANGED uplVars
    <2>1. UNCHANGED <<partial, upl, rootDir, litter>>
        BY <1>6 DEF RivalWrites, UploadWindowEnds, uplVars
    <2>2. QED
        BY <2>1 DEF UplLeft, Holding
<1>7. QED
    BY <1>3, <1>4, <1>5, <1>6 DEF UploadNext

LEMMA UplLitterStep ==
    ASSUME UplData, UplRoom, UplNamed, \A a \in clean : UplOwn(a), UplLitter, [UploadNext]_uplVars
    PROVE  UplLitter'
<1> DEFINE kept == \A a \in Attempts : upl[a].pc # "idle" => a \in clean
           p == partial["resume"]
           some == Len(data[p]) \in 1..Size
           unlost == "resume" \notin litter
           held == \E b \in Attempts : upl[b].token = "resume" /\ Holding(b)
<1>0. /\ UplLitter = (~rootDir /\ p # 0 /\ unlost /\ kept => held \/ some)
      /\ UplLitter' = (~rootDir' /\ p' # 0 /\ unlost' /\ kept' => held' \/ some')
    BY DEF UplLitter
<1> HIDE DEF held, kept, some, p, unlost
<1>1. ASSUME NEW a \in Attempts, NEW r \in Standing, UplTurn(a, r), rootDir' = rootDir,
             unlost' => unlost \/ (r.token = "resume" /\ r.pc = "write"),
             clean' \subseteq clean \cup {a}, upl[a].pc # "idle" => clean' \subseteq clean,
             p' = p, p # 0 => data'[p] = data[p] \/ (r.token = "resume" /\ r.pc \in Writing \cup {"discard"}),
             upl[a].token = "resume" /\ Holding(a) /\ ~rootDir /\ p # 0 /\ unlost' /\ kept =>
                 some' \/ (r.token = "resume" /\ r.pc \in Writing \cup {"discard"})
      PROVE  UplLitter'
    <2>1. upl'[a] = r /\ \A b \in Attempts \ {a} : upl'[b] = upl[b]
        BY <1>1, UplTurns
    <2>2. kept' => kept
        BY <1>1, <2>1 DEF kept, UplTurn
    <2>3. ASSUME r.token = "resume", r.pc \in Writing \cup {"discard"} PROVE held'
        BY <1>1, <2>1, <2>3 DEF held, Holding
    <2>4. ASSUME ~rootDir, p # 0, unlost', kept, held PROVE held' \/ some'
        <3>1. PICK b \in Attempts : upl[b].token = "resume" /\ Holding(b)
            BY <2>4 DEF held
        <3>2. CASE b = a
            BY <1>1, <2>3, <2>4, <3>1, <3>2
        <3>3. CASE b # a
            BY <2>1, <3>1, <3>3 DEF held, Holding
        <3>4. QED
            BY <3>2, <3>3
    <2>5. ASSUME p # 0, some PROVE held' \/ some'
        BY <1>1, <2>3, <2>5 DEF some
    <2>6. unlost' => unlost \/ held'
        BY <1>1, <2>3 DEF Writing
    <2>7. QED
        BY <1>0, <1>1, <2>2, <2>4, <2>5, <2>6
<1>2. p' = 0 => UplLitter'
    BY <1>0
<1>3. ASSUME NEW a \in Attempts,
             \/ UploadAsk(a) \/ UploadBegin(a) \/ UploadCheck(a) \/ UploadBreaks(a) \/ UploadEnds(a)
             \/ UploadSettle(a) \/ UploadRename(a) \/ UploadDiscard(a)
      PROVE  UplLitter'
    <2>1. UNCHANGED <<data, mixed, rootDir>> /\ p' \in {0, p} /\ p = partial["resume"] /\ p' = partial'["resume"]
          /\ (unlost' => unlost)
        BY <1>3, UplQuiet, UplConsts DEF Quiet, p, unlost
    <2>2. clean' \subseteq clean \cup {a} /\ (upl[a].pc # "idle" => clean' \subseteq clean)
        BY <1>3 DEF UploadAsk, UploadBegin, UploadCheck, UploadBreaks, UploadEnds, UploadSettle, UploadRename,
                    UploadDiscard
    <2>3. ASSUME NEW r \in Standing, UplTurn(a, r),
                 upl[a].token = "resume" /\ Holding(a) /\ ~rootDir /\ p # 0 /\ unlost' /\ kept =>
                     some \/ p' = 0 \/ (r.token = "resume" /\ r.pc \in Writing \cup {"discard"})
          PROVE  UplLitter'
        <3>1. CASE p' = 0
            BY <1>2, <3>1
        <3>2. CASE p' = p /\ p # 0
            <4>1. some' = some
                BY <2>1, <3>2 DEF some
            <4>2. QED
                BY <1>1, <2>1, <2>2, <2>3, <3>2, <4>1
        <3>3. QED
            BY <2>1, <3>1, <3>2
    <2>4. ASSUME NEW why, Kept(a, why), upl[a].pc \in Writing, kept, p # 0 PROVE some
        <3>1. upl[a].token = "resume" /\ Written(a) > 0 /\ Written(a) \in 0..Size
            BY <2>4, UplFields DEF Kept, Findable, Written
        <3>2. UplOwn(a)
            BY <2>4 DEF kept, Writing
        <3>3. partial["resume"] = upl[a].fd /\ data[upl[a].fd] = Seg(Written(a))
            BY <2>4, <3>1, <3>2 DEF UplOwn
        <3>4. Len(Seg(Written(a))) = Written(a)
            BY <3>1, SegSeq, UplConsts
        <3>5. QED
            BY <2>1, <3>1, <3>3, <3>4, UplConsts DEF some
    <2>5. CASE UploadAsk(a) \/ UploadBegin(a) \/ UploadCheck(a)
        <3>1. ~Holding(a)
            BY <2>5 DEF Holding, UploadAsk, UploadBegin, UploadCheck, Writing
        <3>2. QED
            BY <2>3, <2>5, <3>1, UplAskTurn, UplBeginTurn, UplCheckTurn
    <2>6. CASE UploadBreaks(a)
        <3>1. PICK why \in {"wire", "host"}, r \in Standing : UplTurn(a, r) /\ (Kept(a, why) \/ (r.pc = "discard" /\ Kin(r, a)))
            BY <2>6, UplCatchTurn DEF UploadBreaks
        <3>2. upl[a].pc \in Writing
            BY <2>6 DEF UploadBreaks, Writing
        <3>3. QED
            BY <2>3, <2>4, <3>1, <3>2 DEF Kin
    <2>7. CASE UploadEnds(a)
        <3>1. PICK r \in Standing : UplTurn(a, r) /\ (Kept(a, "ETOOMUCH") \/ (r.pc \in {"settle", "discard"} /\ Kin(r, a)))
            BY <2>7, UplEndsTurn
        <3>2. upl[a].pc \in Writing /\ "settle" \in Writing
            BY <2>7 DEF UploadEnds, Writing
        <3>3. QED
            BY <2>3, <2>4, <3>1, <3>2 DEF Kin
    <2>8. CASE UploadSettle(a)
        <3>1. PICK r \in Standing : UplTurn(a, r) /\ r.pc \in {"rename", "discard"} /\ Kin(r, a)
            BY <2>8, UplSettleTurn
        <3>2. QED
            BY <2>3, <3>1 DEF Kin, Writing
    <2>9. CASE UploadRename(a)
        <3>1. PICK r \in Standing : UplTurn(a, r) /\ \/ r.pc = "discard" /\ Kin(r, a)
                                                     \/ partial' = [partial EXCEPT ![upl[a].token] = 0]
            BY <2>9, UplRenameTurn
        <3>2. upl[a].token = "resume" => p' = 0 \/ (r.pc = "discard" /\ Kin(r, a))
            BY <2>1, <3>1, UplConsts DEF UplData
        <3>3. QED
            BY <2>3, <3>1, <3>2 DEF Kin
    <2>10. CASE UploadDiscard(a)
        <3>1. PICK r \in Standing : UplTurn(a, r)
            BY <2>10, UplEndTurn, UplFields DEF UploadDiscard
        <3>2. upl[a].token = "resume" /\ p # 0 /\ unlost' => p' = 0
            BY <2>1, <2>10, UplConsts DEF UploadDiscard, UplData, Mine, unlost
        <3>3. QED
            BY <2>3, <3>1, <3>2
    <2>11. QED
        BY <1>3, <2>5, <2>6, <2>7, <2>8, <2>9, <2>10
<1>4. ASSUME NEW a \in Attempts, UploadOpen(a) PROVE UplLitter'
    <2>1. ASSUME rootDir, rootDir' = rootDir PROVE UplLitter'
        BY <1>0, <2>1
    <2>2. ASSUME NEW i \in Inodes, NEW r \in Standing, Opening(a, r, i) PROVE UplLitter'
        <3>1. upl[a].token \in {"resume", a} /\ upl[a].token \in Tokens /\ "resume" \in Tokens /\ a \in Tokens /\ a # "resume"
            BY UplFields, UplConsts
        <3>2. r.token = upl[a].token /\ r.pc = "write" /\ UplTurn(a, r) /\ rootDir' = rootDir /\ clean' \subseteq clean
              /\ ~Holding(a)
            BY <2>2 DEF Opening, Kin, Holding, Writing
        <3>3. CASE upl[a].token = "resume"
            <4>1. upl'[a] = r
                BY <3>2, UplTurns
            <4>2. held'
                BY <3>2, <3>3, <4>1 DEF held, Holding, Writing
            <4>3. QED
                BY <1>0, <4>2
        <3>4. CASE upl[a].token = a
            <4>1. p' = p
                BY <2>2, <3>1, <3>4 DEF Opening, p
            <4>2. p # 0 => p # i /\ p \in Inodes
                <5>1. CASE i = Mine(a)
                    BY <3>1, <3>4, <5>1 DEF UplNamed, Mine, p, UplData
                <5>2. CASE i \notin Used
                    BY <3>1, <5>2 DEF Used, p, UplData
                <5>3. QED
                    BY <2>2, <5>1, <5>2 DEF Opening
            <4>3. p # 0 => data'[p] = data[p]
                BY <2>2, <4>2 DEF Opening
            <4>4. unlost' => unlost
                BY <2>2, <3>1, <3>4 DEF Opening, unlost
            <4>5. QED
                BY <1>1, <3>2, <4>1, <4>3, <4>4
        <3>5. QED
            BY <3>1, <3>3, <3>4
    <2>3. QED
        BY <1>4, <2>1, <2>2, UplOpens DEF Quiet
<1>5. ASSUME NEW a \in Attempts, UploadWrite(a) PROVE UplLitter'
    <2>1. PICK r \in Standing : Carrying(a, r)
        BY <1>5, UplWrites
    <2>2. clean' \subseteq clean
        BY <1>5 DEF UploadWrite
    <2>3. /\ partial' = partial /\ rootDir' = rootDir /\ UplTurn(a, r) /\ r.token = upl[a].token /\ r.pc = "write"
          /\ p' = p /\ (unlost' => unlost)
        BY <2>1 DEF Carrying, Kin, p, unlost
    <2>4. p # 0 => data'[p] = data[p] \/ upl[a].token = "resume"
        <3>1. p # 0 => p \in Inodes
            BY UplConsts DEF UplData, p
        <3>2. p # 0 /\ p = upl[a].fd => upl[a].token = "resume"
            BY UplConsts DEF UplNamed, p
        <3>3. QED
            BY <2>1, <3>1, <3>2 DEF Carrying
    <2>5. QED
        BY <1>1, <2>2, <2>3, <2>4 DEF Writing
<1>6. CASE RivalWrites
    <2>1. NewInode \in Inodes /\ NewInode \notin Used
        BY <1>6, UplFresh DEF RivalWrites
    <2>2. UNCHANGED <<partial, upl, rootDir, litter>> /\ clean' \subseteq clean /\ \A j \in Inodes \ {NewInode} : data'[j] = data[j]
        BY <1>6 DEF RivalWrites, UplData
    <2>3. p # NewInode /\ (p # 0 => p \in Inodes) /\ p' = p
        BY <2>1, <2>2, UplConsts DEF Used, p, UplData
    <2>4. (p # 0 => data'[p] = data[p]) /\ held' = held /\ (kept' => kept)
        BY <2>2, <2>3 DEF held, kept, Holding
    <2>5. p # 0 => some' = some
        BY <2>3, <2>4 DEF some
    <2>6. unlost' = unlost
        BY <2>2 DEF unlost
    <2>7. QED
        BY <1>0, <2>2, <2>3, <2>4, <2>5, <2>6
<1>7. CASE UploadWindowEnds \/ UNCHANGED uplVars
    <2>1. UNCHANGED <<partial, upl, rootDir, clean, data, litter>>
        BY <1>7 DEF UploadWindowEnds, uplVars
    <2>2. QED
        BY <2>1 DEF UplLitter, Holding
<1>8. QED
    BY <1>3, <1>4, <1>5, <1>6, <1>7 DEF UploadNext

LEMMA UplInit == UploadInit => UplInv
<1> SUFFICES ASSUME UploadInit PROVE UplInv
    OBVIOUS
<1>0. Idle \in Standing /\ Idle.pc = "idle" /\ Idle.token = "resume" /\ Idle.from = 0 /\ Idle.sent = 0 /\ Idle.fd = 0
    BY IdleStands DEF Idle
<1>1. /\ place = [c \in 1..Copies |-> 0] /\ partial = [t \in Tokens |-> 0] /\ data = [i \in Inodes |-> <<>>]
      /\ rivals = 0 /\ rootDir \in BOOLEAN /\ window \in BOOLEAN /\ clean = {} /\ mixed = {} /\ litter = {}
      /\ upl = [a \in Attempts |-> Idle]
    BY DEF UploadInit
<1>2. \A a \in Attempts : /\ upl[a].pc = "idle" /\ upl[a].fd = 0 /\ upl[a].sent = 0 /\ Written(a) = 0 /\ upl[a].token = "resume"
    BY <1>0, <1>1 DEF Written
<1>3. UplData
    <2>1. <<>> \in Seq(0..Size)
        OBVIOUS
    <2>2. data \in [Inodes -> Seq(0..Size)] /\ upl \in [Attempts -> Standing]
        BY <1>0, <1>1, <2>1
    <2>3. QED
        BY <1>1, <1>2, <2>2, UplConsts DEF UplData, UplOpen, Writing
<1>4. UplRoom
    <2>1. Used \ {0} = {}
        BY <1>1, <1>2 DEF Used
    <2>2. {a \in Attempts : upl[a].pc \in Before} = Attempts
        BY <1>2 DEF Before
    <2>3. Cardinality(Used \ {0}) = 0
        BY <2>1, FS_EmptySet
    <2>4. Cardinality({a \in Attempts : upl[a].pc \in Before}) = Cardinality(Attempts)
        BY <2>2
    <2>5. 0 + Cardinality(Attempts) <= Cardinality(Attempts) + rivals
        BY <1>1, UplConsts
    <2>6. QED
        BY <2>3, <2>4, <2>5 DEF UplRoom
<1>5. UplStart /\ UplNamed /\ UplLeft /\ UplLitter
    BY <1>1, <1>2, UplConsts DEF UplStart, UplNamed, UplLeft, UplLitter
<1>6. UplAlone
    BY <1>1, <1>2, UplConsts DEF UplAlone, Streaming
<1>7. (\A a \in clean : UplOwn(a)) /\ UploadedIsWhole
    BY <1>1 DEF UploadedIsWhole
<1>8. QED
    BY <1>3, <1>4, <1>5, <1>6, <1>7 DEF UplInv

LEMMA UplStep ==
    ASSUME UplInv, [UploadNext]_uplVars
    PROVE  UplInv'
BY UplDataStep, UplRoomStep, UplStartStep, UplNamedStep, UplAloneStep, UplOwnStep, UplWholeStep, UplLeftStep,
   UplLitterStep DEF UplInv

LEMMA UplHolds ==
    ASSUME UplInv
    PROVE  UploadTypeOK /\ UploadedIsWhole /\ PartialsAreFindable
<1>1. UploadTypeOK
    BY UplFields DEF UplInv, UplData, UploadTypeOK, Writing
<1>2. ASSUME \A a \in Attempts : upl[a].pc \in {"idle", "over"}, ~rootDir, NEW t \in Tokens \ litter, partial[t] # 0
      PROVE  t = "resume" /\ ({a \in Attempts : upl[a].pc = "over"} \subseteq clean => Length(t) \in 1..Size)
    <2>1. \A a \in Attempts : ~Holding(a)
        BY <1>2 DEF Holding, Writing
    <2>2. t = "resume"
        BY <1>2, <2>1, UplConsts DEF UplInv, UplLeft
    <2>3. ASSUME {a \in Attempts : upl[a].pc = "over"} \subseteq clean PROVE Length(t) \in 1..Size
        <3>1. \A a \in Attempts : upl[a].pc # "idle" => a \in clean
            BY <1>2, <2>3
        <3>2. QED
            BY <1>2, <2>1, <2>2, <3>1 DEF UplInv, UplLitter, Length
    <2>4. QED
        BY <2>2, <2>3
<1>3. QED
    BY <1>1, <1>2 DEF UplInv, PartialsAreFindable

\* UploadService.receive, for any number of attempts, copies, blocks and rivals:
\* what is put under the real name by an attempt nobody got in the way of is the
\* whole file, and what is left when all are answered is a partial that a later
\* attempt can find and go on from, or one whose discard failed.
THEOREM UploadsAlwaysWhole == UploadSpec => [](UploadTypeOK /\ UploadedIsWhole /\ PartialsAreFindable)
<1>1. UploadInit => UplInv
    BY UplInit
<1>2. UplInv /\ [UploadNext]_uplVars => UplInv'
    BY UplStep
<1>3. UplInv => UploadTypeOK /\ UploadedIsWhole /\ PartialsAreFindable
    BY UplHolds
<1>4. QED
    BY <1>1, <1>2, <1>3, PTL DEF UploadSpec

\* A behaviour of the handlers of files is, to the uploads, one of theirs.
THEOREM PartsUploadWhole == PartSpec => []UploadsAreWhole
<1> DEFINE all == <<tailVars, renVars, delVars, permVars, uplVars, downVars, cmpVars, part>>
<1>1. PartInit => UplInv
    BY UplInit DEF PartInit
<1>2. UplInv /\ [PartNext]_all => UplInv'
    <2>1. [PartNext]_all => [UploadNext]_uplVars
        BY DEF PartNext
    <2>2. QED
        BY <2>1, UplStep
<1>3. UplInv => UploadsAreWhole
    BY UplHolds DEF UploadsAreWhole
<1>4. QED
    BY <1>1, <1>2, <1>3, PTL DEF PartSpec

-----------------------------------------------------------------------------
(* Renames.                                                                *)

Steps == [from : Places, to : Places]

RenData ==
    /\ dir \in [Places -> Held \cup {Empty}]
    /\ DOMAIN plan \subseteq Held /\ \A n \in DOMAIN plan : plan[n] \in Names \cup {Bad}
    /\ one \in BOOLEAN
    /\ DOMAIN pending \subseteq Places /\ \A n \in DOMAIN pending : pending[n] \in Names
    /\ free \subseteq DOMAIN pending
    /\ done \in Seq(Steps) /\ stranded \in Seq(Places)
    /\ faults \in 0..MaxFaults /\ lost \in 0..MaxLost
    /\ renAt \in {"idle", "refused", "moving", "undoing", "done", "failed"}
    /\ renAt \in {"idle", "refused"} => dir = Began
    /\ renAt = "idle" => DOMAIN pending = {} /\ done = <<>>
    /\ renAt \in {"idle", "moving"} => stranded = <<>> /\ lost = 0

\* The new names, and those that the entry they are for has reached.
Nexts == {plan[m] : m \in Moving}
Arrived(q) == q \in Nexts /\ \A n \in DOMAIN pending : pending[n] # q

\* What is pending is part of a plan that was not refused: an entry is where it
\* was or parked, nobody's new name has been taken by another, and what a round
\* found open stays so.
RenPlan ==
    renAt = "moving" =>
        /\ Judge(plan) /\ DOMAIN pending \subseteq Moving \cup Parking
        /\ \A n \in DOMAIN pending : pending[n] \in Nexts /\ ~Arrived(n)
        /\ \A n, k \in DOMAIN pending : pending[n] = pending[k] => n = k
        /\ \A n \in free : pending[n] \notin DOMAIN pending
        /\ DOMAIN pending \cap Parking \subseteq Taken

\* The directory, half way: who is pending is where it waits, who has arrived
\* has its new name, and every other name is as it was or has been left.
Half ==
    [n \in Places |-> IF n \in DOMAIN pending THEN Whose(pending[n])
                      ELSE IF Arrived(n) THEN Whose(n)
                      ELSE IF n \in Moving THEN Empty ELSE Began[n]]

RenHalf == renAt = "moving" => dir = Half

\* The renames done can be taken back one by one, newest first: ds[k] is the
\* directory after k of them.
Replay(ds) ==
    /\ ds[0] = Began /\ ds[Len(done)] = dir
    /\ \A k \in 1..Len(done) :
          /\ ds[k - 1] \in [Places -> Held \cup {Empty}]
          /\ ds[k] = Moved(ds[k - 1], done[k].from, done[k].to)
          /\ ds[k - 1][done[k].to] = Empty /\ done[k].from # done[k].to

RenBack ==
    renAt \in {"moving", "undoing"} /\ stranded = <<>> /\ lost = 0 => \E ds : Replay(ds)

\* A rename of one entry is a batch of one, which nothing precedes.
RenOne ==
    one /\ renAt = "moving" =>
        done = <<>> /\ \E n \in Moving : DOMAIN pending = {n} /\ pending[n] = plan[n]

\* No step names key material.
RenKeys ==
    /\ KeysStay
    /\ \A n \in DOMAIN pending : {n, pending[n]} \cap Guarded = {}
    /\ \A i \in 1..Len(done) : {done[i].from, done[i].to} \cap Guarded = {}

RenInv ==
    /\ RenData /\ RenPlan /\ RenHalf /\ RenBack /\ RenOne /\ RenKeys
    /\ AllOrNothing /\ NothingReplaced

LEMMA RenConsts ==
    /\ Held \subseteq Names /\ Guarded \subseteq Names /\ Empty \notin Names /\ Bad \notin Names
    /\ Parking \cap Names = {} /\ Places = Names \cup Parking /\ MaxFaults \in Nat /\ MaxLost \in Nat
BY RenameAssumption DEF Places

\* A rename onto a name that nobody has.
LEMMA RenMoved ==
    ASSUME NEW d \in [Places -> Held \cup {Empty}], NEW src \in Places, NEW tgt \in Places, src # tgt,
           d[tgt] = Empty
    PROVE  LET e == Moved(d, src, tgt)
           IN  /\ e \in [Places -> Held \cup {Empty}]
               /\ e[tgt] = d[src] /\ e[src] = Empty /\ \A n \in Places \ {src, tgt} : e[n] = d[n]
               /\ Moved(e, tgt, src) = d
               /\ \A f \in Held : (\E n \in Places : d[n] = f) => \E n \in Places : e[n] = f
<1> DEFINE e == Moved(d, src, tgt)
           b == Moved(e, tgt, src)
<1>1. /\ e \in [Places -> Held \cup {Empty}]
      /\ e[tgt] = d[src] /\ e[src] = Empty /\ \A n \in Places \ {src, tgt} : e[n] = d[n]
    BY DEF Moved
<1> HIDE DEF e
<1>2. /\ b \in [Places -> Held \cup {Empty}]
      /\ b[src] = e[tgt] /\ b[tgt] = Empty /\ \A n \in Places \ {src, tgt} : b[n] = e[n]
    BY <1>1 DEF Moved
<1> HIDE DEF b
<1>3. b = d
    <2>1. \A n \in Places : b[n] = d[n]
        BY <1>1, <1>2
    <2>2. QED
        BY <1>2, <2>1
<1>4. ASSUME NEW f \in Held, NEW n \in Places, d[n] = f PROVE \E m \in Places : e[m] = f
    <2>1. n # tgt
        BY <1>4, RenConsts
    <2>2. QED
        BY <1>1, <1>4, <2>1
<1>5. QED
    BY <1>1, <1>3, <1>4 DEF e, b

\* Whose new name a new name is.
LEMMA RenWhose ==
    ASSUME Judge(plan)
    PROVE  \A m \in Moving : Whose(plan[m]) = m
<1>1. ASSUME NEW m \in Moving PROVE Whose(plan[m]) = m
    <2>1. \A k \in Moving : plan[k] = plan[m] => k = m
        BY <1>1 DEF Judge, Moving
    <2>2. QED
        BY <1>1, <2>1 DEF Whose
<1>2. QED
    BY <1>1

\* The name a rename goes to is nobody's.
LEMMA RenRoom ==
    ASSUME RenInv, renAt = "moving", NEW src, NEW tgt, Renaming(src, tgt)
    PROVE  /\ src \in DOMAIN pending /\ tgt \notin DOMAIN pending
           /\ src \in Places /\ tgt \in Places /\ src # tgt /\ dir[tgt] = Empty
           /\ {src, tgt} \cap Guarded = {}
<1>1. /\ Judge(plan) /\ DOMAIN pending \subseteq Places /\ \A n \in DOMAIN pending : pending[n] \in Names
      /\ free \subseteq DOMAIN pending /\ DOMAIN plan \subseteq Held
    BY DEF RenInv, RenData, RenPlan
<1>2. \A n \in Places \ DOMAIN pending : ~Arrived(n) /\ (n \in Held => n \in Moving) => dir[n] = Empty
    BY DEF RenInv, RenHalf, Half, Began
<1>3. CASE src \in free /\ tgt = pending[src]
    <2>1. src \in DOMAIN pending /\ tgt \notin DOMAIN pending /\ ~Arrived(tgt) /\ tgt \in Nexts
        BY <1>1, <1>3 DEF RenInv, RenPlan, Arrived
    <2>2. tgt \in Held => tgt \in Moving
        BY <1>1, <2>1 DEF Judge, Moving, Nexts
    <2>3. src \in Places /\ tgt \in Places /\ src # tgt
        BY <1>1, <1>3, <2>1 DEF Places
    <2>4. {src, tgt} \cap Guarded = {}
        BY <1>3, <2>1 DEF RenInv, RenKeys
    <2>5. QED
        BY <1>2, <2>1, <2>2, <2>3, <2>4
<1>4. CASE src \in DOMAIN pending /\ tgt \in Parking \ Taken
    <2>1. tgt \notin DOMAIN pending /\ tgt \notin Names /\ tgt \in Places
        BY <1>4, RenConsts DEF RenInv, RenPlan
    <2>2. Nexts \subseteq Names \cup {Bad} /\ Bad \notin Nexts
        BY <1>1 DEF RenInv, RenData, Nexts, Moving, Judge
    <2>3. ~Arrived(tgt) /\ tgt \notin Held
        BY <2>1, <2>2, RenConsts DEF Arrived
    <2>4. src \in Places /\ {src, tgt} \cap Guarded = {}
        BY <1>1, <1>4, <2>1, RenConsts DEF RenInv, RenKeys
    <2>5. QED
        BY <1>2, <1>4, <2>1, <2>3, <2>4
<1>5. QED
    BY <1>3, <1>4 DEF Renaming

\* One more rename can be taken back.
LEMMA RenReplayed ==
    ASSUME RenData, NEW ds, Replay(ds), NEW src \in Places, NEW tgt \in Places, src # tgt, dir[tgt] = Empty,
           Step(src, tgt)
    PROVE  \E es : Replay(es)'
<1> DEFINE n == Len(done)
           s == [from |-> src, to |-> tgt]
           es == [k \in 0..(n + 1) |-> IF k = n + 1 THEN dir' ELSE ds[k]]
<1>1. n \in Nat /\ done \in Seq(Steps) /\ s \in Steps
    BY DEF RenData, Steps
<1>2. done' = Append(done, s) /\ dir' = Moved(dir, src, tgt)
    BY DEF Step
<1>3. Len(done') = n + 1 /\ done'[n + 1] = s /\ \A k \in 1..n : done'[k] = done[k]
    BY <1>1, <1>2
<1>4. es[0] = Began /\ es[n + 1] = dir'
    BY <1>1 DEF Replay
<1>5. ASSUME NEW k \in 1..(n + 1)
      PROVE  /\ es[k - 1] \in [Places -> Held \cup {Empty}]
             /\ es[k] = Moved(es[k - 1], done'[k].from, done'[k].to)
             /\ es[k - 1][done'[k].to] = Empty /\ done'[k].from # done'[k].to
    <2>1. CASE k = n + 1
        <3>1. k - 1 = n /\ n \in 0..(n + 1) /\ n # n + 1 /\ k \in 0..(n + 1)
            BY <1>1, <2>1
        <3>2. es[k - 1] = dir /\ es[k] = dir' /\ done'[k] = s
            BY <1>3, <2>1, <3>1 DEF Replay
        <3>3. s.from = src /\ s.to = tgt
            OBVIOUS
        <3> HIDE DEF es, s
        <3>4. QED
            BY <1>2, <3>2, <3>3 DEF RenData
    <2>2. CASE k \in 1..n
        <3>1. k - 1 \in 0..(n + 1) /\ k - 1 # n + 1 /\ k \in 0..(n + 1) /\ k # n + 1
            BY <1>1, <2>2
        <3>2. es[k - 1] = ds[k - 1] /\ es[k] = ds[k] /\ done'[k] = done[k]
            BY <1>3, <2>2, <3>1
        <3> HIDE DEF es, s
        <3>3. QED
            BY <2>2, <3>2 DEF Replay
    <2>3. QED
        BY <1>1, <2>1, <2>2
<1> HIDE DEF es
<1>6. QED
    BY <1>3, <1>4, <1>5 DEF Replay

\* Taking one back leaves the directory there was before it.
LEMMA RenTakenBack ==
    ASSUME RenData, NEW ds, Replay(ds), done # <<>>
    PROVE  LET s == Last(done)
           IN  /\ s.from \in Places /\ s.to \in Places /\ s.from # s.to /\ dir[s.from] = Empty
               /\ (dir' = Moved(dir, s.to, s.from) /\ done' = Front(done) => \E es : Replay(es)')
               /\ \A f \in Held : (\E n \in Places : dir[n] = f) => \E n \in Places : Moved(dir, s.to, s.from)[n] = f
<1> DEFINE n == Len(done)
           s == Last(done)
<1>1. n \in Nat \ {0} /\ done \in Seq(Steps) /\ s = done[n] /\ n \in 1..n
    BY DEF RenData, Last
<1>2. s \in Steps /\ s.from \in Places /\ s.to \in Places
    <2>1. done[n] \in Steps
        BY <1>1
    <2>2. s \in Steps
        BY <1>1, <2>1
    <2> HIDE DEF s
    <2>3. QED
        BY <2>2 DEF Steps
<1> HIDE DEF s
<1>3. /\ ds[n - 1] \in [Places -> Held \cup {Empty}] /\ dir = Moved(ds[n - 1], s.from, s.to)
      /\ ds[n - 1][s.to] = Empty /\ s.from # s.to
    BY <1>1 DEF Replay
<1>4. dir[s.from] = Empty /\ Moved(dir, s.to, s.from) = ds[n - 1]
    BY <1>2, <1>3, RenMoved
<1>5. ASSUME dir' = Moved(dir, s.to, s.from), done' = Front(done) PROVE Replay(ds)'
    <2>1. Len(done') = n - 1 /\ \A k \in 1..(n - 1) : done'[k] = done[k]
        <3>1. done' = SubSeq(done, 1, n - 1)
            BY <1>5 DEF Front
        <3>2. \A i \in 1..(n - 1) : done[i] \in Steps
            BY <1>1
        <3>3. /\ Len(done') = IF 1 <= n - 1 THEN (n - 1) - 1 + 1 ELSE 0
              /\ \A k \in 1..((n - 1) - 1 + 1) : done'[k] = done[1 + k - 1]
            <4>1. 1 \in Int /\ n - 1 \in Int
                BY <1>1
            <4> HIDE DEF n
            <4>2. QED
                BY <4>1, <3>1, <3>2, SubSeqProperties
        <3>4. Len(done') = n - 1 /\ \A k \in 1..(n - 1) : done'[k] = done[k]
            <4>1. (n - 1) - 1 + 1 = n - 1 /\ (~(1 <= n - 1) => n - 1 = 0) /\ \A k \in 1..(n - 1) : 1 + k - 1 = k
                BY <1>1
            <4> HIDE DEF n
            <4>2. QED
                BY <4>1, <3>3
        <3>5. QED
            BY <3>4
    <2>2. dir' = ds[n - 1]
        BY <1>4, <1>5
    <2>3. \A k \in 1..(n - 1) : k \in 1..n
        BY <1>1
    <2>4. QED
        BY <2>1, <2>2, <2>3 DEF Replay
<1>6. \A f \in Held : (\E m \in Places : dir[m] = f) => \E m \in Places : Moved(dir, s.to, s.from)[m] = f
    <2>1. dir \in [Places -> Held \cup {Empty}]
        BY DEF RenData
    <2>2. QED
        BY <1>2, <1>3, <1>4, <2>1, RenMoved
<1>7. QED
    BY <1>2, <1>3, <1>4, <1>5, <1>6 DEF s

\* What every rename that is made does, whichever it is.
LEMMA RenStep ==
    ASSUME RenInv, renAt = "moving", NEW src, NEW tgt, Renaming(src, tgt), Step(src, tgt),
           UNCHANGED <<stranded, lost>>
    PROVE  /\ dir' \in [Places -> Held \cup {Empty}] /\ dir'[tgt] = dir[src] /\ dir'[src] = Empty
           /\ \A n \in Places \ {src, tgt} : dir'[n] = dir[n]
           /\ done' \in Seq(Steps) /\ \A i \in 1..Len(done') : {done'[i].from, done'[i].to} \cap Guarded = {}
           /\ Taken \cup {tgt} \subseteq Taken'
           /\ RenBack' /\ KeysStay' /\ NothingReplaced'
<1>1. /\ src \in Places /\ tgt \in Places /\ src # tgt /\ dir[tgt] = Empty /\ {src, tgt} \cap Guarded = {}
    BY RenRoom
<1>2. dir \in [Places -> Held \cup {Empty}] /\ done \in Seq(Steps)
    BY DEF RenInv, RenData
<1>3. done' = Append(done, [from |-> src, to |-> tgt]) /\ dir' = Moved(dir, src, tgt)
    BY DEF Step
<1>4. /\ dir' \in [Places -> Held \cup {Empty}] /\ dir'[tgt] = dir[src] /\ dir'[src] = Empty
      /\ \A n \in Places \ {src, tgt} : dir'[n] = dir[n]
      /\ \A f \in Held : (\E n \in Places : dir[n] = f) => \E n \in Places : dir'[n] = f
    BY <1>1, <1>2, <1>3, RenMoved
<1>5. /\ done' \in Seq(Steps) /\ Len(done') = Len(done) + 1 /\ done'[Len(done) + 1] = [from |-> src, to |-> tgt]
      /\ \A i \in 1..Len(done) : done'[i] = done[i]
    <2>1. [from |-> src, to |-> tgt] \in Steps
        BY <1>1 DEF Steps
    <2>2. QED
        BY <1>2, <1>3, <2>1
<1>6. \A i \in 1..Len(done') : {done'[i].from, done'[i].to} \cap Guarded = {}
    <2>1. \A i \in 1..Len(done) : {done[i].from, done[i].to} \cap Guarded = {}
        BY DEF RenInv, RenKeys
    <2>2. ASSUME NEW i \in 1..Len(done') PROVE {done'[i].from, done'[i].to} \cap Guarded = {}
        <3>1. Len(done) \in Nat
            BY <1>2
        <3>2. i = Len(done) + 1 \/ i \in 1..Len(done)
            BY <1>5, <2>2, <3>1
        <3>3. QED
            BY <1>1, <1>5, <2>1, <3>2
    <2>3. QED
        BY <2>2
<1>7. Taken \cup {tgt} \subseteq Taken'
    <2>1. DOMAIN done = 1..Len(done) /\ DOMAIN done' = 1..(Len(done) + 1) /\ Len(done) \in Nat
        BY <1>2, <1>5
    <2>2. done'[Len(done) + 1].to = tgt
        BY <1>5
    <2>3. QED
        BY <1>5, <2>1, <2>2 DEF Taken
<1>8. RenBack'
    <2>1. stranded = <<>> /\ lost = 0
        BY DEF RenInv, RenData
    <2>2. PICK ds : Replay(ds)
        BY <2>1 DEF RenInv, RenBack
    <2>3. \E es : Replay(es)'
        BY <1>1, <2>2, RenReplayed DEF RenInv
    <2>4. QED
        BY <2>3 DEF RenBack
<1>9. KeysStay'
    BY <1>1, <1>4, RenConsts DEF RenInv, RenKeys, KeysStay, Places
<1>10. NothingReplaced'
    BY <1>4 DEF RenInv, NothingReplaced
<1>11. QED
    BY <1>4, <1>5, <1>6, <1>7, <1>8, <1>9, <1>10


LEMMA RenRoundKeeps ==
    ASSUME RenInv, RenameRound
    PROVE  RenInv'
<1>1. renAt = "moving" /\ free' = Open(pending)
      /\ UNCHANGED <<dir, plan, one, pending, done, restored, stranded, faults, lost, renAt>>
    BY DEF RenameRound
<1>2. RenPlan'
    <2>1. /\ Judge(plan) /\ DOMAIN pending \subseteq Moving \cup Parking
          /\ \A n \in DOMAIN pending : pending[n] \in Nexts /\ ~Arrived(n)
          /\ \A n, k \in DOMAIN pending : pending[n] = pending[k] => n = k
          /\ DOMAIN pending \cap Parking \subseteq Taken
        BY <1>1 DEF RenInv, RenPlan
    <2>2. Moving' = Moving /\ Taken' = Taken /\ Nexts' = Nexts /\ \A q : Arrived(q)' <=> Arrived(q)
        BY <1>1 DEF Moving, Taken, Nexts, Arrived
    <2>3. \A n \in free' : pending[n] \notin DOMAIN pending
        BY <1>1 DEF Open
    <2>4. QED
        BY <1>1, <2>1, <2>2, <2>3 DEF RenPlan
<1>3. RenHalf' /\ RenData'
    <2>1. Half' = Half
        BY <1>1 DEF Half, Arrived, Nexts, Moving, Whose
    <2>2. RenHalf'
        BY <1>1, <2>1 DEF RenInv, RenHalf
    <2>3. RenData'
        BY <1>1 DEF RenInv, RenData, Open
    <2>4. QED
        BY <2>2, <2>3
<1>4. RenBack' /\ RenOne' /\ RenKeys'
    BY <1>1 DEF RenInv, RenBack, Replay, RenOne, Moving, RenKeys, KeysStay
<1>5. AllOrNothing' /\ NothingReplaced'
    BY <1>1 DEF RenInv, AllOrNothing, NothingReplaced
<1>6. QED
    BY <1>2, <1>3, <1>4, <1>5 DEF RenInv

LEMMA RenMoveKeeps ==
    ASSUME RenInv, RenameMove
    PROVE  RenInv'
<1>1. PICK n \in free :
        /\ renAt = "moving" /\ Step(n, pending[n])
        /\ pending' = Restrict(pending, DOMAIN pending \ {n})
        /\ free' = free \ {n}
    BY DEF RenameMove
<1>2. /\ renAt' = IF DOMAIN pending' = {} THEN "done" ELSE "moving"
      /\ UNCHANGED <<plan, one, restored, stranded, faults, lost>>
    BY DEF RenameMove
<1> DEFINE tgt == pending[n]
<1>3. Renaming(n, tgt)
    BY <1>1 DEF Renaming
<1>4. /\ n \in DOMAIN pending /\ tgt \notin DOMAIN pending /\ n \in Places /\ tgt \in Places /\ n # tgt
    BY <1>1, <1>3, RenRoom
<1>5. /\ dir' \in [Places -> Held \cup {Empty}] /\ dir'[tgt] = dir[n] /\ dir'[n] = Empty
      /\ \A p \in Places \ {n, tgt} : dir'[p] = dir[p]
      /\ done' \in Seq(Steps) /\ \A i \in 1..Len(done') : {done'[i].from, done'[i].to} \cap Guarded = {}
      /\ Taken \cup {tgt} \subseteq Taken'
      /\ RenBack' /\ KeysStay' /\ NothingReplaced'
    BY <1>1, <1>2, <1>3, RenStep
<1>6. /\ DOMAIN pending' = DOMAIN pending \ {n}
      /\ \A m \in DOMAIN pending' : pending'[m] = pending[m]
    BY <1>1 DEF Restrict
<1>7. /\ Judge(plan) /\ DOMAIN pending \subseteq Moving \cup Parking
      /\ \A m \in DOMAIN pending : pending[m] \in Nexts /\ ~Arrived(m)
      /\ \A m, k \in DOMAIN pending : pending[m] = pending[k] => m = k
      /\ \A m \in free : pending[m] \notin DOMAIN pending
      /\ DOMAIN pending \cap Parking \subseteq Taken
    BY <1>1 DEF RenInv, RenPlan
<1>8. Moving' = Moving /\ Nexts' = Nexts /\ \A q : Whose(q)' = Whose(q)
    BY <1>2 DEF Moving, Nexts, Whose
<1>9. \A q : Arrived(q)' <=> Arrived(q) \/ q = tgt
    <2>1. tgt \in Nexts /\ \A m \in DOMAIN pending' : pending[m] # tgt
        BY <1>4, <1>6, <1>7
    <2>2. QED
        BY <1>6, <1>8, <2>1 DEF Arrived
<1> HIDE DEF tgt
<1>10. RenPlan'
    <2>1. DOMAIN pending' \subseteq Moving \cup Parking /\ DOMAIN pending' \cap Parking \subseteq Taken'
        BY <1>5, <1>6, <1>7
    <2>2. \A m \in DOMAIN pending' : pending'[m] \in Nexts /\ ~Arrived(m)'
        BY <1>4, <1>6, <1>7, <1>9
    <2>3. \A m, k \in DOMAIN pending' : pending'[m] = pending'[k] => m = k
        BY <1>6, <1>7
    <2>4. \A m \in free' : pending'[m] \notin DOMAIN pending'
        <3>1. free \subseteq DOMAIN pending
            BY DEF RenInv, RenData
        <3>2. QED
            BY <1>1, <1>6, <1>7, <3>1
    <2>5. Judge(plan')
        BY <1>2, <1>7
    <2>6. QED
        BY <1>8, <2>1, <2>2, <2>3, <2>4, <2>5 DEF RenPlan
<1>11. dir' = Half'
    <2>1. dir = Half
        BY <1>1 DEF RenInv, RenHalf
    <2>2. \A p \in Places :
            dir[p] = IF p \in DOMAIN pending THEN Whose(pending[p])
                     ELSE IF Arrived(p) THEN Whose(p)
                     ELSE IF p \in Moving THEN Empty ELSE Began[p]
        BY <2>1 DEF Half
    <2>3. ASSUME NEW p \in Places
          PROVE  dir'[p] = IF p \in DOMAIN pending' THEN Whose(pending'[p])
                           ELSE IF Arrived(p)' THEN Whose(p)
                           ELSE IF p \in Moving THEN Empty ELSE Began[p]
        <3>1. CASE p = tgt
            BY <1>4, <1>5, <1>6, <1>9, <2>2, <3>1 DEF tgt
        <3>2. CASE p = n
            <4>1. n \in Moving \/ Began[n] = Empty
                BY <1>4, <1>7, RenConsts DEF Began
            <4>2. ~Arrived(n)'
                BY <1>4, <1>7, <1>9
            <4>3. QED
                BY <1>5, <1>6, <3>2, <4>1, <4>2
        <3>3. CASE p \notin {n, tgt}
            <4>1. p \in DOMAIN pending' <=> p \in DOMAIN pending
                BY <1>6, <3>3
            <4>2. p \in DOMAIN pending' => pending'[p] = pending[p]
                BY <1>6
            <4>3. Arrived(p)' <=> Arrived(p)
                BY <1>9, <3>3
            <4>4. dir'[p] = dir[p]
                BY <1>5, <3>3
            <4>5. QED
                BY <2>2, <4>1, <4>2, <4>3, <4>4
        <3>4. QED
            BY <3>1, <3>2, <3>3
    <2>4. QED
        BY <1>2, <1>5, <1>8, <2>3 DEF Half, Began
<1>12. RenData'
    <2>1. DOMAIN pending' \subseteq Places /\ \A m \in DOMAIN pending' : pending'[m] \in Names
        BY <1>6 DEF RenInv, RenData
    <2>2. free' \subseteq DOMAIN pending'
        BY <1>1, <1>6 DEF RenInv, RenData
    <2>3. stranded' = <<>> /\ lost' = 0
        BY <1>1, <1>2 DEF RenInv, RenData
    <2>4. renAt' \in {"moving", "done"}
        BY <1>2
    <2>5. QED
        BY <1>2, <1>5, <2>1, <2>2, <2>3, <2>4 DEF RenInv, RenData
<1>13. RenOne'
    <2>1. one' /\ renAt' = "moving" => DOMAIN pending = {n} /\ DOMAIN pending' # {}
        BY <1>1, <1>2, <1>4 DEF RenInv, RenOne
    <2>2. QED
        BY <1>6, <2>1 DEF RenOne
<1>14. RenKeys'
    BY <1>5, <1>6 DEF RenInv, RenKeys
<1>15. AllOrNothing'
    <2>1. DOMAIN pending' = {} => Half' = Image'
        <3>1. DOMAIN pending' = {} => \A q : Arrived(q)' <=> \E m \in Moving : plan[m] = q
            BY <1>2, <1>8 DEF Arrived, Nexts
        <3>2. QED
            BY <1>2, <1>8, <3>1 DEF Half, Image
    <2>2. QED
        BY <1>2, <1>11, <2>1 DEF AllOrNothing
<1>16. QED
    BY <1>5, <1>10, <1>11, <1>12, <1>13, <1>14, <1>15 DEF RenInv, RenHalf

LEMMA RenParkKeeps ==
    ASSUME RenInv, RenamePark
    PROVE  RenInv'
<1>1. PICK n \in DOMAIN pending, t \in Parking :
        /\ renAt = "moving" /\ free = {} /\ Renaming(n, t) /\ Step(n, t)
        /\ pending' = [m \in (DOMAIN pending \ {n}) \cup {t} |-> IF m = t THEN pending[n] ELSE pending[m]]
    BY DEF RenamePark
<1>2. UNCHANGED <<plan, one, free, restored, stranded, faults, lost, renAt>>
    BY DEF RenamePark
<1>4. /\ t \notin DOMAIN pending /\ n \in Places /\ t \in Places /\ n # t /\ {n, t} \cap Guarded = {}
    BY <1>1, RenRoom
<1>5. /\ dir' \in [Places -> Held \cup {Empty}] /\ dir'[t] = dir[n] /\ dir'[n] = Empty
      /\ \A p \in Places \ {n, t} : dir'[p] = dir[p]
      /\ done' \in Seq(Steps) /\ \A i \in 1..Len(done') : {done'[i].from, done'[i].to} \cap Guarded = {}
      /\ Taken \cup {t} \subseteq Taken'
      /\ RenBack' /\ KeysStay' /\ NothingReplaced'
    BY <1>1, <1>2, RenStep
<1>6. /\ DOMAIN pending' = (DOMAIN pending \ {n}) \cup {t} /\ pending'[t] = pending[n]
      /\ \A m \in DOMAIN pending \ {n} : pending'[m] = pending[m]
    BY <1>1, <1>4
<1>7. /\ Judge(plan) /\ DOMAIN pending \subseteq Moving \cup Parking
      /\ \A m \in DOMAIN pending : pending[m] \in Nexts /\ ~Arrived(m)
      /\ \A m, k \in DOMAIN pending : pending[m] = pending[k] => m = k
      /\ DOMAIN pending \cap Parking \subseteq Taken
    BY <1>1 DEF RenInv, RenPlan
<1>8. Moving' = Moving /\ Nexts' = Nexts /\ \A q : Whose(q)' = Whose(q)
    BY <1>2 DEF Moving, Nexts, Whose
<1>9. \A q : Arrived(q)' <=> Arrived(q)
    BY <1>4, <1>6, <1>8 DEF Arrived
<1>10. ~Arrived(t)
    BY <1>7, RenConsts DEF Arrived, Nexts, Judge, Moving, RenInv, RenData
<1>11. RenPlan'
    <2>1. DOMAIN pending' \subseteq Moving \cup Parking /\ DOMAIN pending' \cap Parking \subseteq Taken'
        BY <1>5, <1>6, <1>7
    <2>2. \A m \in DOMAIN pending' : pending'[m] \in Nexts /\ ~Arrived(m)'
        BY <1>6, <1>7, <1>9, <1>10
    <2>3. \A m, k \in DOMAIN pending' : pending'[m] = pending'[k] => m = k
        BY <1>4, <1>6, <1>7
    <2>4. free' = {} /\ Judge(plan')
        BY <1>1, <1>2, <1>7
    <2>5. QED
        BY <1>8, <2>1, <2>2, <2>3, <2>4 DEF RenPlan
<1>12. dir' = Half'
    <2>1. dir = Half
        BY <1>1 DEF RenInv, RenHalf
    <2>2. \A p \in Places :
            dir[p] = IF p \in DOMAIN pending THEN Whose(pending[p])
                     ELSE IF Arrived(p) THEN Whose(p)
                     ELSE IF p \in Moving THEN Empty ELSE Began[p]
        BY <2>1 DEF Half
    <2>3. ASSUME NEW p \in Places
          PROVE  dir'[p] = IF p \in DOMAIN pending' THEN Whose(pending'[p])
                           ELSE IF Arrived(p)' THEN Whose(p)
                           ELSE IF p \in Moving THEN Empty ELSE Began[p]
        <3>1. CASE p = t
            BY <1>4, <1>5, <1>6, <2>2, <3>1
        <3>2. CASE p = n
            <4>1. n \in Moving \/ Began[n] = Empty
                BY <1>4, <1>7, RenConsts DEF Began
            <4>2. ~Arrived(n)' /\ n \notin DOMAIN pending'
                BY <1>4, <1>6, <1>7, <1>9
            <4>3. QED
                BY <1>5, <3>2, <4>1, <4>2
        <3>3. CASE p \notin {n, t}
            <4>1. p \in DOMAIN pending' <=> p \in DOMAIN pending
                BY <1>6, <3>3
            <4>2. p \in DOMAIN pending' => pending'[p] = pending[p]
                BY <1>6, <3>3
            <4>3. dir'[p] = dir[p]
                BY <1>5, <3>3
            <4>4. QED
                BY <1>9, <2>2, <4>1, <4>2, <4>3
        <3>4. QED
            BY <3>1, <3>2, <3>3
    <2>4. QED
        BY <1>2, <1>5, <1>8, <2>3 DEF Half, Began
<1>13. RenData'
    <2>1. DOMAIN pending' \subseteq Places /\ \A m \in DOMAIN pending' : pending'[m] \in Names
        BY <1>4, <1>6 DEF RenInv, RenData
    <2>2. free' = {} /\ stranded' = <<>> /\ lost' = 0
        BY <1>1, <1>2 DEF RenInv, RenData
    <2>3. QED
        BY <1>1, <1>2, <1>5, <2>1, <2>2 DEF RenInv, RenData
<1>14. RenOne'
    <2>1. ASSUME one PROVE FALSE
        <3>1. PICK k \in Moving : DOMAIN pending = {k} /\ pending[k] = plan[k]
            BY <1>1, <2>1 DEF RenInv, RenOne
        <3>2. k \in Open(pending)
            BY <3>1 DEF Open, Moving
        <3>3. QED
            BY <1>1, <3>2 DEF Renaming
    <2>2. QED
        BY <1>2, <2>1 DEF RenOne
<1>15. RenKeys'
    BY <1>4, <1>5, <1>6 DEF RenInv, RenKeys
<1>16. AllOrNothing'
    BY <1>1, <1>2 DEF AllOrNothing
<1>17. QED
    BY <1>5, <1>11, <1>12, <1>13, <1>14, <1>15, <1>16 DEF RenInv, RenHalf

LEMMA RenAskKeeps ==
    ASSUME RenInv, RenameAsk
    PROVE  RenInv'
<1>1. /\ renAt = "idle" /\ UNCHANGED <<dir, free, done, restored, stranded, faults, lost>>
      /\ one' \in BOOLEAN /\ (one' => \E n \in Held : DOMAIN plan' = {n})
    BY DEF RenameAsk
<1>2. /\ dir = Began /\ DOMAIN pending = {} /\ free = {} /\ done = <<>> /\ stranded = <<>> /\ lost = 0
    BY <1>1 DEF RenInv, RenData
<1>3. DOMAIN plan' \subseteq Held /\ \A n \in DOMAIN plan' : plan'[n] \in Names \cup {Bad}
    BY DEF RenameAsk
<1>4. KeysStay' /\ NothingReplaced' /\ \A i \in 1..Len(done') : {done'[i].from, done'[i].to} \cap Guarded = {}
    <2>1. KeysStay' /\ NothingReplaced'
        BY <1>1 DEF RenInv, RenKeys, KeysStay, NothingReplaced
    <2>2. QED
        BY <1>1, <2>1 DEF RenInv, RenKeys
<1>5. CASE ~Judge(plan') \/ ~Clear(plan')
    <2>1. renAt' = "refused" /\ pending' = pending
        BY <1>5 DEF RenameAsk
    <2>2. RenData'
        BY <1>1, <1>2, <1>3, <2>1 DEF RenInv, RenData, Began
    <2>3. RenKeys'
        BY <1>2, <1>4, <2>1 DEF RenKeys
    <2>4. QED
        BY <1>1, <1>2, <1>4, <2>1, <2>2, <2>3 DEF RenInv, RenPlan, RenHalf, RenBack, RenOne, AllOrNothing, Began
<1>6. CASE Judge(plan') /\ Clear(plan')
    <2>1. /\ pending' = Restrict(plan', Moving')
          /\ renAt' = IF Moving' = {} THEN "done" ELSE "moving"
        BY <1>6 DEF RenameAsk
    <2>2. /\ DOMAIN pending' = Moving' /\ \A n \in Moving' : pending'[n] = plan'[n]
          /\ Moving' \subseteq Held
        BY <1>3, <2>1 DEF Restrict, Moving
    <2>3. \A n \in Moving' : plan'[n] # Bad /\ plan'[n] \in Names /\ {n, plan'[n]} \cap Guarded = {}
        BY <1>3, <1>6 DEF Judge, Clear, Moving
    <2>4. \A n, k \in Moving' : plan'[n] = plan'[k] => n = k
        BY <1>6 DEF Judge, Moving
    <2>5. \A q : ~Arrived(q)'
        BY <2>2 DEF Arrived, Nexts
    <2>6. RenPlan'
        <3>1. \A n \in DOMAIN pending' : pending'[n] \in Nexts'
            BY <2>2 DEF Nexts
        <3>2. DOMAIN pending' \cap Parking = {}
            BY <2>2, RenConsts
        <3>3. QED
            BY <1>1, <1>2, <1>6, <2>2, <2>4, <2>5, <3>1, <3>2 DEF RenPlan
    <2>7. dir' = Half'
        <3>1. \A n \in Moving' : Whose(pending[n])' = n /\ Began[n] = n
            <4>1. \A n \in Moving' : Whose(plan[n])' = n
                <5>1. ASSUME NEW n \in Moving' PROVE Whose(plan[n])' = n
                    BY <2>4 DEF Whose
                <5>2. QED
                    BY <5>1
            <4>2. QED
                BY <2>2, <4>1, RenConsts DEF Began
        <3>2. \A n \in Places :
                Began[n] = IF n \in DOMAIN pending' THEN Whose(pending[n])'
                           ELSE IF Arrived(n)' THEN Whose(n)'
                           ELSE IF n \in Moving' THEN Empty ELSE Began[n]
            BY <2>2, <2>5, <3>1
        <3>3. Began = Half'
            BY <3>2 DEF Half, Began
        <3>4. QED
            BY <1>1, <1>2, <3>3
    <2>8. RenData'
        <3>1. DOMAIN pending' \subseteq Places /\ \A n \in DOMAIN pending' : pending'[n] \in Names
            BY <2>2, <2>3, RenConsts
        <3>2. renAt' \in {"moving", "done"}
            BY <2>1
        <3>3. QED
            BY <1>1, <1>2, <1>3, <3>1, <3>2 DEF RenInv, RenData
    <2>9. RenBack'
        <3>1. Began \in [Places -> Held \cup {Empty}] /\ Len(done') = 0
            BY <1>1, <1>2 DEF Began
        <3>2. Replay([k \in {0} |-> Began])'
            BY <1>1, <1>2, <3>1 DEF Replay, Began
        <3>3. QED
            BY <3>2 DEF RenBack
    <2>10. RenOne'
        <3>1. ASSUME one', renAt' = "moving"
              PROVE  \E n \in Moving' : DOMAIN pending' = {n} /\ pending'[n] = plan'[n]
            <4>1. PICK n \in Held : DOMAIN plan' = {n}
                BY <1>1, <3>1
            <4>2. Moving' = {n}
                BY <2>1, <3>1, <4>1 DEF Moving
            <4>3. QED
                BY <2>2, <4>2
        <3>2. QED
            BY <1>1, <1>2, <3>1 DEF RenOne
    <2>11. RenKeys'
        BY <1>4, <2>2, <2>3 DEF RenKeys
    <2>12. AllOrNothing'
        <3>1. Moving' = {} => Image' = Began
            BY DEF Image, Began
        <3>2. QED
            BY <1>1, <1>2, <2>1, <3>1 DEF AllOrNothing
    <2>13. QED
        BY <1>4, <2>6, <2>7, <2>8, <2>9, <2>10, <2>11, <2>12 DEF RenInv, RenHalf
<1>7. QED
    BY <1>5, <1>6

\* A rename that is not answered, done or not, of names that hold no key.
LEMMA RenFault ==
    ASSUME RenInv, NEW happened \in BOOLEAN, NEW src \in Places, NEW tgt \in Places, src # tgt,
           {src, tgt} \cap Guarded = {}, Fault(happened, src, tgt)
    PROVE  /\ dir' \in [Places -> Held \cup {Empty}] /\ faults' \in 0..MaxFaults /\ lost' \in 0..MaxLost
           /\ lost' = 0 => dir' = dir /\ lost = 0
           /\ KeysStay'
<1>1. /\ dir \in [Places -> Held \cup {Empty}] /\ faults \in 0..MaxFaults /\ lost \in 0..MaxLost /\ KeysStay
    BY DEF RenInv, RenData, RenKeys
<1>2. CASE happened
    <2>1. /\ faults < MaxFaults /\ faults' = faults + 1 /\ lost < MaxLost /\ lost' = lost + 1
          /\ dir' = Moved(dir, src, tgt)
        BY <1>2 DEF Fault
    <2>2. /\ dir' \in [Places -> Held \cup {Empty}] /\ \A n \in Places \ {src, tgt} : dir'[n] = dir[n]
        BY <1>1, <2>1 DEF Moved
    <2>3. faults' \in 0..MaxFaults /\ lost' \in 0..MaxLost /\ lost' # 0
        BY <1>1, <2>1, RenConsts
    <2>4. KeysStay'
        BY <1>1, <2>2, RenConsts DEF KeysStay
    <2>5. QED
        BY <2>2, <2>3, <2>4
<1>3. CASE ~happened
    <2>1. faults < MaxFaults /\ faults' = faults + 1 /\ lost' = lost /\ dir' = dir
        BY <1>3 DEF Fault
    <2>2. QED
        BY <1>1, <2>1, RenConsts DEF KeysStay
<1>4. QED
    BY <1>2, <1>3

LEMMA RenFailsKeeps ==
    ASSUME RenInv, NEW happened \in BOOLEAN, RenameFails(happened)
    PROVE  RenInv'
<1>1. /\ renAt = "moving" /\ renAt' = IF one THEN "failed" ELSE "undoing"
      /\ UNCHANGED <<plan, one, pending, free, done, restored, stranded>>
    BY DEF RenameFails
<1>2. PICK src, tgt \in Places : Renaming(src, tgt) /\ Fault(happened, src, tgt)
    BY DEF RenameFails
<1>3. src # tgt /\ {src, tgt} \cap Guarded = {}
    BY <1>1, <1>2, RenRoom
<1>4. /\ dir' \in [Places -> Held \cup {Empty}] /\ faults' \in 0..MaxFaults /\ lost' \in 0..MaxLost
      /\ lost' = 0 => dir' = dir /\ lost = 0
      /\ KeysStay'
    BY <1>2, <1>3, RenFault
<1>5. renAt' \in {"failed", "undoing"} /\ (renAt' = "failed" => one)
    BY <1>1
<1>6. RenData' /\ RenKeys'
    BY <1>1, <1>4, <1>5 DEF RenInv, RenData, RenKeys
<1>7. RenBack'
    BY <1>1, <1>4 DEF RenInv, RenBack, Replay
<1>8. AllOrNothing'
    <2>1. ASSUME one, lost' = 0 PROVE dir' = Began
        <3>1. dir' = dir /\ stranded = <<>> /\ lost = 0
            BY <1>1, <1>4, <2>1 DEF RenInv, RenData
        <3>2. PICK ds : Replay(ds)
            BY <1>1, <3>1 DEF RenInv, RenBack
        <3>3. Len(done) = 0
            BY <1>1, <2>1 DEF RenInv, RenOne
        <3>4. QED
            BY <3>1, <3>2, <3>3 DEF Replay
    <2>2. Began' = Began
        BY DEF Began
    <2>3. QED
        BY <1>5, <2>1, <2>2 DEF AllOrNothing
<1>9. NothingReplaced'
    BY <1>1, <1>4 DEF RenInv, NothingReplaced
<1>10. QED
    BY <1>5, <1>6, <1>7, <1>8, <1>9 DEF RenInv, RenPlan, RenHalf, RenOne

\* A step back is taken from the steps done, which named no key.
LEMMA RenLast ==
    ASSUME RenInv, done # <<>>
    PROVE  /\ Last(done).from \in Places /\ Last(done).to \in Places
           /\ {Last(done).from, Last(done).to} \cap Guarded = {}
           /\ Front(done) \in Seq(Steps)
           /\ \A i \in 1..Len(Front(done)) : {Front(done)[i].from, Front(done)[i].to} \cap Guarded = {}
<1> DEFINE n == Len(done)
<1>1. n \in Nat \ {0} /\ done \in Seq(Steps) /\ Last(done) = done[n] /\ n \in 1..n
    BY DEF RenInv, RenData, Last
<1>2. \A i \in 1..n : {done[i].from, done[i].to} \cap Guarded = {}
    BY DEF RenInv, RenKeys
<1>3. done[n] \in Steps
    BY <1>1
<1>4. \A i \in 1..(n - 1) : done[i] \in Steps
    BY <1>1
<1>5. 1 \in Int /\ n - 1 \in Int /\ (n - 1) - 1 + 1 = n - 1 /\ (~(1 <= n - 1) => n - 1 = 0)
      /\ \A k \in 1..(n - 1) : 1 + k - 1 = k /\ k \in 1..n
    <2> HIDE DEF n
    <2>1. 1 \in Int /\ n - 1 \in Int /\ (n - 1) - 1 + 1 = n - 1 /\ (~(1 <= n - 1) => n - 1 = 0)
        BY <1>1
    <2>2. \A k \in 1..(n - 1) : 1 + k - 1 = k /\ k \in 1..n
        BY <1>1
    <2>3. QED
        BY <2>1, <2>2
<1> HIDE DEF n
<1>6. /\ Front(done) = SubSeq(done, 1, n - 1)
    BY DEF Front, n
<1>7. /\ Front(done) \in Seq(Steps) /\ Len(Front(done)) = IF 1 <= n - 1 THEN (n - 1) - 1 + 1 ELSE 0
      /\ \A k \in 1..((n - 1) - 1 + 1) : Front(done)[k] = done[1 + k - 1]
    BY <1>4, <1>5, <1>6, SubSeqProperties
<1>8. Len(Front(done)) = n - 1 /\ \A k \in 1..(n - 1) : Front(done)[k] = done[k]
    BY <1>5, <1>7
<1>9. \A i \in 1..Len(Front(done)) : {Front(done)[i].from, Front(done)[i].to} \cap Guarded = {}
    BY <1>2, <1>5, <1>8
<1>10. Last(done) \in Steps
    BY <1>1, <1>3
<1>11. Last(done).from \in Places /\ Last(done).to \in Places
    BY <1>10 DEF Steps
<1>12. QED
    BY <1>1, <1>2, <1>7, <1>9, <1>11

LEMMA RenUndoKeeps ==
    ASSUME RenInv, RenameUndo
    PROVE  RenInv'
<1> DEFINE src == Last(done).to
           tgt == Last(done).from
<1>1. /\ renAt = "undoing" /\ done # <<>> /\ dir' = Moved(dir, src, tgt) /\ done' = Front(done)
      /\ UNCHANGED <<plan, one, pending, free, stranded, faults, lost, renAt>>
    BY DEF RenameUndo
<1>2. /\ src \in Places /\ tgt \in Places /\ {src, tgt} \cap Guarded = {}
      /\ done' \in Seq(Steps) /\ \A i \in 1..Len(done') : {done'[i].from, done'[i].to} \cap Guarded = {}
    BY <1>1, RenLast
<1> HIDE DEF src, tgt
<1>3. dir \in [Places -> Held \cup {Empty}]
    BY DEF RenInv, RenData
<1>4. dir' \in [Places -> Held \cup {Empty}] /\ \A n \in Places \ {src, tgt} : dir'[n] = dir[n]
    BY <1>1, <1>2, <1>3 DEF Moved
<1>5. RenData'
    BY <1>1, <1>2, <1>4 DEF RenInv, RenData
<1>6. RenKeys'
    <2>1. KeysStay'
        BY <1>2, <1>4, RenConsts DEF RenInv, RenKeys, KeysStay
    <2>2. QED
        BY <1>1, <1>2, <2>1 DEF RenInv, RenKeys
<1>7. ASSUME stranded = <<>>, lost = 0 PROVE RenBack' /\ NothingReplaced'
    <2>1. PICK ds : Replay(ds)
        BY <1>1, <1>7 DEF RenInv, RenBack
    <2>2. /\ \E es : Replay(es)'
          /\ \A f \in Held : (\E n \in Places : dir[n] = f) => \E n \in Places : dir'[n] = f
        BY <1>1, <2>1, RenTakenBack DEF RenInv, src, tgt
    <2>3. QED
        BY <1>7, <2>2 DEF RenInv, RenBack, NothingReplaced
<1>8. RenBack' /\ NothingReplaced'
    BY <1>1, <1>7 DEF RenBack, NothingReplaced
<1>9. AllOrNothing'
    BY <1>1 DEF AllOrNothing
<1>10. QED
    BY <1>1, <1>5, <1>6, <1>8, <1>9 DEF RenInv, RenPlan, RenHalf, RenOne

LEMMA RenUndoFailsKeeps ==
    ASSUME RenInv, NEW happened \in BOOLEAN, RenameUndoFails(happened)
    PROVE  RenInv'
<1> DEFINE src == Last(done).to
           tgt == Last(done).from
<1>1. /\ renAt = "undoing" /\ done # <<>> /\ Fault(happened, src, tgt) /\ done' = Front(done)
      /\ stranded' = Append(stranded, src)
      /\ UNCHANGED <<plan, one, pending, free, restored, renAt>>
    BY DEF RenameUndoFails
<1>2. /\ src \in Places /\ tgt \in Places /\ {src, tgt} \cap Guarded = {}
      /\ done' \in Seq(Steps) /\ \A i \in 1..Len(done') : {done'[i].from, done'[i].to} \cap Guarded = {}
    BY <1>1, RenLast
<1> HIDE DEF src, tgt
<1>3. stranded' \in Seq(Places) /\ stranded' # <<>>
    <2>1. stranded \in Seq(Places)
        BY DEF RenInv, RenData
    <2>2. QED
        BY <1>1, <1>2, <2>1
<1>4. /\ dir' \in [Places -> Held \cup {Empty}] /\ faults' \in 0..MaxFaults /\ lost' \in 0..MaxLost
      /\ \A f \in Guarded \cap Held : dir'[f] = f
    <2>1. /\ dir \in [Places -> Held \cup {Empty}] /\ faults \in 0..MaxFaults /\ lost \in 0..MaxLost
          /\ \A f \in Guarded \cap Held : dir[f] = f
        BY DEF RenInv, RenData, RenKeys, KeysStay
    <2>2. faults < MaxFaults /\ faults' = faults + 1 /\ (lost' = lost \/ (lost < MaxLost /\ lost' = lost + 1))
        <3>1. CASE happened
            BY <1>1, <3>1 DEF Fault
        <3>2. CASE ~happened
            BY <1>1, <3>2 DEF Fault
        <3>3. QED
            BY <3>1, <3>2
    <2>3. dir' = dir \/ dir' = Moved(dir, src, tgt)
        BY <1>1 DEF Fault
    <2>4. /\ dir' \in [Places -> Held \cup {Empty}] /\ \A n \in Places \ {src, tgt} : dir'[n] = dir[n]
        BY <1>2, <2>1, <2>3 DEF Moved
    <2>5. faults' \in 0..MaxFaults /\ lost' \in 0..MaxLost
        BY <2>1, <2>2, RenConsts
    <2>6. QED
        BY <1>2, <2>1, <2>4, <2>5, RenConsts
<1>5. RenData' /\ RenKeys'
    BY <1>1, <1>2, <1>3, <1>4 DEF RenInv, RenData, RenKeys, KeysStay
<1>6. QED
    BY <1>1, <1>3, <1>5
    DEF RenInv, RenPlan, RenHalf, RenBack, RenOne, AllOrNothing, NothingReplaced

LEMMA RenUndoneKeeps ==
    ASSUME RenInv, RenameUndone
    PROVE  RenInv'
<1>1. /\ renAt = "undoing" /\ done = <<>> /\ renAt' = "failed"
      /\ UNCHANGED <<dir, plan, one, pending, free, done, restored, stranded, faults, lost>>
    BY DEF RenameUndone
<1>2. ASSUME stranded = <<>>, lost = 0 PROVE dir = Began
    <2>1. PICK ds : Replay(ds)
        BY <1>1, <1>2 DEF RenInv, RenBack
    <2>2. Len(done) = 0
        BY <1>1
    <2>3. QED
        BY <2>1, <2>2 DEF Replay
<1>3. AllOrNothing'
    BY <1>1, <1>2 DEF AllOrNothing, Began
<1>4. RenData' /\ RenKeys' /\ NothingReplaced'
    BY <1>1 DEF RenInv, RenData, RenKeys, KeysStay, NothingReplaced
<1>5. QED
    BY <1>1, <1>3, <1>4 DEF RenInv, RenPlan, RenHalf, RenBack, RenOne

LEMMA RenStart ==
    ASSUME RenameInit
    PROVE  RenInv
<1>1. dir = Began /\ Began \in [Places -> Held \cup {Empty}]
    BY DEF RenameInit, Began
<1>2. RenData
    <2>1. /\ plan = <<>> /\ one = FALSE /\ pending = <<>> /\ free = {} /\ done = <<>> /\ stranded = <<>>
          /\ faults = 0 /\ lost = 0 /\ renAt = "idle"
        BY DEF RenameInit
    <2>2. DOMAIN plan = {} /\ DOMAIN pending = {}
        BY <2>1
    <2>3. done \in Seq(Steps) /\ stranded \in Seq(Places)
        BY <2>1
    <2>4. faults \in 0..MaxFaults /\ lost \in 0..MaxLost
        BY <2>1, RenConsts
    <2>5. QED
        BY <1>1, <2>1, <2>2, <2>3, <2>4 DEF RenData
<1>3. KeysStay /\ NothingReplaced
    BY <1>1, RenConsts DEF KeysStay, NothingReplaced, Began
<1>4. RenKeys
    BY <1>3 DEF RenameInit, RenKeys
<1>5. QED
    BY <1>2, <1>3, <1>4
    DEF RenInv, RenameInit, RenPlan, RenHalf, RenBack, RenOne, AllOrNothing

LEMMA RenKeeps ==
    ASSUME RenInv, [RenameNext]_renVars
    PROVE  RenInv'
<1>1. CASE RenameNext
    BY <1>1, RenAskKeeps, RenRoundKeeps, RenParkKeeps, RenMoveKeeps, RenFailsKeeps, RenUndoKeeps,
       RenUndoFailsKeeps, RenUndoneKeeps DEF RenameNext
<1>2. CASE UNCHANGED renVars
    <2>1. UNCHANGED <<dir, plan, one, pending, free, done, restored, stranded, faults, lost, renAt>>
        BY <1>2 DEF renVars
    <2>2. Half' = Half /\ Image' = Image /\ RenOne' /\ \A q : Arrived(q)' <=> Arrived(q)
        <3>1. Moving' = Moving /\ Nexts' = Nexts /\ Began' = Began
            BY <2>1 DEF Moving, Nexts, Began
        <3>2. (\A q : Whose(q)' = Whose(q)) /\ \A q : Arrived(q)' <=> Arrived(q)
            BY <2>1, <3>1 DEF Whose, Arrived
        <3>3. Half' = Half /\ Image' = Image
            BY <2>1, <3>1, <3>2 DEF Half, Image
        <3>4. RenOne'
            BY <2>1, <3>1 DEF RenInv, RenOne
        <3>5. QED
            BY <3>2, <3>3, <3>4
    <2>3. RenPlan' /\ RenHalf'
        BY <2>1, <2>2 DEF RenInv, RenPlan, RenHalf, Moving, Nexts, Taken
    <2>4. RenData' /\ RenBack' /\ RenKeys'
        BY <2>1 DEF RenInv, RenData, RenBack, Replay, RenKeys, KeysStay
    <2>5. AllOrNothing' /\ NothingReplaced'
        BY <2>1, <2>2 DEF RenInv, AllOrNothing, NothingReplaced
    <2>6. QED
        BY <2>2, <2>3, <2>4, <2>5 DEF RenInv
<1>3. QED
    BY <1>1, <1>2

LEMMA RenHolds ==
    ASSUME RenInv
    PROVE  AllOrNothing /\ NothingReplaced /\ KeysStay
BY DEF RenInv, RenKeys

LEMMA RenTyped ==
    ASSUME RenInv
    PROVE  RenameTypeOK
<1>1. \A i \in DOMAIN done : done[i] \in [from : Places, to : Places]
    <2>1. done \in Seq(Steps)
        BY DEF RenInv, RenData
    <2>2. \A i \in DOMAIN done : done[i] \in Steps
        BY ONLY <2>1
    <2>3. QED
        BY <2>2 DEF Steps
<1>2. faults <= MaxFaults /\ lost <= MaxLost
    BY RenConsts DEF RenInv, RenData
<1>3. QED
    BY <1>1, <1>2 DEF RenInv, RenData, RenameTypeOK

\* A batch of renames, whatever its pattern, is the whole simultaneous renaming
\* or leaves every name as it was, replaces nobody's file and never moves key
\* material.
THEOREM RenamesAlwaysWhole == RenameSpec => [](AllOrNothing /\ NothingReplaced /\ KeysStay)
<1>1. RenameInit => RenInv
    BY RenStart
<1>2. RenInv /\ [RenameNext]_renVars => RenInv'
    BY RenKeeps
<1>3. RenInv => AllOrNothing /\ NothingReplaced /\ KeysStay
    BY RenHolds
<1>4. QED
    BY <1>1, <1>2, <1>3, PTL DEF RenameSpec

\* A behaviour of the handlers of files is, to the renames, one of theirs.
THEOREM PartsRenameWhole == PartSpec => []RenamesAreWhole
<1> DEFINE all == <<tailVars, renVars, delVars, permVars, uplVars, downVars, cmpVars, part>>
<1>1. PartInit => RenInv
    BY RenStart DEF PartInit
<1>2. RenInv /\ [PartNext]_all => RenInv'
    <2>1. [PartNext]_all => [RenameNext]_renVars
        BY DEF PartNext
    <2>2. QED
        BY <2>1, RenKeeps
<1>3. RenInv => RenamesAreWhole
    BY RenHolds DEF RenamesAreWhole
<1>4. QED
    BY <1>1, <1>2, <1>3, PTL DEF PartSpec

-----------------------------------------------------------------------------
(* Permissions.                                                            *)

PermModes == NewModes \cup {Was[n] : n \in PermNodes} \cup {Unknown}

PermData ==
    /\ mode \in [PermNodes -> PermModes] /\ gone \subseteq PermNodes /\ asRoot \in BOOLEAN
    /\ stage \in {"idle", "apply", "recorded", "thrown", "undo", "undone"}
    /\ ask.paths \subseteq PermNodes /\ (stage = "apply" => ask.mode \in NewModes)
    /\ pathsLeft \subseteq ask.paths /\ targetsLeft \subseteq DOMAIN before \ Locked
    /\ DOMAIN before \subseteq PermNodes /\ \A n \in DOMAIN before : before[n] \in PermModes
    /\ rows \in Seq([path : PermNodes, mode : PermModes])
    /\ changed \subseteq PermNodes \ Locked
    /\ undo \subseteq DOMAIN rows /\ undos \in 0..MaxUndos
    /\ stage = "idle" => targetsLeft = {} /\ changed = {}
    /\ stage # "undo" => undo = {}

\* Only what was changed has another mode, and the rows cover that.
PermRows ==
    /\ \A n \in PermNodes \ changed : mode[n] = Was[n]
    /\ stage # "thrown" =>
        /\ {rows[i].path : i \in DOMAIN rows} = changed
        /\ \A n \in changed \ OutOfReach : \E i \in DOMAIN rows : rows[i] = Row(n, Was[n])

\* Nothing of an entry is yet to be changed for the first time.
Settled(n) == n \in changed \cup Locked \/ ~Exists(n)

\* What is about to be changed for the first time was read before anything was
\* done to it.
PermFirst ==
    stage = "apply" =>
        \A n \in targetsLeft \ (changed \cup OutOfReach) : Exists(n) => before[n] = Was[n]

\* A walk is taken from below: nothing is under a directory that was changed but
\* what was settled, and what is under the path being changed was walked.
PermBelow ==
    stage = "apply" /\ ask.recursive =>
        \A n \in PermNodes \ OutOfReach : PermAbove[n] \cap changed # {} => Settled(n)

PermWalk ==
    stage = "apply" /\ ask.recursive /\ targetsLeft # {} =>
        /\ DOMAIN before \subseteq targetsLeft \cup changed \cup Locked
        /\ \A n \in PermNodes \ OutOfReach :
            PermAbove[n] \cap DOMAIN before # {} => n \in DOMAIN before \/ Settled(n)

\* A row that the undo is past has its entry as it was.
PermUndone ==
    stage \in {"undo", "undone"} /\ failed = {} /\ Once =>
        \A i \in DOMAIN rows \ undo :
            rows[i].path \notin OutOfReach => mode[rows[i].path] = Was[rows[i].path]

PermInv == PermData /\ PermRows /\ PermFirst /\ PermBelow /\ PermWalk /\ PermUndone

LEMMA PermConsts ==
    /\ PermTop \in PermNodes /\ \A n \in PermNodes \ {PermTop} : PermParent[n] \in PermNodes
    /\ Was \in [PermNodes -> {Was[n] : n \in PermNodes}] /\ MaxUndos \in Nat
<1>1. Was \in [PermNodes -> {Was[n] : n \in PermNodes}]
    <2> DEFINE F == [n \in PermNodes |-> Was[n]]
    <2>1. F \in [PermNodes -> {Was[n] : n \in PermNodes}]
        OBVIOUS
    <2>2. F = Was
        BY PermissionAssumption
    <2> HIDE DEF F
    <2>3. QED
        BY <2>1, <2>2
<1>2. QED
    BY <1>1, PermissionAssumption

LEMMA PermRowIs ==
    ASSUME PermInv, NEW i \in DOMAIN rows
    PROVE  rows[i].path \in PermNodes /\ rows[i].mode \in PermModes
<1>1. rows \in Seq([path : PermNodes, mode : PermModes]) /\ i \in 1..Len(rows)
    BY DEF PermInv, PermData
<1>2. rows[i] \in [path : PermNodes, mode : PermModes]
    BY <1>1, ElementOfSeq
<1>3. QED
    BY <1>2

\* A set that has what holds n, and what holds its own members, has what is
\* above n.
LEMMA AncestorsIn ==
    ASSUME NEW nodes, NEW top, NEW parent, NEW n \in nodes, NEW S \in SUBSET nodes,
           Holds(S, n, top, parent), \A m \in S : Holds(S, m, top, parent)
    PROVE  Ancestors(nodes, top, parent)[n] \subseteq S
BY DEF Ancestors

\* Above what is above.
LEMMA AncestorsChain ==
    ASSUME NEW nodes, NEW top, NEW parent, NEW a \in nodes, NEW b \in nodes, NEW c \in nodes,
           a \in Ancestors(nodes, top, parent)[b], b \in Ancestors(nodes, top, parent)[c]
    PROVE  a \in Ancestors(nodes, top, parent)[c]
<1>1. ASSUME NEW S \in SUBSET nodes, Holds(S, c, top, parent), \A m \in S : Holds(S, m, top, parent)
      PROVE  a \in S
    <2>1. b \in S
        BY <1>1, AncestorsIn
    <2>2. Holds(S, b, top, parent)
        BY <1>1, <2>1
    <2>3. QED
        BY <1>1, <2>2, AncestorsIn
<1>2. QED
    BY <1>1 DEF Ancestors

\* A walk does not miss what it could reach, and what it could not reach is
\* settled.
LEMMA PermHeld ==
    ASSUME PermInv, stage = "apply", ask.recursive, NEW n \in PermNodes \ OutOfReach, ~Reached(n)
    PROVE  Settled(n)
<1>1. PICK d \in PermAbove[n] : mode[d] = Shut
    BY DEF Reached
<1>2. d \in PermNodes /\ Was[d] # Shut
    BY <1>1 DEF PermAbove, Ancestors, OutOfReach
<1>3. d \in changed
    BY <1>1, <1>2 DEF PermInv, PermRows
<1>4. QED
    BY <1>1, <1>3 DEF PermInv, PermBelow

LEMMA PermPathKeeps ==
    ASSUME PermInv, PermPath
    PROVE  PermInv'
<1>1. /\ stage = "apply" /\ targetsLeft = {}
      /\ UNCHANGED <<mode, gone, asRoot, stage, ask, rows, changed, undo, undone, failed, undos>>
    BY DEF PermPath, undoVars
<1>2. PICK p \in pathsLeft :
        /\ pathsLeft' = pathsLeft \ {p}
        /\ \/ p \in Locked /\ UNCHANGED <<targetsLeft, before>>
           \/ /\ p \notin Locked
              /\ ask.recursive \/ (Exists(p) /\ Reached(p))
              /\ LET targets == IF ask.recursive THEN Walked(p) ELSE {p}
                 IN  /\ before' = [n \in targets |-> IF Exists(n) /\ Reached(n) THEN mode[n] ELSE Unknown]
                     /\ targetsLeft' = targets \ Locked
    BY DEF PermPath
<1>3. p \in PermNodes
    BY <1>2 DEF PermInv, PermData
<1>4. PermRows'
    BY <1>1 DEF PermInv, PermRows
<1>5. PermBelow' /\ \A n : Settled(n)' <=> Settled(n)
    BY <1>1 DEF PermInv, PermBelow, Settled, Exists
<1>6. PermUndone'
    BY <1>1 DEF PermUndone
<1>7. CASE p \in Locked /\ UNCHANGED <<targetsLeft, before>>
    <2>1. PermData'
        BY <1>1, <1>2, <1>7 DEF PermInv, PermData
    <2>2. PermFirst' /\ PermWalk'
        BY <1>1, <1>7 DEF PermFirst, PermWalk
    <2>3. QED
        BY <1>4, <1>5, <1>6, <2>1, <2>2 DEF PermInv
<1>8. CASE p \notin Locked /\ (ask.recursive \/ (Exists(p) /\ Reached(p)))
    <2> DEFINE targets == IF ask.recursive THEN Walked(p) ELSE {p}
    <2>1. /\ before' = [n \in targets |-> IF Exists(n) /\ Reached(n) THEN mode[n] ELSE Unknown]
          /\ targetsLeft' = targets \ Locked
        BY <1>2, <1>8
    <2>2. targets \subseteq PermNodes
        BY <1>3 DEF Walked
    <2>3. \A n \in targets : before'[n] = IF Exists(n) /\ Reached(n) THEN mode[n] ELSE Unknown
        BY <2>1
    <2>4. DOMAIN before' = targets
        BY <2>1
    <2> HIDE DEF targets
    <2>5. PermData'
        <3>1. \A n \in targets : before'[n] \in PermModes
            BY <2>2, <2>3 DEF PermInv, PermData, PermModes
        <3>2. QED
            BY <1>1, <1>2, <2>1, <2>2, <2>4, <3>1 DEF PermInv, PermData
    <2>6. PermFirst'
        <3>1. ASSUME NEW n \in targets \ Locked, n \notin changed \cup OutOfReach, Exists(n)
              PROVE  before'[n] = Was[n]
            <4>1. n \in PermNodes /\ mode[n] = Was[n]
                BY <2>2, <3>1 DEF PermInv, PermRows
            <4>2. Reached(n)
                <5>1. CASE ask.recursive
                    BY <1>1, <3>1, <4>1, <5>1, PermHeld DEF Settled
                <5>2. CASE ~ask.recursive
                    BY <1>8, <3>1, <5>2 DEF targets
                <5>3. QED
                    BY <5>1, <5>2
            <4>3. QED
                BY <2>3, <3>1, <4>1, <4>2
        <3>2. QED
            BY <1>1, <2>1, <3>1 DEF PermFirst, Exists
    <2>7. PermWalk'
        <3>1. ASSUME ask.recursive, NEW n \in PermNodes \ OutOfReach, NEW d \in PermAbove[n], d \in targets
              PROVE  n \in targets \/ Settled(n)
            <4>1. d = p \/ p \in PermAbove[d]
                BY <3>1 DEF targets, Walked
            <4>2. p \in PermAbove[n]
                BY <1>3, <2>2, <3>1, <4>1, AncestorsChain DEF PermAbove
            <4>3. Exists(n) /\ Reached(n) => n \in targets
                BY <3>1, <4>2 DEF targets, Walked
            <4>4. ~Reached(n) => Settled(n)
                BY <1>1, <3>1, PermHeld
            <4>5. ~Exists(n) => Settled(n)
                BY DEF Settled
            <4>6. QED
                BY <4>3, <4>4, <4>5
        <3>2. ASSUME ask.recursive, NEW n \in PermNodes \ OutOfReach, PermAbove[n] \cap targets # {}
              PROVE  n \in targets \/ Settled(n)
            BY <3>1, <3>2
        <3>3. QED
            BY <1>1, <1>5, <2>1, <2>4, <3>2 DEF PermWalk
    <2>8. QED
        BY <1>4, <1>5, <1>6, <2>5, <2>6, <2>7 DEF PermInv
<1>9. QED
    BY <1>2, <1>7, <1>8

LEMMA PermEntryKeeps ==
    ASSUME PermInv, PermEntry
    PROVE  PermInv'
<1>1. /\ stage = "apply" /\ stage' = "apply"
      /\ UNCHANGED <<gone, asRoot, ask, pathsLeft, before, undo, undone, failed, undos>>
    BY DEF PermEntry, undoVars
<1>2. PICK n \in Lowest :
        \/ /\ Changeable(n)
           /\ mode' = [mode EXCEPT ![n] = ask.mode]
           /\ rows' = Append(rows, Snapshot(n))
           /\ changed' = changed \cup {n}
           /\ targetsLeft' = targetsLeft \ {n}
        \/ /\ ~Changeable(n)
           /\ targetsLeft' = {}
           /\ UNCHANGED <<mode, rows, changed>>
    BY DEF PermEntry
<1>3. n \in targetsLeft /\ n \in DOMAIN before /\ n \in PermNodes \ Locked /\ \A m \in targetsLeft : n \notin PermAbove[m]
    BY DEF PermInv, PermData, Lowest
<1>4. \A m : Exists(m)' <=> Exists(m)
    BY <1>1 DEF Exists
<1>5. CASE ~Changeable(n) /\ targetsLeft' = {} /\ UNCHANGED <<mode, rows, changed>>
    <2>1. PermData'
        BY <1>1, <1>5 DEF PermInv, PermData
    <2>2. PermRows' /\ PermFirst' /\ PermWalk' /\ PermUndone'
        BY <1>1, <1>5 DEF PermInv, PermRows, PermFirst, PermWalk, PermUndone
    <2>3. PermBelow'
        BY <1>1, <1>4, <1>5 DEF PermInv, PermBelow, Settled
    <2>4. QED
        BY <2>1, <2>2, <2>3 DEF PermInv
<1>6. CASE /\ Changeable(n)
           /\ mode' = [mode EXCEPT ![n] = ask.mode]
           /\ rows' = Append(rows, Snapshot(n))
           /\ changed' = changed \cup {n}
           /\ targetsLeft' = targetsLeft \ {n}
    <2>1. /\ mode \in [PermNodes -> PermModes] /\ before[n] \in PermModes /\ ask.mode \in PermModes
          /\ rows \in Seq([path : PermNodes, mode : PermModes])
        BY <1>1, <1>3 DEF PermInv, PermData, PermModes
    <2>2. mode' \in [PermNodes -> PermModes] /\ \A m \in PermNodes \ {n} : mode'[m] = mode[m]
        BY <1>6, <2>1
    <2>3. /\ rows' \in Seq([path : PermNodes, mode : PermModes]) /\ Len(rows) \in Nat
          /\ DOMAIN rows' = DOMAIN rows \cup {Len(rows) + 1} /\ rows'[Len(rows) + 1] = Snapshot(n)
          /\ \A i \in DOMAIN rows : rows'[i] = rows[i]
        <3>1. Snapshot(n) \in [path : PermNodes, mode : PermModes]
            BY <1>3, <2>1 DEF Snapshot, Row
        <3>2. QED
            BY <1>6, <2>1, <3>1
    <2>4. PermData'
        <3>1. undo' \subseteq DOMAIN rows'
            BY <1>1, <2>3 DEF PermInv, PermData
        <3>2. QED
            BY <1>1, <1>3, <1>6, <2>2, <2>3, <3>1 DEF PermInv, PermData
    <2>5. PermRows'
        <3>1. {rows'[i].path : i \in DOMAIN rows'} = {rows[i].path : i \in DOMAIN rows} \cup {n}
            BY <2>3 DEF Snapshot, Row
        <3>2. {rows'[i].path : i \in DOMAIN rows'} = changed'
            BY <1>1, <1>6, <3>1 DEF PermInv, PermRows
        <3>3. ASSUME NEW m \in changed' \ OutOfReach PROVE \E i \in DOMAIN rows' : rows'[i] = Row(m, Was[m])
            <4>1. CASE m \in changed
                <5>1. PICK i \in DOMAIN rows : rows[i] = Row(m, Was[m])
                    BY <1>1, <3>3, <4>1 DEF PermInv, PermRows
                <5>2. QED
                    BY <2>3, <5>1
            <4>2. CASE m \notin changed
                <5>1. m = n /\ Exists(n)
                    BY <1>6, <3>3, <4>2 DEF Changeable
                <5>2. before[n] = Was[n]
                    BY <1>1, <1>3, <3>3, <4>2, <5>1 DEF PermInv, PermFirst
                <5>3. rows'[Len(rows) + 1] = Row(m, Was[m])
                    BY <2>3, <5>1, <5>2 DEF Snapshot
                <5>4. QED
                    BY <2>3, <5>3
            <4>3. QED
                BY <4>1, <4>2
        <3>4. \A m \in PermNodes \ changed' : mode'[m] = Was[m]
            BY <1>6, <2>2 DEF PermInv, PermRows
        <3>5. QED
            BY <3>2, <3>3, <3>4 DEF PermRows
    <2>6. PermFirst'
        BY <1>1, <1>4, <1>6 DEF PermInv, PermFirst
    <2>7. \A m : Settled(m) => Settled(m)'
        BY <1>4, <1>6 DEF Settled
    <2>8. PermBelow'
        <3>1. ASSUME ask.recursive, NEW m \in PermNodes \ OutOfReach, n \in PermAbove[m] PROVE Settled(m)
            <4>1. m \notin targetsLeft
                BY <1>3, <3>1
            <4>2. m \in DOMAIN before \/ Settled(m)
                BY <1>1, <1>3, <3>1 DEF PermInv, PermWalk
            <4>3. m \in DOMAIN before => m \in changed \cup Locked
                BY <1>1, <1>3, <3>1, <4>1 DEF PermInv, PermWalk
            <4>4. QED
                BY <4>2, <4>3 DEF Settled
        <3>2. ASSUME ask.recursive, NEW m \in PermNodes \ OutOfReach, PermAbove[m] \cap changed # {} PROVE Settled(m)
            BY <1>1, <3>2 DEF PermInv, PermBelow
        <3>3. QED
            BY <1>1, <1>6, <2>7, <3>1, <3>2 DEF PermBelow
    <2>9. PermWalk'
        BY <1>1, <1>6, <2>7 DEF PermInv, PermWalk
    <2>10. PermUndone'
        BY <1>1 DEF PermUndone
    <2>11. QED
        BY <2>4, <2>5, <2>6, <2>8, <2>9, <2>10 DEF PermInv
<1>7. QED
    BY <1>2, <1>5, <1>6

LEMMA PermUndoKeeps ==
    ASSUME PermInv, UndoEntry
    PROVE  PermInv'
<1>1. /\ stage = "undo" /\ stage' = "undo"
      /\ UNCHANGED <<gone, asRoot, rows, ask, pathsLeft, targetsLeft, before, changed, undos>>
    BY DEF UndoEntry, opVars
<1>2. PICK i \in undo :
        /\ undo' = undo \ {i}
        /\ \/ /\ Changeable(rows[i].path)
              /\ mode' = [mode EXCEPT ![rows[i].path] = rows[i].mode]
              /\ undone' = undone \cup {i} /\ UNCHANGED failed
           \/ /\ ~Changeable(rows[i].path)
              /\ failed' = failed \cup {i} /\ UNCHANGED <<mode, undone>>
    BY DEF UndoEntry
<1>3. /\ i \in DOMAIN rows /\ rows[i].path \in PermNodes /\ rows[i].mode \in PermModes /\ rows[i].path \in changed
    <2>1. i \in DOMAIN rows
        BY DEF PermInv, PermData
    <2>2. rows[i].path \in changed
        BY <1>1, <2>1 DEF PermInv, PermRows
    <2>3. QED
        BY <2>1, <2>2, PermRowIs
<1>4. /\ mode' \in [PermNodes -> PermModes] /\ \A n \in PermNodes \ {rows[i].path} : mode'[n] = mode[n]
    BY <1>2, <1>3 DEF PermInv, PermData
<1>5. PermData'
    BY <1>1, <1>2, <1>3, <1>4 DEF PermInv, PermData
<1>6. PermRows'
    <2>1. \A n \in PermNodes \ changed : mode'[n] = Was[n]
        BY <1>3, <1>4 DEF PermInv, PermRows
    <2>2. QED
        BY <1>1, <2>1 DEF PermInv, PermRows
<1>7. PermUndone'
    <2>1. ASSUME failed' = {}, Once, NEW j \in DOMAIN rows \ undo', rows[j].path \notin OutOfReach
          PROVE  mode'[rows[j].path] = Was[rows[j].path]
        <3>1. failed = {} /\ mode' = [mode EXCEPT ![rows[i].path] = rows[i].mode]
            BY <1>2, <2>1
        <3>2. CASE j = i
            <4>1. PICK k \in DOMAIN rows : rows[k] = Row(rows[i].path, Was[rows[i].path])
                BY <1>1, <1>3, <2>1, <3>2 DEF PermInv, PermRows
            <4>2. k = i
                BY <1>3, <2>1, <4>1 DEF Once, Row
            <4>3. rows[i].mode = Was[rows[i].path]
                BY <4>1, <4>2 DEF Row
            <4>4. mode'[rows[i].path] = rows[i].mode
                BY <1>3, <3>1 DEF PermInv, PermData
            <4>5. QED
                BY <3>2, <4>3, <4>4
        <3>3. CASE j # i
            <4>1. j \in DOMAIN rows \ undo /\ rows[j].path # rows[i].path
                BY <1>2, <1>3, <2>1, <3>3 DEF Once
            <4>2. mode[rows[j].path] = Was[rows[j].path]
                BY <1>1, <2>1, <3>1, <4>1 DEF PermInv, PermUndone
            <4>3. rows[j].path \in PermNodes
                BY <2>1, PermRowIs
            <4>4. QED
                BY <1>4, <4>1, <4>2, <4>3
        <3>4. QED
            BY <3>2, <3>3
    <2>2. QED
        BY <1>1, <2>1 DEF PermUndone, Once
<1>8. QED
    BY <1>1, <1>5, <1>6, <1>7 DEF PermInv, PermFirst, PermBelow, PermWalk

\* The other steps leave the modes and what was recorded of them.
LEMMA PermRestKeeps ==
    ASSUME PermInv,
           PermAsk \/ PermThrow \/ PermAnswer \/ PermCrash \/ UndoAsk \/ UndoAnswer \/ PermGone \/ PermWindowEnds
    PROVE  PermInv'
<1>1. CASE PermAsk
    <2>1. /\ stage = "idle" /\ stage' = "apply"
          /\ UNCHANGED <<mode, gone, asRoot, targetsLeft, before, rows, changed, undo, undone, failed, undos>>
          /\ ask'.paths \subseteq PermNodes /\ ask'.mode \in NewModes /\ pathsLeft' \subseteq ask'.paths
        BY <1>1 DEF PermAsk, undoVars
    <2>2. targetsLeft = {} /\ changed = {}
        BY <2>1 DEF PermInv, PermData
    <2>3. PermData' /\ PermRows'
        BY <2>1, <2>2 DEF PermInv, PermData, PermRows
    <2>4. PermFirst' /\ PermBelow' /\ PermWalk' /\ PermUndone'
        BY <2>1, <2>2 DEF PermFirst, PermBelow, PermWalk, PermUndone
    <2>5. QED
        BY <2>3, <2>4 DEF PermInv
<1>2. CASE PermThrow \/ PermCrash
    <2>1. /\ stage = "apply" /\ stage' = "thrown" /\ rows' = <<>> /\ asRoot' \in BOOLEAN
          /\ UNCHANGED <<mode, gone, ask, pathsLeft, targetsLeft, before, changed, undo, undone, failed, undos>>
        BY <1>2 DEF PermThrow, PermCrash, opVars, undoVars, PermInv, PermData
    <2>2. QED
        BY <2>1 DEF PermInv, PermData, PermRows, PermFirst, PermBelow, PermWalk, PermUndone
<1>3. CASE PermAnswer
    <2>1. /\ stage = "apply" /\ stage' = "recorded"
          /\ UNCHANGED <<mode, gone, asRoot, rows, ask, pathsLeft, targetsLeft, before, changed, undo, undone, failed, undos>>
        BY <1>3 DEF PermAnswer, opVars, undoVars
    <2>2. QED
        BY <2>1 DEF PermInv, PermData, PermRows, PermFirst, PermBelow, PermWalk, PermUndone
<1>4. CASE UndoAsk
    <2>1. /\ stage \in {"recorded", "undone"} /\ stage' = "undo" /\ undo' = DOMAIN rows /\ failed' = {}
          /\ undos < MaxUndos /\ undos' = undos + 1
          /\ UNCHANGED <<mode, gone, asRoot, rows, ask, pathsLeft, targetsLeft, before, changed>>
        BY <1>4 DEF UndoAsk, opVars
    <2>2. undos' \in 0..MaxUndos
        BY <2>1, PermConsts DEF PermInv, PermData
    <2>3. PermData' /\ PermRows'
        BY <2>1, <2>2 DEF PermInv, PermData, PermRows
    <2>4. QED
        BY <2>1, <2>3 DEF PermInv, PermFirst, PermBelow, PermWalk, PermUndone
<1>5. CASE UndoAnswer
    <2>1. /\ stage = "undo" /\ undo = {} /\ stage' = "undone"
          /\ UNCHANGED <<mode, gone, asRoot, rows, ask, pathsLeft, targetsLeft, before, changed, undo, undone, failed, undos>>
        BY <1>5 DEF UndoAnswer, opVars, undoVars
    <2>2. PermUndone'
        BY <2>1 DEF PermInv, PermUndone, Once
    <2>3. QED
        BY <2>1, <2>2 DEF PermInv, PermData, PermRows, PermFirst, PermBelow, PermWalk
<1>6. CASE PermGone \/ PermWindowEnds
    <2>1. /\ gone \subseteq gone' /\ gone' \subseteq PermNodes /\ asRoot' \in BOOLEAN
          /\ UNCHANGED <<mode, stage, rows, ask, pathsLeft, targetsLeft, before, changed, undo, undone, failed, undos>>
        BY <1>6 DEF PermGone, PermWindowEnds, opVars, undoVars, PermInv, PermData
    <2>2. \A n : (Exists(n)' => Exists(n)) /\ (Settled(n) => Settled(n)')
        BY <2>1 DEF Exists, Settled
    <2>3. PermData' /\ PermRows'
        BY <2>1 DEF PermInv, PermData, PermRows
    <2>4. PermFirst' /\ PermBelow' /\ PermWalk'
        BY <2>1, <2>2 DEF PermInv, PermFirst, PermBelow, PermWalk
    <2>5. PermUndone'
        BY <2>1 DEF PermInv, PermUndone, Once
    <2>6. QED
        BY <2>3, <2>4, <2>5 DEF PermInv
<1>7. QED
    BY <1>1, <1>2, <1>3, <1>4, <1>5, <1>6

LEMMA PermStart ==
    ASSUME PermInit
    PROVE  PermInv
<1>1. /\ mode = Was /\ gone = {} /\ asRoot \in BOOLEAN /\ stage = "idle"
      /\ ask.paths = {} /\ pathsLeft = {} /\ targetsLeft = {} /\ DOMAIN before = {}
      /\ rows = <<>> /\ changed = {} /\ undo = {} /\ failed = {} /\ undos = 0
    BY DEF PermInit
<1>2. Was \in [PermNodes -> PermModes]
    BY PermConsts DEF PermModes
<1>3. PermData
    <2>1. rows \in Seq([path : PermNodes, mode : PermModes]) /\ undos \in 0..MaxUndos
        BY <1>1, PermConsts
    <2>2. QED
        BY <1>1, <1>2, <2>1 DEF PermData
<1>4. PermRows
    BY <1>1 DEF PermRows
<1>5. QED
    BY <1>1, <1>3, <1>4 DEF PermInv, PermFirst, PermBelow, PermWalk, PermUndone

LEMMA PermKeeps ==
    ASSUME PermInv, [PermNext]_permVars
    PROVE  PermInv'
<1>1. CASE PermNext
    BY <1>1, PermPathKeeps, PermEntryKeeps, PermUndoKeeps, PermRestKeeps DEF PermNext
<1>2. CASE UNCHANGED permVars
    <2>1. UNCHANGED <<mode, gone, asRoot, stage, ask, pathsLeft, targetsLeft, before, rows, changed,
                      undo, undone, failed, undos>>
        BY <1>2 DEF permVars
    <2>2. PermData' /\ PermRows' /\ PermUndone'
        BY <2>1 DEF PermInv, PermData, PermRows, PermUndone, Once
    <2>3. PermFirst' /\ PermBelow' /\ PermWalk'
        BY <2>1 DEF PermInv, PermFirst, PermBelow, PermWalk, Settled, Exists
    <2>4. QED
        BY <2>2, <2>3 DEF PermInv
<1>3. QED
    BY <1>1, <1>2

LEMMA PermHolds ==
    ASSUME PermInv
    PROVE  PermTypeOK /\ SnapshotsAreWhole /\ UndoRestores
<1>1. SnapshotsAreWhole
    BY DEF PermInv, PermData, PermRows, SnapshotsAreWhole
<1>2. UndoRestores
    <2>1. ASSUME stage = "undone", failed = {}, Once, NEW n \in PermNodes \ OutOfReach
          PROVE  mode[n] = Was[n]
        <3>1. CASE n \notin changed
            BY <3>1 DEF PermInv, PermRows
        <3>2. CASE n \in changed
            <4>1. PICK i \in DOMAIN rows : rows[i].path = n
                BY <2>1, <3>2 DEF PermInv, PermRows
            <4>2. undo = {}
                BY <2>1 DEF PermInv, PermData
            <4>3. QED
                BY <2>1, <4>1, <4>2 DEF PermInv, PermUndone
        <3>3. QED
            BY <3>1, <3>2
    <2>2. QED
        BY <2>1 DEF UndoRestores
<1>3. PermTypeOK
    <2>1. \A i \in DOMAIN rows : rows[i].path \in PermNodes
        BY PermRowIs
    <2>2. undos <= MaxUndos
        BY PermConsts DEF PermInv, PermData
    <2>3. QED
        BY <2>1, <2>2 DEF PermInv, PermData, PermModes, PermTypeOK
<1>4. QED
    BY <1>1, <1>2, <1>3

\* A change of modes is recorded as it was before, whatever fails and whatever
\* root had to do, and an undo of all of it restores every mode.
THEOREM ModesAlwaysUndone == PermSpec => [](PermTypeOK /\ SnapshotsAreWhole /\ UndoRestores)
<1>1. PermInit => PermInv
    BY PermStart
<1>2. PermInv /\ [PermNext]_permVars => PermInv'
    BY PermKeeps
<1>3. PermInv => PermTypeOK /\ SnapshotsAreWhole /\ UndoRestores
    BY PermHolds
<1>4. QED
    BY <1>1, <1>2, <1>3, PTL DEF PermSpec

\* A behaviour of the handlers of files is, to the permissions, one of theirs.
THEOREM PartsUndoModes == PartSpec => []ModesAreUndone
<1> DEFINE all == <<tailVars, renVars, delVars, permVars, uplVars, downVars, cmpVars, part>>
<1>1. PartInit => PermInv
    BY PermStart DEF PartInit
<1>2. PermInv /\ [PartNext]_all => PermInv'
    <2>1. [PartNext]_all => [PermNext]_permVars
        BY DEF PartNext
    <2>2. QED
        BY <2>1, PermKeeps
<1>3. PermInv => ModesAreUndone
    BY PermHolds DEF ModesAreUndone
<1>4. QED
    BY <1>1, <1>2, <1>3, PTL DEF PartSpec
-----------------------------------------------------------------------------
(* Deletions.                                                              *)

\* What any request has taken off the tree.
Rmd == UNION {removed[q] : q \in Requests}

\* A request that may have removed something; the paths whose survey it goes by.
Begun == {"remove", "answered", "failed"}
Known(q) == IF phase[q] = "survey" THEN asked[q] \ todo[q] ELSE IF phase[q] \in Begun THEN asked[q] ELSE {}

DelData ==
    /\ tree \subseteq Nodes /\ sudo \in BOOLEAN
    /\ phase \in [Requests -> {"idle", "survey", "refused", "remove", "answered", "failed"}]
    /\ asked \in [Requests -> SUBSET Nodes] /\ todo \in [Requests -> SUBSET Nodes]
    /\ surveyed \in [Requests -> [Nodes -> [root : Nodes, walk : SUBSET Nodes]]]
    /\ target \in [Requests -> Nodes] /\ rest \in [Requests -> SUBSET Nodes]
    /\ refused \in [Requests -> SUBSET Nodes] /\ removed \in [Requests -> SUBSET Nodes]
    /\ outcome \in [Requests -> [Nodes -> [ok : BOOLEAN, entries : SUBSET Nodes, elevated : SUBSET Nodes]]]

\* What was removed stays away, and what is there is in a directory that is.
DelHost ==
    /\ tree \cap Rmd = {}
    /\ \A n \in tree \ {TopDir} : ParentOf[n] \in tree

\* Before the removals there is nothing to report.
DelQuiet(q) ==
    phase[q] \notin Begun =>
        /\ removed[q] = {} /\ rest[q] = {} /\ refused[q] = {}
        /\ \A p \in Nodes : outcome[q][p].entries = {}

\* A survey that was taken has its root, and nothing protected.
DelWalks(q) ==
    \A p \in Known(q) :
        surveyed[q][p].root \in surveyed[q][p].walk /\ surveyed[q][p].walk \cap (Denied \cup Barred) = {}

\* What is left is of the path being removed; one entry at most waits for root.
DelTarget(q) ==
    /\ todo[q] \subseteq asked[q]
    /\ rest[q] \cup refused[q] \subseteq surveyed[q][target[q]].walk
    /\ rest[q] \cup refused[q] # {} => phase[q] = "remove" /\ target[q] \in asked[q] \ todo[q]
    /\ refused[q] \subseteq tree \cup Rmd
    /\ \A n, m \in refused[q] : n = m
    /\ phase[q] \in {"answered", "failed"} => todo[q] = {}

\* An entry is reported once, when it is gone.
DelCounted(q) ==
    /\ removed[q] \subseteq UNION {surveyed[q][p].walk : p \in asked[q]}
    /\ removed[q] \subseteq UNION {outcome[q][p].entries : p \in asked[q]}
    /\ \A p \in asked[q] :
        /\ outcome[q][p].entries \subseteq Rmd \cap (removed[q] \cup outcome[q][p].elevated)
        /\ outcome[q][p].entries \cap refused[q] = {}
    /\ \A p, k \in asked[q] : p # k => outcome[q][p].entries \cap outcome[q][k].entries = {}

\* A path that is past, and did not fail, is gone.
DelDone(q) ==
    phase[q] \in Begun =>
        \A p \in asked[q] \ todo[q] : outcome[q][p].ok =>
            \/ surveyed[q][p].root \in Rmd
            \/ p = target[q] /\ surveyed[q][p].root \in rest[q] \cup refused[q]

DelOwn(q) == DelQuiet(q) /\ DelWalks(q) /\ DelTarget(q) /\ DelCounted(q) /\ DelDone(q)

DelInv == DelData /\ DelHost /\ \A q \in Requests : DelOwn(q)

\* What the others have of a request does not matter to it.
Untouched(k) ==
    /\ phase'[k] = phase[k] /\ asked'[k] = asked[k] /\ todo'[k] = todo[k] /\ surveyed'[k] = surveyed[k]
    /\ target'[k] = target[k] /\ rest'[k] = rest[k] /\ refused'[k] = refused[k]
    /\ outcome'[k] = outcome[k] /\ removed'[k] = removed[k]

\* Entries only go by being removed, and what was removed is so for good.
Onward == Rmd \subseteq Rmd' /\ tree \cup Rmd \subseteq tree' \cup Rmd'

LEMMA DelFrame ==
    ASSUME NEW k \in Requests, DelOwn(k), Untouched(k), Onward
    PROVE  DelOwn(k)'
<1>1. DelQuiet(k)'
    BY DEF DelOwn, DelQuiet, Untouched
<1>2. DelWalks(k)'
    BY DEF DelOwn, DelWalks, Untouched, Known
<1>3. DelTarget(k)'
    BY DEF DelOwn, DelTarget, Untouched, Onward
<1>4. DelCounted(k)'
    BY DEF DelOwn, DelCounted, Untouched, Onward
<1>5. DelDone(k)'
    BY DEF DelOwn, DelDone, Untouched, Onward
<1>6. QED
    BY <1>1, <1>2, <1>3, <1>4, <1>5 DEF DelOwn

\* A step of one request that leaves the tree.
LEMMA DelStill ==
    ASSUME removed' = removed, tree \subseteq tree'
    PROVE  Onward /\ Rmd' = Rmd
<1>1. Rmd' = Rmd
    BY DEF Rmd
<1>2. QED
    BY <1>1 DEF Onward

LEMMA DelConsts ==
    /\ TopDir \in Nodes /\ PointsAt \in [Links -> Nodes] /\ Denied \subseteq Nodes /\ Barred \subseteq Nodes
    /\ ParentOf \in [Nodes \ {TopDir} -> {n \in Nodes : KindOf[n] = "dir"}]
    /\ \A n \in Nodes \ {TopDir} : ParentOf[n] \in Late => n \in Late
BY DeleteAssumption

LEMMA DelAskKeeps ==
    ASSUME DelInv, NEW q \in Requests, DeleteAsk(q)
    PROVE  DelInv'
<1>1. /\ phase[q] = "idle" /\ phase' = [phase EXCEPT ![q] = "survey"]
      /\ UNCHANGED <<tree, sudo, surveyed, target, rest, refused, outcome, removed>>
    BY DEF DeleteAsk
<1>2. PICK paths \in SUBSET (tree \ {TopDir}) :
        asked' = [asked EXCEPT ![q] = paths] /\ todo' = [todo EXCEPT ![q] = paths]
    BY DEF DeleteAsk
<1>3. DelData'
    BY <1>1, <1>2 DEF DelInv, DelData
<1>4. Onward /\ Rmd' = Rmd
    BY <1>1, DelStill
<1>5. DelHost'
    BY <1>1, <1>4 DEF DelInv, DelHost
<1>6. DelOwn(q)'
    <2>1. /\ phase'[q] = "survey" /\ asked'[q] = paths /\ todo'[q] = paths /\ surveyed'[q] = surveyed[q]
          /\ target'[q] = target[q] /\ rest'[q] = {} /\ refused'[q] = {} /\ removed'[q] = {}
          /\ \A p \in Nodes : outcome'[q][p].entries = {}
        BY <1>1, <1>2 DEF DelInv, DelData, DelOwn, DelQuiet, Begun
    <2>2. paths \subseteq Nodes
        BY <1>2 DEF DelInv, DelData
    <2>3. DelQuiet(q)'
        BY <2>1 DEF DelQuiet
    <2>4. DelWalks(q)'
        BY <2>1 DEF DelWalks, Known
    <2>5. DelTarget(q)'
        BY <2>1 DEF DelTarget
    <2>6. DelCounted(q)'
        BY <2>1, <2>2 DEF DelCounted
    <2>7. DelDone(q)'
        BY <2>1 DEF DelDone, Begun
    <2>8. QED
        BY <2>3, <2>4, <2>5, <2>6, <2>7 DEF DelOwn
<1>7. ASSUME NEW k \in Requests, k # q PROVE DelOwn(k)'
    <2>1. Untouched(k)
        BY <1>1, <1>2, <1>7 DEF Untouched, DelInv, DelData
    <2>2. QED
        BY <1>4, <2>1, DelFrame DEF DelInv
<1>8. QED
    BY <1>3, <1>5, <1>6, <1>7 DEF DelInv

\* What a path resolves to is in its walk.
LEMMA DelResolves ==
    ASSUME DelInv, NEW p \in Nodes
    PROVE  /\ Resolve(p) \in Nodes /\ WalkTree(Resolve(p)) \subseteq Nodes
           /\ Resolve(p) \in WalkTree(Resolve(p))
<1>1. Resolve(p) \in Nodes
    BY DelConsts DEF Resolve
<1>2. \A r \in Nodes : WalkTree(r) \subseteq Nodes /\ r \in WalkTree(r)
    BY DEF WalkTree, DelInv, DelData
<1>3. QED
    BY <1>1, <1>2

LEMMA DelSurveyKeeps ==
    ASSUME DelInv, NEW q \in Requests, DeleteSurvey(q)
    PROVE  DelInv'
<1>1. /\ phase[q] = "survey"
      /\ UNCHANGED <<tree, sudo, asked, target, rest, refused, outcome, removed>>
    BY DEF DeleteSurvey
<1>2. PICK p \in todo[q] :
        \/ Refusal(q)
        \/ ~Refused(Resolve(p)) /\ Surveyed(q, p, Resolve(p))
    BY DEF DeleteSurvey
<1> DEFINE r == Resolve(p)
           s == [root |-> r, walk |-> WalkTree(r)]
<1>3. p \in Nodes /\ r \in Nodes /\ WalkTree(r) \subseteq Nodes /\ r \in WalkTree(r)
    BY <1>2, DelResolves DEF DelInv, DelData
<1>4. s \in [root : Nodes, walk : SUBSET Nodes] /\ s.root = r /\ s.walk = WalkTree(r)
    BY <1>3
<1>5. \/ /\ phase' = [phase EXCEPT ![q] = "refused"] /\ UNCHANGED <<todo, surveyed>>
      \/ /\ surveyed' = [surveyed EXCEPT ![q][p] = s] /\ todo' = [todo EXCEPT ![q] = @ \ {p}]
         /\ phase' = phase /\ WalkTree(r) \cap (Denied \cup Barred) = {}
    BY <1>2 DEF Refusal, Surveyed, Refused
<1> HIDE DEF r, s
<1>6. Onward /\ Rmd' = Rmd
    BY <1>1, DelStill
<1>7. DelHost'
    BY <1>1, <1>6 DEF DelInv, DelHost
<1>8. DelData'
    <2>1. /\ phase' \in [Requests -> {"idle", "survey", "refused", "remove", "answered", "failed"}]
          /\ todo' \in [Requests -> SUBSET Nodes]
        <3>1. phase \in [Requests -> {"idle", "survey", "refused", "remove", "answered", "failed"}] /\ todo \in [Requests -> SUBSET Nodes]
            BY DEF DelInv, DelData
        <3>2. CASE phase' = [phase EXCEPT ![q] = "refused"] /\ todo' = todo
            BY <3>1, <3>2
        <3>3. CASE phase' = phase /\ todo' = [todo EXCEPT ![q] = @ \ {p}]
            BY <3>1, <3>3
        <3>4. QED
            BY <1>5, <3>2, <3>3
    <2>2. surveyed' \in [Requests -> [Nodes -> [root : Nodes, walk : SUBSET Nodes]]]
        <3>1. [surveyed[q] EXCEPT ![p] = s] \in [Nodes -> [root : Nodes, walk : SUBSET Nodes]]
            BY <1>3, <1>4 DEF DelInv, DelData
        <3>2. surveyed' = surveyed \/ surveyed' = [surveyed EXCEPT ![q] = [surveyed[q] EXCEPT ![p] = s]]
            BY <1>5
        <3>3. QED
            BY <3>1, <3>2 DEF DelInv, DelData
    <2>3. QED
        BY <1>1, <2>1, <2>2 DEF DelInv, DelData
<1>9. DelOwn(q)'
    <2>1. /\ asked'[q] = asked[q] /\ target'[q] = target[q] /\ rest'[q] = {} /\ refused'[q] = {} /\ removed'[q] = {}
          /\ outcome'[q] = outcome[q] /\ \A m \in Nodes : outcome'[q][m].entries = {}
          /\ todo[q] \subseteq asked[q] /\ asked[q] \subseteq Nodes
        BY <1>1 DEF DelInv, DelData, DelOwn, DelQuiet, DelTarget, Begun
    <2>2. phase'[q] \in {"survey", "refused"} /\ todo'[q] \subseteq todo[q]
        BY <1>1, <1>5 DEF DelInv, DelData
    <2>3. DelQuiet(q)' /\ DelTarget(q)' /\ DelCounted(q)' /\ DelDone(q)'
        BY <2>1, <2>2 DEF DelQuiet, DelTarget, DelCounted, DelDone, Begun
    <2>4. DelWalks(q)'
        <3>1. CASE phase' = [phase EXCEPT ![q] = "refused"]
            <4>1. phase'[q] = "refused"
                BY <3>1 DEF DelInv, DelData
            <4>2. QED
                BY <4>1 DEF DelWalks, Known, Begun
        <3>2. CASE /\ surveyed' = [surveyed EXCEPT ![q][p] = s] /\ todo' = [todo EXCEPT ![q] = @ \ {p}]
                   /\ phase' = phase /\ WalkTree(r) \cap (Denied \cup Barred) = {}
            <4>1. /\ surveyed'[q][p] = s /\ \A m \in Nodes \ {p} : surveyed'[q][m] = surveyed[q][m]
                  /\ todo'[q] = todo[q] \ {p} /\ phase'[q] = "survey"
                BY <1>1, <1>3, <3>2 DEF DelInv, DelData
            <4>2. Known(q)' \subseteq Known(q) \cup {p} /\ Known(q) \subseteq Nodes
                BY <1>1, <2>1, <4>1 DEF Known
            <4>3. QED
                BY <1>3, <1>4, <3>2, <4>1, <4>2 DEF DelInv, DelOwn, DelWalks
        <3>3. QED
            BY <1>5, <3>1, <3>2
    <2>5. QED
        BY <2>3, <2>4 DEF DelOwn
<1>10. ASSUME NEW k \in Requests, k # q PROVE DelOwn(k)'
    <2>1. Untouched(k)
        BY <1>1, <1>5, <1>10 DEF Untouched, DelInv, DelData
    <2>2. QED
        BY <1>6, <2>1, DelFrame DEF DelInv
<1>11. QED
    BY <1>7, <1>8, <1>9, <1>10 DEF DelInv

LEMMA DelAllowKeeps ==
    ASSUME DelInv, NEW q \in Requests, DeleteAllow(q)
    PROVE  DelInv'
<1>1. /\ phase[q] = "survey" /\ todo[q] = {}
      /\ UNCHANGED <<tree, sudo, asked, surveyed, target, rest, refused, outcome, removed>>
    BY DEF DeleteAllow
<1>2. \/ phase' = [phase EXCEPT ![q] = "refused"] /\ todo' = todo
      \/ phase' = [phase EXCEPT ![q] = "remove"] /\ todo' = [todo EXCEPT ![q] = asked[q]]
    BY DEF DeleteAllow
<1>3. Onward /\ Rmd' = Rmd
    BY <1>1, DelStill
<1>4. DelHost' /\ DelData'
    BY <1>1, <1>2, <1>3 DEF DelInv, DelHost, DelData
<1>5. DelOwn(q)'
    <2>1. /\ asked'[q] = asked[q] /\ target'[q] = target[q] /\ rest'[q] = {} /\ refused'[q] = {} /\ removed'[q] = {}
          /\ outcome'[q] = outcome[q] /\ \A m \in Nodes : outcome'[q][m].entries = {}
          /\ surveyed'[q] = surveyed[q] /\ asked[q] \subseteq Nodes
        BY <1>1 DEF DelInv, DelData, DelOwn, DelQuiet, DelTarget, Begun
    <2>2. (phase'[q] = "refused" /\ todo'[q] = {}) \/ (phase'[q] = "remove" /\ todo'[q] = asked[q])
        BY <1>1, <1>2 DEF DelInv, DelData
    <2>3. DelQuiet(q)' /\ DelTarget(q)' /\ DelCounted(q)' /\ DelDone(q)'
        BY <2>1, <2>2 DEF DelQuiet, DelTarget, DelCounted, DelDone, Begun
    <2>4. Known(q)' \subseteq Known(q)
        BY <1>1, <2>1, <2>2 DEF Known, Begun
    <2>5. DelWalks(q)'
        BY <2>1, <2>4 DEF DelInv, DelOwn, DelWalks
    <2>6. QED
        BY <2>3, <2>5 DEF DelOwn
<1>6. ASSUME NEW k \in Requests, k # q PROVE DelOwn(k)'
    <2>1. Untouched(k)
        BY <1>1, <1>2, <1>6 DEF Untouched, DelInv, DelData
    <2>2. QED
        BY <1>3, <2>1, DelFrame DEF DelInv
<1>7. QED
    BY <1>4, <1>5, <1>6 DEF DelInv

LEMMA DelTargetKeeps ==
    ASSUME DelInv, NEW q \in Requests, DeleteTarget(q)
    PROVE  DelInv'
<1>1. /\ phase[q] = "remove" /\ rest[q] = {} /\ refused[q] = {}
      /\ UNCHANGED <<tree, sudo, phase, asked, surveyed, refused, outcome, removed>>
    BY DEF DeleteTarget
<1>2. PICK p \in todo[q] :
        /\ target' = [target EXCEPT ![q] = p] /\ todo' = [todo EXCEPT ![q] = @ \ {p}]
        /\ rest' = [rest EXCEPT ![q] = surveyed[q][p].walk]
    BY DEF DeleteTarget
<1>3. Onward /\ Rmd' = Rmd
    BY <1>1, DelStill
<1>4. p \in Nodes /\ p \in asked[q] /\ surveyed[q][p].walk \subseteq Nodes
    BY <1>2 DEF DelInv, DelData, DelOwn, DelTarget
<1>5. DelHost' /\ DelData'
    BY <1>1, <1>2, <1>3, <1>4 DEF DelInv, DelHost, DelData
<1>6. DelOwn(q)'
    <2>1. target'[q] = p /\ todo'[q] = todo[q] \ {p} /\ rest'[q] = surveyed[q][p].walk
        BY <1>2 DEF DelInv, DelData
    <2>2. DelQuiet(q)' /\ DelWalks(q)'
        BY <1>1 DEF DelInv, DelOwn, DelQuiet, DelWalks, Known, Begun
    <2>3. DelTarget(q)' /\ DelCounted(q)'
        BY <1>1, <1>3, <1>4, <2>1 DEF DelInv, DelOwn, DelTarget, DelCounted
    <2>4. surveyed[q][p].root \in surveyed[q][p].walk
        BY <1>1, <1>4 DEF DelInv, DelOwn, DelWalks, Known, Begun
    <2>5. DelDone(q)'
        BY <1>1, <1>3, <2>1, <2>4 DEF DelInv, DelOwn, DelDone
    <2>6. QED
        BY <2>2, <2>3, <2>5 DEF DelOwn
<1>7. ASSUME NEW k \in Requests, k # q PROVE DelOwn(k)'
    <2>1. Untouched(k)
        BY <1>1, <1>2, <1>7 DEF Untouched, DelInv, DelData
    <2>2. QED
        BY <1>3, <2>1, DelFrame DEF DelInv
<1>8. QED
    BY <1>5, <1>6, <1>7 DEF DelInv

\* An entry that a request takes is gone for good, from a directory that stays.
LEMMA DelTook ==
    ASSUME DelInv, NEW q \in Requests, NEW n \in Nodes, Took(q, {n}), n \in tree => Children(n) = {}
    PROVE  /\ Rmd' = Rmd \cup ({n} \cap tree) /\ Onward /\ DelHost'
           /\ tree' \subseteq Nodes /\ removed' \in [Requests -> SUBSET Nodes]
           /\ removed'[q] = removed[q] \cup ({n} \cap tree) /\ \A k \in Requests \ {q} : removed'[k] = removed[k]
<1>1. tree' = tree \ {n} /\ removed' = [removed EXCEPT ![q] = @ \cup ({n} \cap tree)]
    BY DEF Took
<1>2. /\ removed'[q] = removed[q] \cup ({n} \cap tree) /\ \A k \in Requests \ {q} : removed'[k] = removed[k]
      /\ removed' \in [Requests -> SUBSET Nodes]
    BY <1>1 DEF DelInv, DelData
<1>3. Rmd' = Rmd \cup ({n} \cap tree)
    BY <1>2 DEF Rmd
<1>4. Onward
    BY <1>1, <1>3 DEF Onward
<1>5. tree' \cap Rmd' = {}
    BY <1>1, <1>3 DEF DelInv, DelHost
<1>6. ASSUME NEW m \in tree' \ {TopDir} PROVE ParentOf[m] \in tree'
    <2>1. m \in tree /\ ParentOf[m] \in tree
        BY <1>1, <1>6 DEF DelInv, DelHost
    <2>2. ParentOf[m] # n
        BY <1>6, <2>1 DEF Children
    <2>3. QED
        BY <1>1, <2>1, <2>2
<1>7. QED
    BY <1>1, <1>2, <1>3, <1>4, <1>5, <1>6 DEF DelInv, DelData, DelHost

\* The report of the path being removed, and of no other, after S is counted.
Reported(q, S, up, fine) ==
    /\ outcome' \in [Requests -> [Nodes -> [ok : BOOLEAN, entries : SUBSET Nodes, elevated : SUBSET Nodes]]]
    /\ \A k \in Requests \ {q} : outcome'[k] = outcome[k]
    /\ \A p \in Nodes \ {target[q]} : outcome'[q][p] = outcome[q][p]
    /\ outcome'[q][target[q]].entries = outcome[q][target[q]].entries \cup S
    /\ outcome'[q][target[q]].elevated = outcome[q][target[q]].elevated \cup up
    /\ outcome'[q][target[q]].ok = (outcome[q][target[q]].ok /\ fine)

LEMMA DelReports ==
    ASSUME DelInv, NEW q \in Requests
    PROVE  /\ \A S, up \in SUBSET Nodes : Counted(q, S, up) => Reported(q, S, up, TRUE)
           /\ Failed(q) => Reported(q, {}, {}, FALSE)
<1> DEFINE t == target[q]
           old == outcome[q][t]
           Shape == [ok : BOOLEAN, entries : SUBSET Nodes, elevated : SUBSET Nodes]
<1>1. t \in Nodes /\ old \in Shape /\ outcome \in [Requests -> [Nodes -> Shape]]
    BY DEF DelInv, DelData
<1>2. ASSUME NEW new \in Shape, outcome' = [outcome EXCEPT ![q][t] = new]
      PROVE  /\ outcome' \in [Requests -> [Nodes -> Shape]]
             /\ \A k \in Requests \ {q} : outcome'[k] = outcome[k]
             /\ \A p \in Nodes \ {t} : outcome'[q][p] = outcome[q][p]
             /\ outcome'[q][t] = new
    <2> HIDE DEF Shape, t, old
    <2>1. [outcome[q] EXCEPT ![t] = new] \in [Nodes -> Shape]
        BY <1>1, <1>2
    <2>2. outcome' = [outcome EXCEPT ![q] = [outcome[q] EXCEPT ![t] = new]]
        BY <1>2
    <2>3. QED
        BY <1>1, <2>1, <2>2
<1>3. ASSUME NEW S \in SUBSET Nodes, NEW up \in SUBSET Nodes, Counted(q, S, up)
      PROVE  Reported(q, S, up, TRUE)
    <2> DEFINE new == [ok |-> old.ok, entries |-> old.entries \cup S, elevated |-> old.elevated \cup up]
    <2>1. /\ new \in Shape /\ new.ok = old.ok /\ new.entries = old.entries \cup S
          /\ new.elevated = old.elevated \cup up
        BY <1>1
    <2>2. outcome' = [outcome EXCEPT ![q][t] = new]
        BY <1>3 DEF Counted
    <2> HIDE DEF new
    <2>3. /\ outcome' \in [Requests -> [Nodes -> Shape]]
          /\ \A k \in Requests \ {q} : outcome'[k] = outcome[k]
          /\ \A p \in Nodes \ {t} : outcome'[q][p] = outcome[q][p]
          /\ outcome'[q][t] = new
        BY <1>2, <2>1, <2>2
    <2>4. new.ok = (old.ok /\ TRUE)
        BY <1>1, <2>1
    <2>5. QED
        BY <2>1, <2>3, <2>4 DEF Reported
<1>4. ASSUME Failed(q) PROVE Reported(q, {}, {}, FALSE)
    <2> DEFINE new == [old EXCEPT !.ok = FALSE]
    <2>1. /\ new \in Shape /\ new.ok = (old.ok /\ FALSE) /\ new.entries = old.entries \cup {}
          /\ new.elevated = old.elevated \cup {}
        BY <1>1
    <2>2. outcome' = [outcome EXCEPT ![q][t] = new]
        BY <1>4 DEF Failed
    <2> HIDE DEF new
    <2>3. /\ outcome' \in [Requests -> [Nodes -> Shape]]
          /\ \A k \in Requests \ {q} : outcome'[k] = outcome[k]
          /\ \A p \in Nodes \ {t} : outcome'[q][p] = outcome[q][p]
          /\ outcome'[q][t] = new
        BY <1>2, <2>1, <2>2
    <2>4. QED
        BY <2>1, <2>3 DEF Reported
<1>5. QED
    BY <1>3, <1>4

LEMMA DelEntryKeeps ==
    ASSUME DelInv, NEW q \in Requests, DeleteEntry(q)
    PROVE  DelInv'
<1>1. /\ phase[q] = "remove" /\ refused[q] = {}
      /\ UNCHANGED <<sudo, phase, asked, todo, surveyed, target>>
    BY DEF DeleteEntry
<1>2. PICK n \in LowestLeft(q) :
        /\ rest' = [rest EXCEPT ![q] = @ \ {n}]
        /\ \/ /\ n \in tree \ RootOwned /\ Children(n) = {}
              /\ Took(q, {n}) /\ Counted(q, {n}, {})
              /\ UNCHANGED refused
           \/ Failed(q) /\ UNCHANGED <<tree, removed, refused>>
           \/ /\ n \in tree
              /\ refused' = [refused EXCEPT ![q] = {n}]
              /\ UNCHANGED <<tree, removed, outcome>>
    BY DEF DeleteEntry
<1> DEFINE t == target[q]
<1>3. /\ n \in rest[q] /\ n \in Nodes /\ t \in asked[q] \ todo[q] /\ t \in Nodes /\ n \in surveyed[q][t].walk
      /\ asked[q] \subseteq Nodes /\ rest'[q] = rest[q] \ {n} /\ \A k \in Requests \ {q} : rest'[k] = rest[k]
      /\ rest' \in [Requests -> SUBSET Nodes]
    BY <1>2 DEF LowestLeft, DelInv, DelData, DelOwn, DelTarget
<1>4. DelQuiet(q)' /\ DelWalks(q)'
    BY <1>1 DEF DelInv, DelOwn, DelQuiet, DelWalks, Known, Begun
<1>5. CASE /\ n \in tree \ RootOwned /\ Children(n) = {}
           /\ Took(q, {n}) /\ Counted(q, {n}, {})
           /\ UNCHANGED refused
    <2>1. /\ Rmd' = Rmd \cup {n} /\ Onward /\ DelHost' /\ tree' \subseteq Nodes
          /\ removed' \in [Requests -> SUBSET Nodes]
          /\ removed'[q] = removed[q] \cup {n} /\ \A k \in Requests \ {q} : removed'[k] = removed[k]
        BY <1>3, <1>5, DelTook
    <2>2. /\ outcome' \in [Requests -> [Nodes -> [ok : BOOLEAN, entries : SUBSET Nodes, elevated : SUBSET Nodes]]]
          /\ \A k \in Requests \ {q} : outcome'[k] = outcome[k]
          /\ \A p \in Nodes \ {t} : outcome'[q][p] = outcome[q][p]
          /\ outcome'[q][t].entries = outcome[q][t].entries \cup {n}
          /\ outcome'[q][t].elevated = outcome[q][t].elevated
          /\ outcome'[q][t].ok => outcome[q][t].ok
        <3>1. Reported(q, {n}, {}, TRUE)
            BY <1>3, <1>5, DelReports
        <3>2. QED
            BY <1>3, <3>1 DEF Reported, DelInv, DelData
    <2>3. DelData'
        BY <1>1, <1>3, <1>5, <2>1, <2>2 DEF DelInv, DelData
    <2>4. DelTarget(q)'
        BY <1>1, <1>3, <1>5, <2>1 DEF DelInv, DelOwn, DelTarget, Onward
    <2>5. DelCounted(q)'
        <3>1. n \notin Rmd
            BY <1>5 DEF DelInv, DelHost
        <3>2. \A p \in asked[q] : n \notin outcome[q][p].entries
            BY <3>1 DEF DelInv, DelOwn, DelCounted
        <3>3. \A p \in asked[q] : outcome'[q][p].entries = outcome[q][p].entries \cup (IF p = t THEN {n} ELSE {})
            BY <1>3, <2>2
        <3>4. \A p \in asked[q] : outcome'[q][p].elevated = outcome[q][p].elevated
            BY <1>3, <2>2
        <3>5. /\ removed'[q] \subseteq UNION {surveyed'[q][p].walk : p \in asked'[q]}
              /\ removed'[q] \subseteq UNION {outcome'[q][p].entries : p \in asked'[q]}
            BY <1>1, <1>3, <2>1, <3>3 DEF DelInv, DelOwn, DelCounted
        <3>6. ASSUME NEW p \in asked'[q]
              PROVE  /\ outcome'[q][p].entries \subseteq Rmd' \cap (removed'[q] \cup outcome'[q][p].elevated)
                     /\ outcome'[q][p].entries \cap refused'[q] = {}
            BY <1>1, <1>5, <2>1, <3>3, <3>4, <3>6 DEF DelInv, DelOwn, DelCounted
        <3>7. ASSUME NEW p \in asked'[q], NEW k \in asked'[q], p # k
              PROVE  outcome'[q][p].entries \cap outcome'[q][k].entries = {}
            BY <1>1, <3>2, <3>3, <3>7 DEF DelInv, DelOwn, DelCounted
        <3>8. QED
            BY <3>5, <3>6, <3>7 DEF DelCounted
    <2>6. DelDone(q)'
        <3>1. \A p \in asked[q] : outcome'[q][p].ok => outcome[q][p].ok
            BY <1>3, <2>2
        <3>2. QED
            BY <1>1, <1>3, <1>5, <2>1, <3>1 DEF DelInv, DelOwn, DelDone
    <2>7. DelOwn(q)'
        BY <1>4, <2>4, <2>5, <2>6 DEF DelOwn
    <2>8. ASSUME NEW k \in Requests, k # q PROVE DelOwn(k)'
        <3>1. Untouched(k)
            BY <1>1, <1>3, <1>5, <2>1, <2>2, <2>8 DEF Untouched
        <3>2. QED
            BY <2>1, <3>1, DelFrame DEF DelInv
    <2>9. QED
        BY <2>1, <2>3, <2>7, <2>8 DEF DelInv
<1>6. CASE Failed(q) /\ UNCHANGED <<tree, removed, refused>>
    <2>1. Onward /\ Rmd' = Rmd
        BY <1>6, DelStill
    <2>2. /\ outcome' \in [Requests -> [Nodes -> [ok : BOOLEAN, entries : SUBSET Nodes, elevated : SUBSET Nodes]]]
          /\ \A k \in Requests \ {q} : outcome'[k] = outcome[k]
          /\ \A p \in Nodes \ {t} : outcome'[q][p] = outcome[q][p]
          /\ outcome'[q][t].entries = outcome[q][t].entries /\ outcome'[q][t].elevated = outcome[q][t].elevated
          /\ ~outcome'[q][t].ok
        <3>1. Reported(q, {}, {}, FALSE)
            BY <1>6, DelReports
        <3>2. QED
            BY <1>3, <3>1 DEF Reported
    <2>3. DelData' /\ DelHost'
        BY <1>1, <1>3, <1>6, <2>1, <2>2 DEF DelInv, DelData, DelHost
    <2>4. DelTarget(q)'
        BY <1>1, <1>3, <1>6, <2>1 DEF DelInv, DelOwn, DelTarget
    <2>5. \A p \in asked[q] : outcome'[q][p].entries = outcome[q][p].entries /\ outcome'[q][p].elevated = outcome[q][p].elevated
        BY <1>3, <2>2
    <2>6. DelCounted(q)'
        BY <1>1, <1>6, <2>1, <2>5 DEF DelInv, DelOwn, DelCounted
    <2>7. DelDone(q)'
        <3>1. \A p \in asked[q] : outcome'[q][p].ok => p # t /\ outcome[q][p].ok
            BY <1>3, <2>2
        <3>2. QED
            BY <1>1, <1>3, <1>6, <2>1, <3>1 DEF DelInv, DelOwn, DelDone
    <2>8. DelOwn(q)'
        BY <1>4, <2>4, <2>6, <2>7 DEF DelOwn
    <2>9. ASSUME NEW k \in Requests, k # q PROVE DelOwn(k)'
        <3>1. Untouched(k)
            BY <1>1, <1>3, <1>6, <2>2, <2>9 DEF Untouched
        <3>2. QED
            BY <2>1, <3>1, DelFrame DEF DelInv
    <2>10. QED
        BY <2>3, <2>8, <2>9 DEF DelInv
<1>7. CASE /\ n \in tree
           /\ refused' = [refused EXCEPT ![q] = {n}]
           /\ UNCHANGED <<tree, removed, outcome>>
    <2>1. Onward /\ Rmd' = Rmd
        BY <1>7, DelStill
    <2>2. /\ refused' \in [Requests -> SUBSET Nodes] /\ refused'[q] = {n}
          /\ \A k \in Requests \ {q} : refused'[k] = refused[k]
        BY <1>3, <1>7 DEF DelInv, DelData
    <2>3. DelData' /\ DelHost'
        BY <1>1, <1>3, <1>7, <2>1, <2>2 DEF DelInv, DelData, DelHost
    <2>4. DelTarget(q)'
        BY <1>1, <1>3, <1>7, <2>2 DEF DelInv, DelOwn, DelTarget
    <2>5. \A p \in asked[q] : n \notin outcome[q][p].entries
        BY <1>7 DEF DelInv, DelHost, DelOwn, DelCounted
    <2>6. DelCounted(q)'
        BY <1>1, <1>7, <2>1, <2>2, <2>5 DEF DelInv, DelOwn, DelCounted
    <2>7. DelDone(q)'
        BY <1>1, <1>3, <1>7, <2>1, <2>2 DEF DelInv, DelOwn, DelDone
    <2>8. DelOwn(q)'
        BY <1>4, <2>4, <2>6, <2>7 DEF DelOwn
    <2>9. ASSUME NEW k \in Requests, k # q PROVE DelOwn(k)'
        <3>1. Untouched(k)
            BY <1>1, <1>3, <1>7, <2>2, <2>9 DEF Untouched
        <3>2. QED
            BY <2>1, <3>1, DelFrame DEF DelInv
    <2>10. QED
        BY <2>3, <2>8, <2>9 DEF DelInv
<1>8. QED
    BY <1>2, <1>5, <1>6, <1>7

LEMMA DelElevatedKeeps ==
    ASSUME DelInv, NEW q \in Requests, DeleteElevated(q)
    PROVE  DelInv'
<1>1. /\ refused' = [refused EXCEPT ![q] = {}]
      /\ UNCHANGED <<sudo, phase, asked, todo, surveyed, target, rest>>
    BY DEF DeleteElevated
<1>2. PICK n \in refused[q] :
        \/ RemovableAsRoot(n) /\ Took(q, {n}) /\ Counted(q, {n}, {n})
        \/ Failed(q) /\ UNCHANGED <<tree, removed>>
    BY DEF DeleteElevated
<1> DEFINE t == target[q]
<1>3. /\ phase[q] = "remove" /\ n \in Nodes /\ t \in asked[q] \ todo[q] /\ t \in Nodes /\ n \in surveyed[q][t].walk
      /\ asked[q] \subseteq Nodes /\ n \in tree \cup Rmd /\ refused'[q] = {} /\ \A k \in Requests \ {q} : refused'[k] = refused[k]
      /\ refused' \in [Requests -> SUBSET Nodes]
    BY <1>1, <1>2 DEF DelInv, DelData, DelOwn, DelTarget
<1>4. DelQuiet(q)' /\ DelWalks(q)'
    BY <1>1, <1>3 DEF DelInv, DelOwn, DelQuiet, DelWalks, Known, Begun
<1>5. CASE RemovableAsRoot(n) /\ Took(q, {n}) /\ Counted(q, {n}, {n})
    <2>1. n \in tree => Children(n) = {}
        BY <1>3, <1>5, DelConsts DEF RemovableAsRoot, Children, DelInv, DelData
    <2>2. /\ Rmd' = Rmd \cup {n} /\ Onward /\ DelHost' /\ tree' \subseteq Nodes
          /\ removed' \in [Requests -> SUBSET Nodes]
          /\ removed'[q] = removed[q] \cup ({n} \cap tree) /\ \A k \in Requests \ {q} : removed'[k] = removed[k]
        <3>1. /\ Rmd' = Rmd \cup ({n} \cap tree) /\ Onward /\ DelHost' /\ tree' \subseteq Nodes
              /\ removed' \in [Requests -> SUBSET Nodes]
              /\ removed'[q] = removed[q] \cup ({n} \cap tree) /\ \A k \in Requests \ {q} : removed'[k] = removed[k]
            BY <1>3, <1>5, <2>1, DelTook
        <3>2. QED
            BY <1>3, <3>1
    <2>3. /\ outcome' \in [Requests -> [Nodes -> [ok : BOOLEAN, entries : SUBSET Nodes, elevated : SUBSET Nodes]]]
          /\ \A k \in Requests \ {q} : outcome'[k] = outcome[k]
          /\ \A p \in Nodes \ {t} : outcome'[q][p] = outcome[q][p]
          /\ outcome'[q][t].entries = outcome[q][t].entries \cup {n}
          /\ outcome'[q][t].elevated = outcome[q][t].elevated \cup {n}
          /\ outcome'[q][t].ok => outcome[q][t].ok
        <3>1. Reported(q, {n}, {n}, TRUE)
            BY <1>3, <1>5, DelReports
        <3>2. QED
            BY <1>3, <3>1 DEF Reported, DelInv, DelData
    <2>4. DelData'
        BY <1>1, <1>3, <2>2, <2>3 DEF DelInv, DelData
    <2>5. DelTarget(q)'
        BY <1>1, <1>3, <2>2 DEF DelInv, DelOwn, DelTarget
    <2>6. DelCounted(q)'
        <3>1. \A p \in asked[q] : n \notin outcome[q][p].entries
            BY <1>2 DEF DelInv, DelOwn, DelCounted
        <3>2. \A p \in asked[q] :
                /\ outcome'[q][p].entries = outcome[q][p].entries \cup (IF p = t THEN {n} ELSE {})
                /\ outcome'[q][p].elevated = outcome[q][p].elevated \cup (IF p = t THEN {n} ELSE {})
            BY <1>3, <2>3
        <3>3. /\ removed'[q] \subseteq UNION {surveyed'[q][p].walk : p \in asked'[q]}
              /\ removed'[q] \subseteq UNION {outcome'[q][p].entries : p \in asked'[q]}
            BY <1>1, <1>3, <2>2, <3>2 DEF DelInv, DelOwn, DelCounted
        <3>4. ASSUME NEW p \in asked'[q]
              PROVE  /\ outcome'[q][p].entries \subseteq Rmd' \cap (removed'[q] \cup outcome'[q][p].elevated)
                     /\ outcome'[q][p].entries \cap refused'[q] = {}
            BY <1>1, <1>3, <2>2, <3>2, <3>4 DEF DelInv, DelOwn, DelCounted
        <3>5. ASSUME NEW p \in asked'[q], NEW k \in asked'[q], p # k
              PROVE  outcome'[q][p].entries \cap outcome'[q][k].entries = {}
            BY <1>1, <3>1, <3>2, <3>5 DEF DelInv, DelOwn, DelCounted
        <3>6. QED
            BY <3>3, <3>4, <3>5 DEF DelCounted
    <2>7. DelDone(q)'
        <3>1. \A p \in asked[q] : outcome'[q][p].ok => outcome[q][p].ok
            BY <1>3, <2>3
        <3>2. refused[q] = {n}
            BY <1>2 DEF DelInv, DelOwn, DelTarget
        <3>3. QED
            BY <1>1, <1>3, <2>2, <3>1, <3>2 DEF DelInv, DelOwn, DelDone
    <2>8. DelOwn(q)'
        BY <1>4, <2>5, <2>6, <2>7 DEF DelOwn
    <2>9. ASSUME NEW k \in Requests, k # q PROVE DelOwn(k)'
        <3>1. Untouched(k)
            BY <1>1, <1>3, <2>2, <2>3, <2>9 DEF Untouched
        <3>2. QED
            BY <2>2, <3>1, DelFrame DEF DelInv
    <2>10. QED
        BY <2>2, <2>4, <2>8, <2>9 DEF DelInv
<1>6. CASE Failed(q) /\ UNCHANGED <<tree, removed>>
    <2>1. Onward /\ Rmd' = Rmd
        BY <1>6, DelStill
    <2>2. /\ outcome' \in [Requests -> [Nodes -> [ok : BOOLEAN, entries : SUBSET Nodes, elevated : SUBSET Nodes]]]
          /\ \A k \in Requests \ {q} : outcome'[k] = outcome[k]
          /\ \A p \in Nodes \ {t} : outcome'[q][p] = outcome[q][p]
          /\ outcome'[q][t].entries = outcome[q][t].entries /\ outcome'[q][t].elevated = outcome[q][t].elevated
          /\ ~outcome'[q][t].ok
        <3>1. Reported(q, {}, {}, FALSE)
            BY <1>6, DelReports
        <3>2. QED
            BY <1>3, <3>1 DEF Reported
    <2>3. DelData' /\ DelHost'
        BY <1>1, <1>3, <1>6, <2>1, <2>2 DEF DelInv, DelData, DelHost
    <2>4. DelTarget(q)'
        BY <1>1, <1>3, <1>6, <2>1 DEF DelInv, DelOwn, DelTarget
    <2>5. \A p \in asked[q] : outcome'[q][p].entries = outcome[q][p].entries /\ outcome'[q][p].elevated = outcome[q][p].elevated
        BY <1>3, <2>2
    <2>6. DelCounted(q)'
        BY <1>1, <1>3, <1>6, <2>1, <2>5 DEF DelInv, DelOwn, DelCounted
    <2>7. DelDone(q)'
        <3>1. \A p \in asked[q] : outcome'[q][p].ok => p # t /\ outcome[q][p].ok
            BY <1>3, <2>2
        <3>2. QED
            BY <1>1, <1>3, <1>6, <2>1, <3>1 DEF DelInv, DelOwn, DelDone
    <2>8. DelOwn(q)'
        BY <1>4, <2>4, <2>6, <2>7 DEF DelOwn
    <2>9. ASSUME NEW k \in Requests, k # q PROVE DelOwn(k)'
        <3>1. Untouched(k)
            BY <1>1, <1>3, <1>6, <2>2, <2>9 DEF Untouched
        <3>2. QED
            BY <2>1, <3>1, DelFrame DEF DelInv
    <2>10. QED
        BY <2>3, <2>8, <2>9 DEF DelInv
<1>7. QED
    BY <1>2, <1>5, <1>6

LEMMA DelRestKeeps ==
    ASSUME DelInv, (\E q \in Requests : DeleteAnswer(q)) \/ DeleteOther \/ DeleteWindowEnds
    PROVE  DelInv'
<1>1. ASSUME NEW q \in Requests, DeleteAnswer(q) PROVE DelInv'
    <2>1. /\ phase[q] = "remove" /\ rest[q] = {} /\ todo[q] = {} /\ refused[q] = {}
          /\ UNCHANGED <<tree, sudo, asked, todo, surveyed, target, rest, refused, outcome, removed>>
        BY <1>1 DEF DeleteAnswer
    <2>2. \/ phase' = [phase EXCEPT ![q] = "failed"]
          \/ phase' = [phase EXCEPT ![q] = "answered"]
        BY <1>1 DEF DeleteAnswer
    <2>3. Onward /\ Rmd' = Rmd
        BY <2>1, DelStill
    <2>4. DelData' /\ DelHost'
        BY <2>1, <2>2, <2>3 DEF DelInv, DelData, DelHost
    <2>5. phase'[q] \in {"answered", "failed"}
        BY <2>2 DEF DelInv, DelData
    <2>6. DelQuiet(q)' /\ DelWalks(q)'
        BY <2>1, <2>5 DEF DelInv, DelOwn, DelQuiet, DelWalks, Known, Begun
    <2>7. DelTarget(q)' /\ DelCounted(q)' /\ DelDone(q)'
        BY <2>1, <2>3, <2>5 DEF DelInv, DelOwn, DelTarget, DelCounted, DelDone, Begun
    <2>8. ASSUME NEW k \in Requests, k # q PROVE DelOwn(k)'
        <3>1. Untouched(k)
            BY <2>1, <2>2, <2>8 DEF Untouched, DelInv, DelData
        <3>2. QED
            BY <2>3, <3>1, DelFrame DEF DelInv
    <2>9. QED
        BY <2>4, <2>6, <2>7, <2>8 DEF DelInv, DelOwn
<1>2. CASE DeleteOther \/ DeleteWindowEnds
    <2>1. /\ UNCHANGED <<phase, asked, todo, surveyed, target, rest, refused, outcome, removed>>
          /\ sudo' \in BOOLEAN
        BY <1>2 DEF DeleteOther, DeleteWindowEnds, DelInv, DelData
    <2>2. \/ tree' = tree
          \/ \E n \in Late \ (tree \cup Rmd) : ParentOf[n] \in tree /\ tree' = tree \cup {n}
        BY <1>2 DEF DeleteOther, DeleteWindowEnds, Rmd
    <2>3. Onward /\ Rmd' = Rmd
        BY <2>1, <2>2, DelStill
    <2>4. DelHost' /\ tree' \subseteq Nodes
        BY <2>2, <2>3, DeleteAssumption DEF DelInv, DelHost, DelData
    <2>5. DelData'
        BY <2>1, <2>4 DEF DelInv, DelData
    <2>6. ASSUME NEW k \in Requests PROVE DelOwn(k)'
        <3>1. Untouched(k)
            BY <2>1 DEF Untouched
        <3>2. QED
            BY <2>3, <3>1, DelFrame DEF DelInv
    <2>7. QED
        BY <2>4, <2>5, <2>6 DEF DelInv
<1>3. QED
    BY <1>1, <1>2

LEMMA DelStart ==
    ASSUME DeleteInit
    PROVE  DelInv
<1>1. /\ tree = Nodes \ Late /\ sudo \in BOOLEAN
      /\ phase = [q \in Requests |-> "idle"] /\ asked = [q \in Requests |-> {}] /\ todo = [q \in Requests |-> {}]
      /\ surveyed = [q \in Requests |-> [p \in Nodes |-> [root |-> p, walk |-> {}]]]
      /\ target = [q \in Requests |-> TopDir] /\ rest = [q \in Requests |-> {}]
      /\ refused = [q \in Requests |-> {}] /\ removed = [q \in Requests |-> {}]
      /\ outcome = [q \in Requests |-> [p \in Nodes |-> [ok |-> TRUE, entries |-> {}, elevated |-> {}]]]
    BY DEF DeleteInit
<1>2. DelData
    <2>1. surveyed \in [Requests -> [Nodes -> [root : Nodes, walk : SUBSET Nodes]]]
        BY <1>1
    <2>2. outcome \in [Requests -> [Nodes -> [ok : BOOLEAN, entries : SUBSET Nodes, elevated : SUBSET Nodes]]]
        BY <1>1
    <2>3. QED
        BY <1>1, <2>1, <2>2, DelConsts DEF DelData
<1>3. Rmd = {}
    BY <1>1 DEF Rmd
<1>4. DelHost
    BY <1>1, <1>3, DelConsts DEF DelHost
<1>5. ASSUME NEW q \in Requests PROVE DelOwn(q)
    <2>1. /\ phase[q] = "idle" /\ asked[q] = {} /\ todo[q] = {} /\ rest[q] = {} /\ refused[q] = {} /\ removed[q] = {}
        BY <1>1
    <2>2. \A p \in Nodes : outcome[q][p].entries = {}
        BY <1>1
    <2>3. QED
        BY <2>1, <2>2 DEF DelOwn, DelQuiet, DelWalks, Known, DelTarget, DelCounted, DelDone, Begun
<1>6. QED
    BY <1>2, <1>4, <1>5 DEF DelInv

LEMMA DelKeeps ==
    ASSUME DelInv, [DeleteNext]_delVars
    PROVE  DelInv'
<1>1. CASE DeleteNext
    BY <1>1, DelAskKeeps, DelSurveyKeeps, DelAllowKeeps, DelTargetKeeps, DelEntryKeeps, DelElevatedKeeps,
       DelRestKeeps DEF DeleteNext
<1>2. CASE UNCHANGED delVars
    <2>1. UNCHANGED <<tree, sudo, phase, asked, todo, surveyed, target, rest, refused, outcome, removed>>
        BY <1>2 DEF delVars
    <2>2. Onward /\ Rmd' = Rmd
        BY <2>1, DelStill
    <2>3. DelData' /\ DelHost'
        BY <2>1, <2>2 DEF DelInv, DelData, DelHost
    <2>4. ASSUME NEW k \in Requests PROVE DelOwn(k)'
        <3>1. Untouched(k)
            BY <2>1 DEF Untouched
        <3>2. QED
            BY <2>2, <3>1, DelFrame DEF DelInv
    <2>5. QED
        BY <2>3, <2>4 DEF DelInv
<1>3. QED
    BY <1>1, <1>2

LEMMA DelHolds ==
    ASSUME DelInv
    PROVE  DeleteTypeOK /\ RefusedIsUntouched /\ OnlySurveyedGoes /\ OutcomesAreTrue
<1>1. DeleteTypeOK
    BY DEF DelInv, DelData, DelOwn, DelTarget, DeleteTypeOK
<1>2. RefusedIsUntouched
    BY DEF DelInv, DelOwn, DelQuiet, Begun, RefusedIsUntouched
<1>3. OnlySurveyedGoes
    <2>1. ASSUME NEW q \in Requests PROVE removed[q] \cap (Denied \cup Barred) = {}
        <3>1. CASE phase[q] \in Begun
            BY <3>1 DEF DelInv, DelOwn, DelCounted, DelWalks, Known, Begun
        <3>2. CASE phase[q] \notin Begun
            BY <3>2 DEF DelInv, DelOwn, DelQuiet
        <3>3. QED
            BY <3>1, <3>2
    <2>2. QED
        BY <2>1 DEF DelInv, DelOwn, DelCounted, DelHost, OnlySurveyedGoes
<1>4. OutcomesAreTrue
    <2>1. ASSUME NEW q \in Requests, phase[q] \in {"answered", "failed"}, NEW p \in asked[q], outcome[q][p].ok,
                 NEW n \in tree
          PROVE  surveyed[q][p].root \notin {n} \cup Above[n]
        <3>1. todo[q] = {} /\ rest[q] \cup refused[q] = {}
            BY <2>1 DEF DelInv, DelOwn, DelTarget
        <3>2. surveyed[q][p].root \in Rmd
            BY <2>1, <3>1 DEF DelInv, DelOwn, DelDone, Begun
        <3>3. surveyed[q][p].root \notin tree
            BY <3>2 DEF DelInv, DelHost
        <3>4. /\ tree \in SUBSET Nodes /\ n \in Nodes /\ Holds(tree, n, TopDir, ParentOf)
              /\ \A m \in tree : Holds(tree, m, TopDir, ParentOf)
            BY <2>1 DEF DelInv, DelData, DelHost, Holds
        <3>5. Above[n] \subseteq tree
            BY <3>4, AncestorsIn DEF Above
        <3>6. QED
            BY <2>1, <3>3, <3>5
    <2>2. QED
        BY <2>1 DEF DelInv, DelOwn, DelCounted, OutcomesAreTrue
<1>5. QED
    BY <1>1, <1>2, <1>3, <1>4

\* A deletion removes what it surveyed and no more, nothing when it refuses, and
\* what it reports is what it did, whoever else writes or deletes meanwhile.
THEOREM DeletionsAlwaysSurveyed ==
    DeleteSpec => [](DeleteTypeOK /\ RefusedIsUntouched /\ OnlySurveyedGoes /\ OutcomesAreTrue)
<1>1. DeleteInit => DelInv
    BY DelStart
<1>2. DelInv /\ [DeleteNext]_delVars => DelInv'
    BY DelKeeps
<1>3. DelInv => DeleteTypeOK /\ RefusedIsUntouched /\ OnlySurveyedGoes /\ OutcomesAreTrue
    BY DelHolds
<1>4. QED
    BY <1>1, <1>2, <1>3, PTL DEF DeleteSpec

\* A behaviour of the handlers of files is, to the deletions, one of theirs.
THEOREM PartsDeleteSurveyed == PartSpec => []DeletionsAreSurveyed
<1> DEFINE all == <<tailVars, renVars, delVars, permVars, uplVars, downVars, cmpVars, part>>
<1>1. PartInit => DelInv
    BY DelStart DEF PartInit
<1>2. DelInv /\ [PartNext]_all => DelInv'
    <2>1. [PartNext]_all => [DeleteNext]_delVars
        BY DEF PartNext
    <2>2. QED
        BY <2>1, DelKeeps
<1>3. DelInv => DeletionsAreSurveyed
    BY DelHolds DEF DeletionsAreSurveyed
<1>4. QED
    BY <1>1, <1>2, <1>3, PTL DEF PartSpec

-----------------------------------------------------------------------------
(* What a filter keeps.                                                    *)

\* The k-th member of a finite set of places, and no other.
LEMMA Ranks ==
    ASSUME NEW I \in SUBSET Nat, IsFiniteSet(I)
    PROVE  /\ \A i \in I : Cardinality({j \in I : j <= i}) \in 1 .. Cardinality(I)
           /\ \A i, k \in I : Cardinality({j \in I : j <= i}) = Cardinality({j \in I : j <= k}) => i = k
           /\ \A k \in 1 .. Cardinality(I) : \E i \in I : Cardinality({j \in I : j <= i}) = k
<1> DEFINE upto(i) == {j \in I : j <= i}
           n == Cardinality(I)
<1>1. n \in Nat
    BY FS_CardinalityType
<1>2. ASSUME NEW i \in I PROVE IsFiniteSet(upto(i)) /\ Cardinality(upto(i)) \in Nat /\ Cardinality(upto(i)) \in 1 .. n
    <2>1. upto(i) \in SUBSET I /\ i \in upto(i) /\ upto(i) # {}
        OBVIOUS
    <2> HIDE DEF upto
    <2>2. IsFiniteSet(upto(i)) /\ Cardinality(upto(i)) <= n
        BY <2>1, FS_Subset
    <2>3. Cardinality(upto(i)) \in Nat /\ Cardinality(upto(i)) # 0
        BY <2>1, <2>2, FS_CardinalityType, FS_EmptySet
    <2> HIDE DEF n
    <2>4. QED
        BY <1>1, <2>2, <2>3
<1>3. ASSUME NEW i \in I, NEW k \in I, i < k PROVE Cardinality(upto(i)) < Cardinality(upto(k))
    <2>1. upto(i) \in SUBSET upto(k) /\ k \in upto(k) /\ k \notin upto(i)
        <3>1. i \in Nat /\ k \in Nat /\ k <= k /\ ~ (k <= i)
            BY <1>3
        <3>2. \A j \in I : j \in Nat /\ (j <= i => j <= k)
            BY <1>3, <3>1
        <3>3. QED
            BY <3>1, <3>2
    <2> HIDE DEF upto
    <2>2. Cardinality(upto(i)) <= Cardinality(upto(k)) /\ Cardinality(upto(i)) # Cardinality(upto(k))
        BY <1>2, <2>1, FS_Subset
    <2>3. Cardinality(upto(i)) \in Nat /\ Cardinality(upto(k)) \in Nat
        BY <1>2
    <2>4. QED
        BY <2>2, <2>3
<1>4. ASSUME NEW i \in I, NEW k \in I, Cardinality(upto(i)) = Cardinality(upto(k)) PROVE i = k
    <2>1. i \in Nat /\ k \in Nat /\ ~ (i < k) /\ ~ (k < i)
        <3> HIDE DEF upto
        <3>1. Cardinality(upto(i)) \in Nat /\ Cardinality(upto(k)) \in Nat
            BY <1>2
        <3>2. QED
            BY <1>3, <1>4, <3>1
    <2>2. QED
        BY <2>1
<1>5. ASSUME NEW k \in 1 .. n PROVE \E i \in I : Cardinality(upto(i)) = k
    <2> DEFINE f == [i \in I |-> Cardinality(upto(i))]
    <2>1. f \in [I -> 1 .. n] /\ \A i \in I : f[i] = Cardinality(upto(i))
        <3> HIDE DEF upto, n
        <3>1. QED
            BY <1>2
    <2> HIDE DEF f, upto
    <2>2. f \in Injection(I, 1 .. n)
        <3>1. \A i, j \in I : f[i] = f[j] => i = j
            BY <1>4, <2>1
        <3>2. QED
            BY <2>1, <3>1 DEF Injection, IsInjective
    <2>3. IsFiniteSet(1 .. n) /\ Cardinality(1 .. n) = n
        <3> HIDE DEF n
        <3>1. QED
            BY <1>1, FS_Interval
    <2>4. f \in Surjection(I, 1 .. n)
        BY <2>2, <2>3, FS_Injection DEF n
    <2>5. QED
        BY <2>1, <2>4 DEF Surjection
<1>6. QED
    BY <1>2, <1>4, <1>5

LEMMA PickedSeq ==
    ASSUME NEW S, NEW s \in Seq(S), NEW I \in SUBSET DOMAIN s
    PROVE  /\ Picked(s, I) \in Seq(S) /\ Len(Picked(s, I)) = Cardinality(I)
           /\ Cardinality(I) \in Nat /\ Cardinality(I) <= Len(s)
           /\ ToSet(Picked(s, I)) = {s[i] : i \in I}
<1> DEFINE n == Cardinality(I)
           at(k) == CHOOSE i \in I : Cardinality({j \in I : j <= i}) = k
           p == [k \in 1 .. n |-> s[at(k)]]
<1>1. /\ Len(s) \in Nat /\ DOMAIN s = 1 .. Len(s) /\ I \in SUBSET Nat
      /\ I \in SUBSET (1 .. Len(s))
    OBVIOUS
<1>2. IsFiniteSet(1 .. Len(s)) /\ Cardinality(1 .. Len(s)) = Len(s)
    BY <1>1, FS_Interval
<1>3. IsFiniteSet(I) /\ n <= Len(s) /\ n \in Nat
    BY <1>1, <1>2, FS_Subset, FS_CardinalityType
<1>4. ASSUME NEW k \in 1 .. n PROVE at(k) \in I /\ Cardinality({j \in I : j <= at(k)}) = k
    <2>1. \E i \in I : Cardinality({j \in I : j <= i}) = k
        BY <1>1, <1>3, Ranks
    <2>2. QED
        BY <2>1
<1>5. \A i \in I : Cardinality({j \in I : j <= i}) \in 1 .. n /\ at(Cardinality({j \in I : j <= i})) = i
    <2>1. /\ \A i \in I : Cardinality({j \in I : j <= i}) \in 1 .. n
          /\ \A i, k \in I : Cardinality({j \in I : j <= i}) = Cardinality({j \in I : j <= k}) => i = k
        BY <1>1, <1>3, Ranks
    <2> HIDE DEF n
    <2>2. QED
        BY <1>4, <2>1
<1>6. p = Picked(s, I)
    BY DEF Picked
<1> HIDE DEF at, n
<1>7. p \in Seq(S) /\ Len(p) = n /\ DOMAIN p = 1 .. n
    <2>1. \A k \in 1 .. n : s[at(k)] \in S
        <3> SUFFICES ASSUME NEW k \in 1 .. n PROVE s[at(k)] \in S
            OBVIOUS
        <3>1. at(k) \in 1 .. Len(s)
            BY <1>1, <1>4
        <3>2. QED
            BY <3>1
    <2>2. p \in [1 .. n -> S]
        BY <2>1
    <2> HIDE DEF p
    <2>3. QED
        BY <1>3, <2>2
<1>8. ToSet(p) = {s[i] : i \in I}
    <2>1. ASSUME NEW x \in ToSet(p) PROVE x \in {s[i] : i \in I}
        BY <1>4, <1>7 DEF ToSet
    <2>2. ASSUME NEW i \in I PROVE s[i] \in ToSet(p)
        <3>1. PICK k \in 1 .. n : at(k) = i
            BY <1>5
        <3>2. p[k] = s[i]
            BY <3>1
        <3>3. QED
            BY <1>7, <3>2 DEF ToSet
    <2>3. QED
        BY <2>1, <2>2
<1> HIDE DEF p
<1>9. QED
    BY <1>3, <1>6, <1>7, <1>8 DEF n

\* A sequence has no more members than places.
LEMMA ToSetSize ==
    ASSUME NEW S, NEW s \in Seq(S)
    PROVE  IsFiniteSet(ToSet(s)) /\ Cardinality(ToSet(s)) <= Len(s) /\ ToSet(s) \subseteq S
<1>1. Len(s) \in Nat /\ DOMAIN s = 1 .. Len(s) /\ \A i \in 1 .. Len(s) : s[i] \in S
    OBVIOUS
<1>2. IsFiniteSet(1 .. Len(s)) /\ Cardinality(1 .. Len(s)) = Len(s)
    <2>1. Len(s) \in Nat
        OBVIOUS
    <2>2. QED
        BY ONLY <2>1, FS_Interval
<1>3. ToSet(s) = {s[i] : i \in 1 .. Len(s)}
    BY <1>1 DEF ToSet
<1> DEFINE T == {s[i] : i \in 1 .. Len(s)}
           f == [i \in 1 .. Len(s) |-> s[i]]
<1>4. f \in Surjection(1 .. Len(s), T)
    BY DEF Surjection
<1> HIDE DEF T, f
<1>5. IsFiniteSet(T) /\ Cardinality(T) <= Len(s)
    BY <1>2, <1>4, FS_Surjection
<1>6. T \subseteq S
    BY <1>1 DEF T
<1>7. QED
    BY <1>3, <1>5, <1>6 DEF T

LEMMA ConcatSet ==
    ASSUME NEW S, NEW s \in Seq(S), NEW t \in Seq(S)
    PROVE  s \o t \in Seq(S) /\ ToSet(s \o t) = ToSet(s) \cup ToSet(t)
<1> DEFINE u == s \o t
           a == Len(s)
           b == Len(t)
<1>1. /\ u \in Seq(S) /\ DOMAIN u = 1 .. a + b /\ DOMAIN s = 1 .. a /\ DOMAIN t = 1 .. b
      /\ a \in Nat /\ b \in Nat
    OBVIOUS
<1>2. /\ \A i \in 1 .. a : u[i] = s[i]
      /\ \A i \in 1 .. b : u[a + i] = t[i]
    OBVIOUS
<1> HIDE DEF u, a, b
<1>3. \A x \in ToSet(u) : x \in ToSet(s) \cup ToSet(t)
    <2> SUFFICES ASSUME NEW i \in 1 .. a + b PROVE u[i] \in ToSet(s) \cup ToSet(t)
        BY <1>1 DEF ToSet
    <2>1. CASE i \in 1 .. a
        BY <1>1, <1>2, <2>1 DEF ToSet
    <2>2. CASE i \notin 1 .. a
        <3>1. i - a \in 1 .. b /\ i = a + (i - a)
            BY <1>1, <2>2
        <3>2. u[i] = t[i - a]
            BY <1>2, <3>1
        <3>3. QED
            BY <1>1, <3>1, <3>2 DEF ToSet
    <2>3. QED
        BY <2>1, <2>2
<1>4. \A x \in ToSet(s) : x \in ToSet(u)
    <2> SUFFICES ASSUME NEW i \in 1 .. a PROVE s[i] \in ToSet(u)
        BY <1>1 DEF ToSet
    <2>1. i \in 1 .. a + b /\ u[i] = s[i]
        BY <1>1, <1>2
    <2>2. QED
        BY <1>1, <2>1 DEF ToSet
<1>5. \A x \in ToSet(t) : x \in ToSet(u)
    <2> SUFFICES ASSUME NEW i \in 1 .. b PROVE t[i] \in ToSet(u)
        BY <1>1 DEF ToSet
    <2>1. a + i \in 1 .. a + b /\ u[a + i] = t[i]
        BY <1>1, <1>2
    <2>2. QED
        BY <1>1, <2>1 DEF ToSet
<1>6. QED
    BY <1>1, <1>3, <1>4, <1>5 DEF u

LEMMA HeadAndTail ==
    ASSUME NEW S, NEW s \in Seq(S), s # <<>>
    PROVE  Head(s) \in S /\ Tail(s) \in Seq(S) /\ ToSet(s) = {Head(s)} \cup ToSet(Tail(s))
<1> DEFINE t == Tail(s)
           a == Len(s)
<1>1. /\ Head(s) = s[1] /\ t \in Seq(S) /\ DOMAIN t = 1 .. a - 1 /\ DOMAIN s = 1 .. a
      /\ a \in Nat /\ a >= 1 /\ s[1] \in S
    OBVIOUS
<1>2. \A i \in 1 .. a - 1 : t[i] = s[i + 1]
    OBVIOUS
<1> HIDE DEF t, a
<1>3. \A x \in ToSet(s) : x \in {s[1]} \cup ToSet(t)
    <2> SUFFICES ASSUME NEW i \in 1 .. a, i # 1 PROVE s[i] \in ToSet(t)
        BY <1>1 DEF ToSet
    <2>1. i - 1 \in 1 .. a - 1 /\ i = (i - 1) + 1
        BY <1>1
    <2>2. t[i - 1] = s[i]
        BY <1>2, <2>1
    <2>3. QED
        BY <1>1, <2>1, <2>2 DEF ToSet
<1>4. \A x \in ToSet(t) : x \in ToSet(s)
    <2> SUFFICES ASSUME NEW i \in 1 .. a - 1 PROVE t[i] \in ToSet(s)
        BY <1>1 DEF ToSet
    <2>1. i + 1 \in 1 .. a /\ t[i] = s[i + 1]
        BY <1>1, <1>2
    <2>2. QED
        BY <1>1, <2>1 DEF ToSet
<1>5. s[1] \in ToSet(s)
    BY <1>1 DEF ToSet
<1>6. QED
    BY <1>1, <1>3, <1>4, <1>5 DEF t

LEMMA LeastOfTwo ==
    ASSUME NEW a \in Int, NEW b \in Int
    PROVE  Min({a, b}) \in {a, b} /\ Min({a, b}) <= a /\ Min({a, b}) <= b
<1>1. \E x \in {a, b} : \A y \in {a, b} : x <= y
    OBVIOUS
<1>2. Min({a, b}) \in {a, b} /\ \A y \in {a, b} : Min({a, b}) <= y
    BY <1>1 DEF Min
<1>3. QED
    BY <1>2

LEMMA MostOfTwo ==
    ASSUME NEW a \in Int, NEW b \in Int
    PROVE  Max({a, b}) \in {a, b} /\ Max({a, b}) >= a /\ Max({a, b}) >= b
<1>1. \E x \in {a, b} : \A y \in {a, b} : x >= y
    OBVIOUS
<1>2. Max({a, b}) \in {a, b} /\ \A y \in {a, b} : Max({a, b}) >= y
    BY <1>1 DEF Max
<1>3. QED
    BY <1>2

-----------------------------------------------------------------------------
(* Live tails.                                                             *)

TailIds     == [entry : Streams \cup {NoEntry}, n : Nat]
TailStreams == {"new", "open", "thrown", "ended", "closed"}

TailData ==
    /\ entryAt \in [TailFiles -> Streams \cup {NoEntry}]
    /\ source \in [Streams -> {"none", "live", "ending", "dead"}]
    /\ total \in [Streams -> Nat] /\ ring \in [Streams -> Nat]
    /\ \A e \in Streams : ring[e] <= total[e] /\ total[e] <= MaxLines /\ ring[e] <= RingLines
    /\ subs \in [Streams -> SUBSET Streams] /\ reaper \subseteq Streams
    /\ strays \in [TailFiles -> Nat]
    /\ stream \in [Streams -> TailStreams] /\ slow \subseteq Streams
    /\ told \in [Streams -> Nat] /\ dropped \in [Streams -> Nat]
    /\ lastId \in [Streams -> TailIds]

\* An entry is in the map under its own file, and there is room for it.
TailMap ==
    /\ \A f \in TailFiles : entryAt[f] # NoEntry => FileOf[entryAt[f]] = f
    /\ Cardinality(Mapped) <= MaxTailsPerHost

\* A stream that has not asked opened nothing and is subscribed to nothing.
TailNew ==
    /\ \A c \in Streams : stream[c] = "new" => total[c] = 0 /\ source[c] = "none"
    /\ \A e \in Streams : \A c \in subs[e] : stream[c] # "new"

\* What a subscriber was told, or will be, is not less than there is.
TailTold ==
    \A e \in Streams : \A c \in subs[e] : stream[c] # "closed" => told[c] + dropped[c] >= total[e]

Charged(s) == {c \in Streams : SessionOf[c] = s /\ stream[c] \in {"open", "thrown", "ended"}}
TailCount  == perSession = [s \in Sessions |-> Cardinality(Charged(s))]

TailInv == TailData /\ TailMap /\ TailNew /\ TailTold /\ TailCount /\ SourceIsWatched

LEMMA TailConsts ==
    /\ IsFiniteSet(Streams) /\ NoEntry \notin Streams
    /\ \A c \in Streams : FileOf[c] \in TailFiles /\ Follows[c] \subseteq Streams /\ SessionOf[c] \in Sessions
    /\ MaxTailsPerHost \in Nat \ {0} /\ RingLines \in Nat \ {0} /\ MaxLines \in Nat
BY TailAssumption DEF NoEntry, Sessions

\* What a stream that joins is told of the entry is not less than there is.
LEMMA TailReplays ==
    ASSUME TailData, NEW e \in Streams, NEW id \in TailIds
    PROVE  LET r    == Replayed(e, id)
               begin == IF id.entry = e THEN id.n + 1 ELSE total[e] - r.sent
           IN  /\ r.sent \in Nat /\ r.gap \in Nat /\ begin \in Nat
               /\ begin + r.gap + r.sent >= total[e]
               /\ r.sent > 0 => total[e] - 1 \in Nat
<1>1. /\ total[e] \in Nat /\ ring[e] \in Nat /\ ring[e] <= total[e]
      /\ id.n \in Nat /\ NoId.entry = NoEntry /\ NoEntry # e
    BY TailConsts DEF TailData, TailIds, NoId
<1>2. CASE id = NoId
    <2>1. Replayed(e, id) = [sent |-> ring[e], gap |-> 0] /\ id.entry # e
        BY <1>1, <1>2 DEF Replayed
    <2>2. QED
        BY <1>1, <2>1
<1>3. CASE id # NoId /\ (total[e] = 0 \/ id.n + 1 >= total[e])
    <2>1. Replayed(e, id) = [sent |-> 0, gap |-> 0]
        BY <1>1, <1>3 DEF Replayed
    <2>2. QED
        BY <1>1, <1>3, <2>1
<1>4. CASE id # NoId /\ total[e] # 0 /\ id.n + 1 < total[e] /\ id.n + 1 < total[e] - ring[e]
    <2>1. Replayed(e, id) = [sent |-> ring[e], gap |-> total[e] - ring[e] - (id.n + 1)]
        BY <1>1, <1>4 DEF Replayed
    <2>2. QED
        BY <1>1, <1>4, <2>1
<1>5. CASE id # NoId /\ total[e] # 0 /\ id.n + 1 < total[e] /\ ~(id.n + 1 < total[e] - ring[e])
    <2>1. Replayed(e, id) = [sent |-> total[e] - (id.n + 1), gap |-> 0]
        BY <1>1, <1>5 DEF Replayed
    <2>2. QED
        BY <1>1, <1>5, <2>1
<1>6. QED
    BY <1>1, <1>2, <1>3, <1>4, <1>5

\* What a session is charged for when one of its streams begins or ends.
LEMMA TailCharges ==
    ASSUME TailData, TailCount, NEW c \in Streams, stream' \in [Streams -> TailStreams],
           \A d \in Streams \ {c} : stream'[d] = stream[d]
    PROVE  /\ stream[c] = "new" /\ stream'[c] \in {"open", "thrown"} =>
                TailCount' \/ perSession' # [perSession EXCEPT ![SessionOf[c]] = @ + 1]
           /\ stream[c] \in {"open", "ended"} /\ stream'[c] = "closed" =>
                TailCount' \/ perSession' # [perSession EXCEPT ![SessionOf[c]] = @ - 1]
<1> DEFINE s == SessionOf[c]
<1>1. s \in Sessions /\ Charged(s) \subseteq Streams /\ IsFiniteSet(Charged(s)) /\ IsFiniteSet(Charged(s)')
    <2>1. s \in Sessions /\ Charged(s) \subseteq Streams /\ Charged(s)' \subseteq Streams
        BY TailConsts DEF Charged
    <2>2. QED
        BY <2>1, TailConsts, FS_Subset
<1>2. ASSUME NEW t \in Sessions, t # s PROVE Charged(t)' = Charged(t)
    BY <1>2 DEF Charged
<1>3. ASSUME stream[c] = "new", stream'[c] \in {"open", "thrown"}, perSession' = [perSession EXCEPT ![s] = @ + 1]
      PROVE  TailCount'
    <2>1. Charged(s)' = Charged(s) \cup {c} /\ c \notin Charged(s)
        BY <1>3 DEF Charged
    <2>2. Cardinality(Charged(s)') = Cardinality(Charged(s)) + 1
        BY <1>1, <2>1, FS_AddElement
    <2>3. perSession' = [t \in Sessions |-> Cardinality(Charged(t)')]
        BY <1>1, <1>2, <1>3, <2>2 DEF TailCount
    <2>4. QED
        BY <2>3 DEF TailCount
<1>4. ASSUME stream[c] \in {"open", "ended"}, stream'[c] = "closed", perSession' = [perSession EXCEPT ![s] = @ - 1]
      PROVE  TailCount'
    <2>1. Charged(s)' = Charged(s) \ {c} /\ c \in Charged(s)
        BY <1>4 DEF Charged
    <2>2. Cardinality(Charged(s)') = Cardinality(Charged(s)) - 1
        BY <1>1, <2>1, FS_RemoveElement
    <2>3. perSession' = [t \in Sessions |-> Cardinality(Charged(t)')]
        BY <1>1, <1>2, <1>4, <2>2 DEF TailCount
    <2>4. QED
        BY <2>3 DEF TailCount
<1>5. QED
    BY <1>3, <1>4

\* A map that loses entries has room.
LEMMA TailFewer ==
    ASSUME TailInv, entryAt' \in [TailFiles -> Streams \cup {NoEntry}],
           \A f \in TailFiles : entryAt'[f] \in {entryAt[f], NoEntry}
    PROVE  TailMap' /\ Mapped' \subseteq Mapped
<1>1. Mapped' \subseteq Mapped /\ Mapped \subseteq Streams
    BY DEF Mapped, TailInv, TailData
<1>2. /\ IsFiniteSet(Mapped) /\ Cardinality(Mapped') <= Cardinality(Mapped)
      /\ Cardinality(Mapped') \in Nat /\ Cardinality(Mapped) \in Nat
    BY <1>1, TailConsts, FS_Subset, FS_CardinalityType
<1>3. Cardinality(Mapped)' <= MaxTailsPerHost
    BY <1>2, TailConsts DEF TailInv, TailMap
<1>4. QED
    BY <1>1, <1>3 DEF TailInv, TailMap

LEMMA TailOpenKeeps ==
    ASSUME TailInv, NEW c \in Streams, TailOpen(c)
    PROVE  TailInv'
<1> DEFINE f == FileOf[c]
<1>1. /\ stream[c] = "new" /\ entryAt[f] = NoEntry /\ f \in TailFiles
      /\ entryAt' = [entryAt EXCEPT ![f] = c] /\ source' = [source EXCEPT ![c] = "live"]
      /\ subs' = [subs EXCEPT ![c] = {c}] /\ stream' = [stream EXCEPT ![c] = "open"]
      /\ perSession' = [perSession EXCEPT ![SessionOf[c]] = @ + 1]
      /\ UNCHANGED <<total, ring, reaper, strays, slow, told, lastId, dropped>>
      /\ Cardinality(Mapped) < MaxTailsPerHost
    BY TailConsts DEF TailOpen, Admitted, tailHeld
<1>2. TailData /\ TailMap /\ TailNew /\ TailTold /\ TailCount /\ SourceIsWatched
    BY DEF TailInv
<1>3. TailData'
    BY <1>1, <1>2 DEF TailData, TailStreams
<1>4. TailMap'
    <2>1. \A g \in TailFiles : entryAt'[g] # NoEntry => FileOf[entryAt'[g]] = g
        BY <1>1, <1>2 DEF TailData, TailMap
    <2>2. Mapped' \subseteq Mapped \cup {c} /\ Mapped \subseteq Streams
        BY <1>1, <1>2 DEF Mapped, TailData
    <2>3. /\ IsFiniteSet(Mapped) /\ IsFiniteSet(Mapped \cup {c}) /\ Cardinality(Mapped) \in Nat
          /\ Cardinality(Mapped \cup {c}) \in Nat /\ Cardinality(Mapped \cup {c}) <= Cardinality(Mapped) + 1
        BY <2>2, TailConsts, FS_Subset, FS_AddElement, FS_CardinalityType
    <2>4. Cardinality(Mapped') \in Nat /\ Cardinality(Mapped') <= Cardinality(Mapped \cup {c})
        BY <2>2, <2>3, FS_Subset, FS_CardinalityType
    <2>5. Cardinality(Mapped') <= MaxTailsPerHost
        BY <1>1, <2>3, <2>4, TailConsts
    <2>6. QED
        BY <2>1, <2>5 DEF TailMap
<1>5. TailNew'
    BY <1>1, <1>2 DEF TailData, TailNew
<1>6. TailTold'
    <2>1. total[c] = 0 /\ told[c] \in Nat /\ dropped[c] \in Nat
        BY <1>1, <1>2 DEF TailData, TailNew
    <2>2. \A e \in Streams \ {c} : subs'[e] = subs[e] /\ c \notin subs[e]
        BY <1>1, <1>2 DEF TailData, TailNew
    <2>3. subs'[c] = {c} /\ \A d \in Streams \ {c} : stream'[d] = stream[d]
        BY <1>1, <1>2 DEF TailData
    <2>4. ASSUME NEW e \in Streams, NEW d \in subs'[e], stream'[d] # "closed"
          PROVE  told'[d] + dropped'[d] >= total'[e]
        <3>1. CASE e = c
            BY <1>1, <2>1, <2>3, <3>1
        <3>2. CASE e # c
            <4>1. d \in subs[e] /\ d # c /\ d \in Streams
                BY <1>2, <2>2, <2>4, <3>2 DEF TailData
            <4>2. QED
                BY <1>1, <1>2, <2>3, <2>4, <4>1 DEF TailTold
        <3>3. QED
            BY <3>1, <3>2
    <2>5. QED
        BY <2>4 DEF TailTold
<1>7. TailCount'
    BY <1>1, <1>2, <1>3, TailCharges DEF TailData
<1>8. SourceIsWatched'
    <2>1. Mapped' \subseteq Mapped \cup {c} /\ Mapped \subseteq Streams
        BY <1>1, <1>2 DEF Mapped, TailData
    <2>2. subs'[c] = {c} /\ \A x \in Streams \ {c} : subs'[x] = subs[x] /\ source'[x] = source[x]
        BY <1>1, <1>2 DEF TailData
    <2>3. QED
        BY <1>2, <2>1, <2>2 DEF SourceIsWatched
<1>9. QED
    BY <1>3, <1>4, <1>5, <1>6, <1>7, <1>8 DEF TailInv

LEMMA TailJoinKeeps ==
    ASSUME TailInv, NEW c \in Streams, TailJoin(c)
    PROVE  TailInv'
<1> DEFINE e == entryAt[FileOf[c]]
<1>1. TailData /\ TailMap /\ TailNew /\ TailTold /\ TailCount /\ SourceIsWatched
    BY DEF TailInv
<1>2. /\ stream[c] = "new" /\ e \in Streams /\ reaper' = reaper \ {e}
      /\ subs' = [subs EXCEPT ![e] = @ \cup {c}]
      /\ perSession' = [perSession EXCEPT ![SessionOf[c]] = @ + 1]
      /\ UNCHANGED <<entryAt, source, total, ring, strays, slow, dropped>>
    BY <1>1, TailConsts DEF TailJoin, TailData
<1>3. PICK id \in {NoId} \cup {lastId[p] : p \in Follows[c]} :
        LET r    == Replayed(e, id)
            begin == IF id.entry = e THEN id.n + 1 ELSE total[e] - r.sent
        IN  /\ told'    = [told EXCEPT ![c] = begin + r.gap + r.sent]
            /\ lastId'  = [lastId EXCEPT ![c] = IF r.sent > 0 THEN [entry |-> e, n |-> total[e] - 1] ELSE id]
            /\ stream'  = [stream EXCEPT ![c] = IF r.sent + r.gap > 0 THEN "thrown" ELSE "open"]
    BY DEF TailJoin
<1>4. id \in TailIds
    BY <1>1, <1>3, TailConsts DEF TailIds, NoId, TailData
<1> DEFINE r    == Replayed(e, id)
           begin == IF id.entry = e THEN id.n + 1 ELSE total[e] - r.sent
           held == begin + r.gap + r.sent
           now  == IF r.sent > 0 THEN [entry |-> e, n |-> total[e] - 1] ELSE id
           at   == IF r.sent + r.gap > 0 THEN "thrown" ELSE "open"
<1>5. held \in Nat /\ held >= total[e] /\ now \in TailIds /\ at \in {"thrown", "open"}
    <2>1. /\ r.sent \in Nat /\ r.gap \in Nat /\ begin \in Nat /\ begin + r.gap + r.sent >= total[e]
          /\ r.sent > 0 => total[e] - 1 \in Nat
        BY <1>1, <1>2, <1>4, TailReplays
    <2>2. now \in TailIds
        <3>1. CASE r.sent > 0
            <4>1. now = [entry |-> e, n |-> total[e] - 1]
                BY <3>1
            <4>2. QED
                BY <1>2, <2>1, <3>1, <4>1 DEF TailIds
        <3>2. CASE ~(r.sent > 0)
            BY <1>4, <3>2
        <3>3. QED
            BY <3>1, <3>2
    <2> HIDE DEF r, begin
    <2>3. QED
        BY <2>1, <2>2
<1>6. /\ told' = [told EXCEPT ![c] = held] /\ lastId' = [lastId EXCEPT ![c] = now]
      /\ stream' = [stream EXCEPT ![c] = at]
    BY <1>3
<1> HIDE DEF e, held, now, at, r, begin
<1>7. TailData'
    BY <1>1, <1>2, <1>5, <1>6 DEF TailData, TailStreams
<1>8. TailMap' /\ SourceIsWatched'
    <2>1. Mapped' = Mapped
        BY <1>2 DEF Mapped
    <2>2. QED
        BY <1>1, <1>2, <2>1 DEF TailMap, SourceIsWatched, TailData, Mapped
<1>9. TailNew'
    BY <1>1, <1>2, <1>5, <1>6 DEF TailNew, TailData
<1>10. TailTold'
    <2>1. ASSUME NEW x \in Streams, NEW d \in subs'[x], stream'[d] # "closed"
          PROVE  told'[d] + dropped'[d] >= total'[x]
        <3>1. d \in Streams /\ dropped[d] \in Nat /\ (d \in subs[x] \/ (x = e /\ d = c))
            BY <1>1, <1>2, <1>7, <2>1 DEF TailData
        <3>2. CASE d = c
            <4>1. x = e
                BY <1>1, <1>2, <3>1, <3>2 DEF TailNew
            <4>2. told'[d] = held /\ dropped'[d] \in Nat /\ total'[x] = total[e] /\ total[e] \in Nat
                BY <1>1, <1>2, <1>6, <3>1, <3>2, <4>1 DEF TailData
            <4>3. QED
                BY <1>5, <4>2
        <3>3. CASE d # c
            <4>1. told'[d] = told[d] /\ stream'[d] = stream[d] /\ d \in subs[x]
                BY <1>1, <1>6, <3>1, <3>3 DEF TailData
            <4>2. QED
                BY <1>1, <1>2, <2>1, <4>1 DEF TailTold
        <3>4. QED
            BY <3>2, <3>3
    <2>2. QED
        BY <2>1 DEF TailTold
<1>11. TailCount'
    <2>1. stream' \in [Streams -> TailStreams] /\ stream'[c] \in {"open", "thrown"}
          /\ \A d \in Streams \ {c} : stream'[d] = stream[d]
        BY <1>1, <1>5, <1>6, <1>7 DEF TailData
    <2>2. QED
        BY <1>1, <1>2, <2>1, TailCharges
<1>12. QED
    BY <1>7, <1>8, <1>9, <1>10, <1>11 DEF TailInv

\* A frame goes out: nobody is told of less than before, and of the lines in it.
LEMMA TailFrame ==
    ASSUME TailInv, NEW e \in Streams, NEW n \in {0, 1}, Broadcast(e, n), UNCHANGED stream
    PROVE  /\ told' \in [Streams -> Nat] /\ dropped' \in [Streams -> Nat] /\ lastId' \in [Streams -> TailIds]
           /\ \A c \in Streams : told'[c] + dropped'[c] >= told[c] + dropped[c]
           /\ \A c \in subs[e] : stream[c] # "closed" => told'[c] + dropped'[c] >= told[c] + dropped[c] + n
<1> DEFINE heard == {c \in subs[e] : stream[c] # "closed"}
           skip  == heard \cap slow
           take  == heard \ slow
<1>1. /\ dropped' = [c \in Streams |-> IF c \in skip THEN dropped[c] + (IF n = 0 THEN 1 ELSE n)
                                       ELSE IF c \in take THEN 0 ELSE dropped[c]]
      /\ told'    = [c \in Streams |-> IF c \in take THEN told[c] + dropped[c] + n ELSE told[c]]
      /\ lastId'  = [c \in Streams |-> IF c \in take /\ n > 0
                                       THEN [entry |-> e, n |-> total[e] + n - 1] ELSE lastId[c]]
    BY DEF Broadcast
<1>2. /\ \A c \in Streams : told[c] \in Nat /\ dropped[c] \in Nat /\ lastId[c] \in TailIds
      /\ total[e] \in Nat /\ subs[e] \subseteq Streams
    BY DEF TailInv, TailData
<1>3. heard = skip \cup take /\ skip \cap take = {}
    OBVIOUS
<1>4. \A c \in subs[e] : stream[c] # "closed" => c \in heard
    OBVIOUS
<1> HIDE DEF heard, skip, take
<1>5. /\ told' \in [Streams -> Nat] /\ dropped' \in [Streams -> Nat]
    BY <1>1, <1>2
<1>6. lastId' \in [Streams -> TailIds]
    <2>1. n > 0 => [entry |-> e, n |-> total[e] + n - 1] \in TailIds
        BY <1>2 DEF TailIds
    <2>2. QED
        BY <1>1, <1>2, <2>1
<1>7. ASSUME NEW c \in Streams
      PROVE  /\ told'[c] + dropped'[c] >= told[c] + dropped[c]
             /\ c \in heard => told'[c] + dropped'[c] >= told[c] + dropped[c] + n
    BY <1>1, <1>2, <1>3
<1>8. QED
    BY <1>2, <1>4, <1>5, <1>6, <1>7

LEMMA TailPublishKeeps ==
    ASSUME TailInv, NEW e \in Streams, TailPublish(e)
    PROVE  TailInv'
<1>1. TailData /\ TailMap /\ TailNew /\ TailTold /\ TailCount /\ SourceIsWatched
    BY DEF TailInv
<1>2. /\ source[e] \in {"live", "ending"} /\ total[e] < MaxLines
      /\ total' = [total EXCEPT ![e] = @ + 1] /\ ring' = [ring EXCEPT ![e] = Min({@ + 1, RingLines})]
      /\ source' = [source EXCEPT ![e] = IF @ = "ending" THEN "dead" ELSE @]
      /\ Broadcast(e, 1) /\ UNCHANGED <<entryAt, reaper, strays, subs, stream, slow, perSession>>
    BY DEF TailPublish
<1>3. /\ told' \in [Streams -> Nat] /\ dropped' \in [Streams -> Nat] /\ lastId' \in [Streams -> TailIds]
      /\ \A c \in Streams : told'[c] + dropped'[c] >= told[c] + dropped[c]
      /\ \A c \in subs[e] : stream[c] # "closed" => told'[c] + dropped'[c] >= told[c] + dropped[c] + 1
    BY <1>2, TailFrame
<1>4. TailData'
    <2>1. /\ total[e] \in Nat /\ ring[e] \in Nat /\ ring[e] <= total[e] /\ ring[e] <= RingLines
          /\ Min({ring[e] + 1, RingLines}) \in Nat /\ Min({ring[e] + 1, RingLines}) <= ring[e] + 1
          /\ Min({ring[e] + 1, RingLines}) <= RingLines
        <3>1. total[e] \in Nat /\ ring[e] \in Nat /\ ring[e] <= total[e] /\ ring[e] <= RingLines
            BY <1>1 DEF TailData
        <3>2. ring[e] + 1 \in Int /\ RingLines \in Int
            BY <3>1, TailConsts
        <3>3. /\ Min({ring[e] + 1, RingLines}) \in {ring[e] + 1, RingLines}
              /\ Min({ring[e] + 1, RingLines}) <= ring[e] + 1 /\ Min({ring[e] + 1, RingLines}) <= RingLines
            BY <3>2, LeastOfTwo
        <3>4. Min({ring[e] + 1, RingLines}) \in Nat
            BY <3>1, <3>3, TailConsts
        <3>5. QED
            BY <3>1, <3>3, <3>4
    <2>2. /\ total' \in [Streams -> Nat] /\ ring' \in [Streams -> Nat]
          /\ \A x \in Streams : ring'[x] <= total'[x] /\ total'[x] <= MaxLines /\ ring'[x] <= RingLines
        <3> DEFINE m == Min({ring[e] + 1, RingLines})
        <3>1. /\ total' = [total EXCEPT ![e] = @ + 1] /\ ring' = [ring EXCEPT ![e] = m]
              /\ total[e] \in Nat /\ m \in Nat /\ m <= ring[e] + 1 /\ m <= RingLines /\ ring[e] \in Nat
              /\ ring[e] <= total[e] /\ total[e] < MaxLines
            BY <1>2, <2>1
        <3> HIDE DEF m
        <3>2. /\ total' \in [Streams -> Nat] /\ ring' \in [Streams -> Nat]
              /\ total'[e] = total[e] + 1 /\ ring'[e] = m
              /\ \A x \in Streams \ {e} : total'[x] = total[x] /\ ring'[x] = ring[x]
            BY <1>1, <3>1 DEF TailData
        <3>3. ring'[e] <= total'[e] /\ total'[e] <= MaxLines /\ ring'[e] <= RingLines
            BY <3>1, <3>2, TailConsts
        <3>4. QED
            BY <1>1, <3>2, <3>3 DEF TailData
    <2>3. QED
        BY <1>1, <1>2, <1>3, <2>2 DEF TailData
<1>5. TailMap' /\ SourceIsWatched'
    BY <1>1, <1>2 DEF TailMap, SourceIsWatched, TailData, Mapped
<1>6. TailNew'
    BY <1>1, <1>2 DEF TailNew, TailData
<1>7. TailTold'
    <2>1. ASSUME NEW x \in Streams, NEW d \in subs'[x], stream'[d] # "closed"
          PROVE  told'[d] + dropped'[d] >= total'[x]
        <3>1. /\ d \in Streams /\ d \in subs[x] /\ stream[d] # "closed"
              /\ told[d] \in Nat /\ dropped[d] \in Nat /\ told'[d] \in Nat /\ dropped'[d] \in Nat
              /\ total[x] \in Nat /\ told[d] + dropped[d] >= total[x]
            BY <1>1, <1>2, <1>3, <2>1 DEF TailData, TailTold
        <3>2. total'[x] = IF x = e THEN total[x] + 1 ELSE total[x]
            BY <1>1, <1>2 DEF TailData
        <3>3. QED
            BY <1>3, <3>1, <3>2
    <2>2. QED
        BY <2>1 DEF TailTold
<1>8. TailCount'
    BY <1>1, <1>2 DEF TailCount, Charged
<1>9. QED
    BY <1>4, <1>5, <1>6, <1>7, <1>8 DEF TailInv

LEMMA TailRotatedKeeps ==
    ASSUME TailInv, NEW e \in Streams, TailRotated(e)
    PROVE  TailInv'
<1>1. TailData /\ TailMap /\ TailNew /\ TailTold /\ TailCount /\ SourceIsWatched
    BY DEF TailInv
<1>2. Broadcast(e, 0) /\ UNCHANGED <<entryAt, source, total, ring, reaper, strays, subs, stream, slow, perSession>>
    BY DEF TailRotated, tailEntry
<1>3. /\ told' \in [Streams -> Nat] /\ dropped' \in [Streams -> Nat] /\ lastId' \in [Streams -> TailIds]
      /\ \A c \in Streams : told'[c] + dropped'[c] >= told[c] + dropped[c]
    BY <1>2, TailFrame
<1>4. TailData'
    BY <1>1, <1>2, <1>3 DEF TailData
<1>5. TailMap' /\ SourceIsWatched' /\ TailNew' /\ TailCount'
    BY <1>1, <1>2 DEF TailMap, SourceIsWatched, Mapped, TailNew, TailCount, Charged
<1>6. TailTold'
    <2>1. ASSUME NEW x \in Streams, NEW d \in subs'[x], stream'[d] # "closed"
          PROVE  told'[d] + dropped'[d] >= total'[x]
        <3>1. /\ d \in Streams /\ told[d] \in Nat /\ dropped[d] \in Nat /\ told'[d] \in Nat /\ dropped'[d] \in Nat
              /\ total'[x] = total[x] /\ total[x] \in Nat /\ told[d] + dropped[d] >= total[x]
            BY <1>1, <1>2, <1>3, <2>1 DEF TailData, TailTold
        <3>2. QED
            BY <1>3, <3>1
    <2>2. QED
        BY <2>1 DEF TailTold
<1>7. QED
    BY <1>4, <1>5, <1>6 DEF TailInv

LEMMA TailFatalKeeps ==
    ASSUME TailInv, NEW e \in Streams, TailFatal(e)
    PROVE  TailInv'
<1>1. TailData /\ TailMap /\ TailNew /\ TailTold /\ TailCount /\ SourceIsWatched
    BY DEF TailInv
<1>2. /\ source[e] = "live" /\ source' = [source EXCEPT ![e] = "dead"] /\ reaper' = reaper \ {e}
      /\ subs' = [subs EXCEPT ![e] = {}]
      /\ stream' = [c \in Streams |-> IF c \in subs[e] /\ stream[c] = "open" THEN "ended" ELSE stream[c]]
      /\ entryAt' = [f \in TailFiles |-> IF f = FileOf[e] THEN NoEntry ELSE entryAt[f]]
      /\ UNCHANGED <<total, ring, strays, slow, told, lastId, dropped, perSession>>
    BY DEF TailFatal, tailHeld
<1>3. TailData'
    BY <1>1, <1>2 DEF TailData, TailStreams
<1>4. TailMap' /\ Mapped' \subseteq Mapped
    BY <1>1, <1>2, <1>3, TailFewer DEF TailData
<1>5. TailNew'
    BY <1>1, <1>2 DEF TailNew, TailData
<1>6. TailTold'
    BY <1>1, <1>2 DEF TailTold, TailData
<1>7. TailCount'
    <2>1. ASSUME NEW s \in Sessions PROVE Charged(s)' = Charged(s)
        BY <1>1, <1>2 DEF Charged, TailData
    <2>2. QED
        BY <1>1, <1>2, <2>1 DEF TailCount
<1>8. SourceIsWatched'
    BY <1>1, <1>2, <1>4 DEF SourceIsWatched, Mapped, TailData
<1>9. QED
    BY <1>3, <1>4, <1>5, <1>6, <1>7, <1>8 DEF TailInv

LEMMA TailCloseKeeps ==
    ASSUME TailInv, NEW c \in Streams, TailClose(c)
    PROVE  TailInv'
<1> DEFINE e == entryAt[FileOf[c]]
<1>1. TailData /\ TailMap /\ TailNew /\ TailTold /\ TailCount /\ SourceIsWatched
    BY DEF TailInv
<1>2. /\ stream[c] \in {"open", "ended"} /\ stream' = [stream EXCEPT ![c] = "closed"]
      /\ slow' = slow \ {c} /\ told' = [told EXCEPT ![c] = 0] /\ dropped' = [dropped EXCEPT ![c] = 0]
      /\ perSession' = [perSession EXCEPT ![SessionOf[c]] = @ - 1]
      /\ UNCHANGED <<entryAt, total, ring, lastId>>
    BY DEF TailClose
<1>3. \/ e = NoEntry /\ UNCHANGED <<subs, source, reaper, strays>>
      \/ /\ e \in Streams /\ subs' = [subs EXCEPT ![e] = @ \ {c}]
         /\ \/ /\ subs[e] \subseteq {c} /\ source' = [source EXCEPT ![e] = IF @ = "live" THEN "ending" ELSE @]
               /\ strays' = IF e \in reaper THEN [strays EXCEPT ![FileOf[c]] = @ + 1] ELSE strays
               /\ reaper' = reaper \cup {e}
            \/ ~(subs[e] \subseteq {c}) /\ UNCHANGED <<source, reaper, strays>>
    <2>1. e \in Streams \cup {NoEntry}
        BY <1>1, TailConsts DEF TailData
    <2>2. QED
        BY <2>1 DEF TailClose, Stopped
<1> HIDE DEF e
<1>4. TailData'
    <2>1. strays' \in [TailFiles -> Nat] /\ reaper' \subseteq Streams
        BY <1>1, <1>3 DEF TailData
    <2>2. source' \in [Streams -> {"none", "live", "ending", "dead"}] /\ subs' \in [Streams -> SUBSET Streams]
        BY <1>1, <1>3 DEF TailData
    <2>3. QED
        BY <1>1, <1>2, <2>1, <2>2 DEF TailData, TailStreams
<1>5. TailMap' /\ Mapped' = Mapped
    BY <1>1, <1>2 DEF TailMap, Mapped
<1>6. TailNew'
    BY <1>1, <1>2, <1>3 DEF TailNew, TailData
<1>7. TailTold'
    BY <1>1, <1>2, <1>3 DEF TailTold, TailData
<1>8. TailCount'
    <2>1. stream' \in [Streams -> TailStreams] /\ stream'[c] = "closed"
          /\ \A d \in Streams \ {c} : stream'[d] = stream[d]
        BY <1>1, <1>2, <1>4 DEF TailData
    <2>2. QED
        BY <1>1, <1>2, <2>1, TailCharges
<1>9. SourceIsWatched'
    <2> SUFFICES ASSUME NEW x \in Mapped, source'[x] = "live" PROVE subs'[x] # {}
        BY <1>5 DEF SourceIsWatched
    <2>1. x \in Streams /\ (source[x] = "live" => subs[x] # {})
        BY <1>1 DEF SourceIsWatched, Mapped, TailData
    <2>2. CASE e \in Streams /\ x = e /\ ~ UNCHANGED subs
        BY <1>1, <1>3, <2>1, <2>2, TailConsts DEF TailData
    <2>3. CASE subs'[x] = subs[x]
        <3>1. source'[x] = source[x] \/ source'[x] = "ending"
            BY <1>1, <1>3, <2>1 DEF TailData
        <3>2. QED
            BY <2>1, <2>3, <3>1
    <2>4. QED
        BY <1>1, <1>3, <2>1, <2>2, <2>3 DEF TailData
<1>10. QED
    BY <1>4, <1>5, <1>6, <1>7, <1>8, <1>9 DEF TailInv

LEMMA TailKeeps ==
    ASSUME TailInv, [TailNext]_tailVars
    PROVE  TailInv'
<1>1. TailData /\ TailMap /\ TailNew /\ TailTold /\ TailCount /\ SourceIsWatched
    BY DEF TailInv
<1>2. ASSUME NEW c \in Streams, TailSlow(c) PROVE TailInv'
    <2>1. slow' \subseteq Streams
          /\ UNCHANGED <<entryAt, source, total, ring, reaper, strays, subs, stream, told, lastId, dropped, perSession>>
        BY <1>1, <1>2 DEF TailSlow, TailData, tailEntry
    <2>2. TailData' /\ TailMap' /\ TailNew'
        BY <1>1, <2>1 DEF TailData, TailMap, Mapped, TailNew
    <2>3. TailTold' /\ TailCount' /\ SourceIsWatched'
        BY <1>1, <2>1 DEF TailTold, TailCount, Charged, SourceIsWatched, Mapped
    <2>4. QED
        BY <2>2, <2>3 DEF TailInv
<1>3. ASSUME NEW f \in TailFiles, TailReap(f) PROVE TailInv'
    <2>1. /\ reaper' \subseteq reaper /\ entryAt' = [entryAt EXCEPT ![f] = NoEntry]
          /\ strays' = [strays EXCEPT ![f] = IF @ > 0 /\ entryAt[f] \notin reaper THEN @ - 1 ELSE @]
          /\ UNCHANGED <<source, total, ring, subs, stream, slow, told, lastId, dropped, perSession>>
        BY <1>3 DEF TailReap, tailHeld
    <2>2. TailData'
        BY <1>1, <2>1 DEF TailData
    <2>3. TailMap' /\ Mapped' \subseteq Mapped
        <3>1. \A g \in TailFiles : entryAt'[g] \in {entryAt[g], NoEntry}
            BY <1>1, <2>1 DEF TailData
        <3>2. QED
            BY <2>2, <3>1, TailFewer DEF TailData
    <2>4. TailNew' /\ TailTold' /\ TailCount' /\ SourceIsWatched'
        BY <1>1, <2>1, <2>3 DEF TailNew, TailTold, TailCount, Charged, SourceIsWatched
    <2>5. QED
        BY <2>2, <2>3, <2>4 DEF TailInv
<1>4. CASE UNCHANGED tailVars
    <2>1. UNCHANGED <<entryAt, source, total, ring, reaper, strays, subs, stream, slow, told, lastId, dropped, perSession>>
        BY <1>4 DEF tailVars, tailEntry, tailHeld
    <2>2. TailData' /\ TailMap' /\ TailNew'
        BY <1>1, <2>1 DEF TailData, TailMap, Mapped, TailNew
    <2>3. TailTold' /\ TailCount' /\ SourceIsWatched'
        BY <1>1, <2>1 DEF TailTold, TailCount, Charged, SourceIsWatched, Mapped
    <2>4. QED
        BY <2>2, <2>3 DEF TailInv
<1>5. QED
    BY <1>2, <1>3, <1>4, TailOpenKeeps, TailJoinKeeps, TailPublishKeeps, TailRotatedKeeps,
       TailFatalKeeps, TailCloseKeeps DEF TailNext

LEMMA TailStarts ==
    ASSUME TailInit
    PROVE  TailInv
<1>1. Mapped = {} /\ Cardinality({}) = 0
    BY FS_EmptySet DEF TailInit, Mapped
<1>2. TailData
    BY TailConsts DEF TailInit, TailData, TailIds, TailStreams, NoId
<1>3. TailMap /\ SourceIsWatched
    BY <1>1, TailConsts DEF TailInit, TailMap, SourceIsWatched
<1>4. TailNew /\ TailTold
    BY DEF TailInit, TailNew, TailTold
<1>5. TailCount
    <2>1. \A s \in Sessions : Charged(s) = {}
        BY DEF TailInit, Charged
    <2>2. QED
        BY <1>1, <2>1 DEF TailInit, TailCount
<1>6. QED
    BY <1>2, <1>3, <1>4, <1>5 DEF TailInv

LEMMA TailHolds ==
    ASSUME TailInv
    PROVE  TailTypeOK /\ SourceIsWatched /\ TailsAreCounted /\ NoLineIsMissed
<1>1. /\ SourceIsWatched /\ NoLineIsMissed
    BY DEF TailInv, TailTold, NoLineIsMissed
<1>2. TailsAreCounted
    BY DEF TailInv, TailMap, TailCount, Charged, TailsAreCounted
<1>3. perSession \in [Sessions -> Nat]
    <2>1. \A s \in Sessions : Charged(s) \subseteq Streams
        BY DEF Charged
    <2>2. \A s \in Sessions : Cardinality(Charged(s)) \in Nat
        BY <2>1, TailConsts, FS_Subset, FS_CardinalityType
    <2>3. QED
        BY <2>2 DEF TailInv, TailCount
<1>4. TailTypeOK
    BY <1>3 DEF TailInv, TailData, TailIds, TailStreams, TailTypeOK
<1>5. QED
    BY <1>1, <1>2, <1>4

\* TailRegistry: a source that can be found and runs has a subscriber, a session
\* is charged for the streams it has not closed and the host's entries are within
\* their cap, and no subscriber misses a line without being told, whatever opens,
\* joins, closes, timers and fatal errors come between, for any streams and files.
THEOREM TailsAlwaysTrue == TailSpec => [](TailTypeOK /\ SourceIsWatched /\ TailsAreCounted /\ NoLineIsMissed)
<1>1. TailInit => TailInv
    BY TailStarts
<1>2. TailInv /\ [TailNext]_tailVars => TailInv'
    BY TailKeeps
<1>3. TailInv => TailTypeOK /\ SourceIsWatched /\ TailsAreCounted /\ NoLineIsMissed
    BY TailHolds
<1>4. QED
    BY <1>1, <1>2, <1>3, PTL DEF TailSpec

-----------------------------------------------------------------------------
(* Downloads.                                                              *)

DownSteps == {"idle", "stat", "walk", "record", "open", "send", "over", "refused", "gone"}
Routes    == {"none", "session", "link", "preview"}

\* A window as it was asked for, and one clamped to a file of n bytes.
Partly(n) == {w \in [kind : {"partial"}, start : Nat, end : Nat] : w.start <= w.end /\ w.end < n}

DownData ==
    /\ onDisk \in [DownNames -> {"none", "file", "dir"}] /\ size \in [DownNames -> 0..MaxBytes]
    /\ listable \subseteq DownNames /\ rootFor \in BOOLEAN /\ meddled \in 0..MaxMeddling
    /\ token \in DownNames \cup {""} /\ fresh \in BOOLEAN
    /\ downStep \in DownSteps /\ want.route \in Routes /\ want.path \in DownNames
    /\ want = [route |-> want.route, path |-> want.path, range |-> want.range]
    /\ dplan.kind \in {"none", "file", "dir"} /\ dplan.size \in 0..MaxBytes
    /\ auditRow \in {"none", "open", "success", "failure"}
    /\ manifest \in Seq(DownNames) /\ zipped \subseteq DownNames /\ steady \subseteq DownNames
    /\ short \in BOOLEAN

\* What is promised, and of which window, once there is a plan; and what of it
\* is under way.
DownPlan ==
    /\ dplan.kind = "none" => promised = NoBytes
    /\ dplan.kind = "dir" => promised \in {NoBytes, 0}
    /\ dplan.kind # "file" => want.range \in Windows
    /\ dplan.kind = "file" =>
        \/ want.range = WholeFile /\ promised = dplan.size
        \/ want.range \in Partly(dplan.size) /\ promised = RangeLength(want.range)
    /\ downStep \in {"idle", "stat", "walk"} => dplan.kind = "none"
    /\ downStep \in {"record", "open", "send", "over"} => dplan.kind # "none"

DownSent ==
    /\ from \in 0..MaxBytes /\ pos \in 0..MaxBytes /\ from <= pos
    /\ downStep \in {"send", "over"} /\ want.range \in Partly(dplan.size) =>
        from = want.range.start /\ pos <= want.range.end + 1

\* Nothing that is closed is asked for, or to be sent.
DownOpen ==
    /\ downStep \in {"stat", "walk", "record", "open", "send"} => ~Closed(want.path)
    /\ \A n \in ToSet(manifest) \cup zipped : ~Closed(n)

\* What was there all along is there to be walked, and what was walked is in
\* the archive or is still to come.
DownTree ==
    /\ steady \subseteq {want.path} \cup Seen(want.path)
    /\ downStep = "idle" => steady = {}
    /\ downStep = "send" /\ dplan.kind = "dir" /\ ~short => steady \subseteq zipped \cup ToSet(manifest)
    /\ downStep = "over" => ArchiveIsTheTree

DownRow ==
    /\ downStep # "over" => auditRow \in {"none", "open"}
    /\ FailureIsShort

DownInv == DownData /\ DownPlan /\ DownSent /\ DownOpen /\ DownTree /\ DownRow

LEMMA DownConsts ==
    /\ DownEntries \in Seq(DownNames) /\ DownNames = ToSet(DownEntries) /\ IsFiniteSet(DownNames)
    /\ DownCeiling \in Nat /\ SeenCeiling \in Nat /\ MaxBytes \in Nat /\ MaxMeddling \in Nat
    /\ Churned \subseteq DownNames /\ Hidden \subseteq DownNames /\ DownTop \in DownNames
<1>1. DownEntries \in Seq(DownNames) /\ DownNames = ToSet(DownEntries)
    BY DownAssumption DEF DownNames
<1>2. IsFiniteSet(DownNames)
    BY <1>1, ToSetSize
<1>3. QED
    BY <1>1, <1>2, DownAssumption

\* A walk has its root and what can be seen under it; and one that is cut is cut
\* before its end.
LEMMA DownWalks ==
    ASSUME NEW r \in DownNames
    PROVE  /\ Walk(r) \in Seq(DownNames) /\ ToSet(Walk(r)) = {r} \cup Seen(r)
           /\ DownPaths(r) \in Seq(DownNames)
           /\ ~Exceeded(r) => ToSet(DownPaths(r)) = {r} \cup Seen(r)
<1> DEFINE I == {i \in DOMAIN DownEntries : DownEntries[i] \in {r} \cup Seen(r)}
<1>1. Seen(r) \subseteq DownNames /\ r \notin Seen(r) /\ IsFiniteSet(Seen(r)) /\ Cardinality(Seen(r)) \in Nat
    <2>1. Seen(r) \subseteq DownNames /\ r \notin Seen(r)
        BY DEF Seen
    <2>2. QED
        BY <2>1, DownConsts, FS_Subset, FS_CardinalityType
<1>2. /\ Walk(r) \in Seq(DownNames) /\ ToSet(Walk(r)) = {DownEntries[i] : i \in I}
    <2>1. I \in SUBSET DOMAIN DownEntries
        OBVIOUS
    <2>2. Walk(r) = Picked(DownEntries, I)
        BY DEF Walk
    <2> HIDE DEF I
    <2>3. QED
        BY <2>1, <2>2, DownConsts, PickedSeq
<1>3. ToSet(Walk(r)) = {r} \cup Seen(r)
    <2>1. \A n \in {r} \cup Seen(r) : \E i \in DOMAIN DownEntries : DownEntries[i] = n
        BY <1>1, DownConsts DEF ToSet
    <2> HIDE DEF Seen
    <2>2. QED
        BY <1>2, <2>1
<1> HIDE DEF I
<1>4. CASE Exceeded(r)
    <2>1. Cardinality({r} \cup Seen(r)) = Cardinality(Seen(r)) + 1
        <3>1. {r} \cup Seen(r) = Seen(r) \cup {r}
            OBVIOUS
        <3>2. r \notin Seen(r) /\ IsFiniteSet(Seen(r))
            BY <1>1
        <3> HIDE DEF Seen
        <3>3. QED
            BY <3>1, <3>2, FS_AddElement
    <2>2. Cardinality(ToSet(Walk(r))) <= Len(Walk(r)) /\ Len(Walk(r)) \in Nat
        <3>1. Walk(r) \in Seq(DownNames)
            BY <1>2
        <3>2. Len(Walk(r)) \in Nat
            BY <3>1
        <3>3. QED
            BY <3>1, <3>2, ToSetSize
    <2>3. DownCeiling + 1 <= Len(Walk(r)) /\ DownCeiling \in Nat
        BY <1>1, <1>3, <1>4, <2>1, <2>2, DownConsts DEF Exceeded
    <2>4. SubSeq(Walk(r), 1, DownCeiling + 1) \in Seq(DownNames)
        <3>1. \A i \in 1 .. DownCeiling + 1 : i \in 1 .. Len(Walk(r))
            BY <2>2, <2>3
        <3>2. QED
            BY <1>2, <2>2, <2>3, <3>1, SubSeqProperties
    <2>5. QED
        BY <1>2, <1>3, <1>4, <2>4 DEF DownPaths
<1>5. CASE ~Exceeded(r)
    BY <1>2, <1>3, <1>5 DEF DownPaths
<1>6. QED
    BY <1>2, <1>3, <1>4, <1>5

\* A window that is not refused is one of bytes that exist.
LEMMA DownParses ==
    ASSUME NEW w \in Windows, NEW n \in Nat, ParseRange(w, n).ok
    PROVE  \/ ParseRange(w, n).range = WholeFile
           \/ ParseRange(w, n).range \in Partly(n)
<1> DEFINE v == ParseRange(w, n)
<1>1. \/ w = WholeFile
      \/ \E k \in 0..MaxBytes + 1 : w = [kind |-> "suffix", start |-> 0, end |-> k]
      \/ \E a, b \in 0..MaxBytes + 1 : w = [kind |-> "window", start |-> a, end |-> b]
    BY DEF Windows
<1>0. v.ok
    OBVIOUS
<1>2. CASE w = WholeFile
    BY <1>2 DEF ParseRange, WholeFile
<1> HIDE DEF v
<1>3. ASSUME NEW k \in 0..MaxBytes + 1, w = [kind |-> "suffix", start |-> 0, end |-> k]
      PROVE  v.range \in Partly(n)
    <2>1. v = [ok |-> n > 0 /\ k > 0, range |-> [kind |-> "partial", start |-> Max({n - k, 0}), end |-> n - 1]]
        BY <1>3 DEF ParseRange, v
    <2>2. n > 0 /\ k > 0 /\ k \in Nat
        <3>1. v.ok = (n > 0 /\ k > 0)
            BY <2>1
        <3>2. k \in Nat
            BY DownConsts
        <3>3. QED
            BY <1>0, <3>1, <3>2
    <2>3. Max({n - k, 0}) \in {n - k, 0} /\ Max({n - k, 0}) >= 0
        <3>1. n - k \in Int /\ 0 \in Int
            BY <2>2
        <3>2. QED
            BY <3>1, MostOfTwo
    <2>4. Max({n - k, 0}) \in Nat /\ Max({n - k, 0}) <= n - 1 /\ n - 1 \in Nat /\ n - 1 < n
        BY <2>2, <2>3
    <2>5. QED
        BY <2>1, <2>4 DEF Partly
<1>4. ASSUME NEW a \in 0..MaxBytes + 1, NEW b \in 0..MaxBytes + 1, w = [kind |-> "window", start |-> a, end |-> b]
      PROVE  v.range \in Partly(n)
    <2>1. v = [ok |-> n > 0 /\ a < n /\ a <= b, range |-> [kind |-> "partial", start |-> a, end |-> Min({b, n - 1})]]
        BY <1>4 DEF ParseRange, v
    <2>2. n > 0 /\ a < n /\ a <= b /\ a \in Nat /\ b \in Nat
        <3>1. v.ok = (n > 0 /\ a < n /\ a <= b)
            BY <2>1
        <3>2. a \in Nat /\ b \in Nat
            BY DownConsts
        <3>3. QED
            BY <1>0, <3>1, <3>2
    <2>3. Min({b, n - 1}) \in {b, n - 1} /\ Min({b, n - 1}) <= n - 1
        <3>1. b \in Int /\ n - 1 \in Int
            BY <2>2
        <3>2. QED
            BY <3>1, LeastOfTwo
    <2>4. Min({b, n - 1}) \in Nat /\ a <= Min({b, n - 1}) /\ Min({b, n - 1}) < n
        BY <2>2, <2>3
    <2>5. QED
        BY <2>1, <2>2, <2>4 DEF Partly
<1>5. QED
    BY <1>1, <1>2, <1>3, <1>4 DEF v

\* The kinds of a window tell them apart.
LEMMA DownKinds ==
    /\ WholeFile \in Windows /\ WholeFile.kind = "full"
    /\ \A w \in Windows : w.kind # "partial"
    /\ \A n \in Nat : \A w \in Partly(n) :
        w.kind = "partial" /\ w # WholeFile /\ RangeLength(w) \in 1..n /\ w.start \in 0..n /\ w.end \in 0..n
<1>1. WholeFile \in Windows /\ WholeFile.kind = "full" /\ \A w \in Windows : w.kind # "partial"
    BY DEF Windows, WholeFile
<1>2. ASSUME NEW n \in Nat, NEW w \in Partly(n)
      PROVE  w.kind = "partial" /\ w # WholeFile /\ RangeLength(w) \in 1..n /\ w.start \in 0..n /\ w.end \in 0..n
    <2>1. w.kind = "partial" /\ w.start \in Nat /\ w.end \in Nat /\ w.start <= w.end /\ w.end < n
        BY DEF Partly
    <2>2. QED
        BY <1>1, <2>1 DEF RangeLength
<1>3. QED
    BY <1>1, <1>2

LEMMA DownMeddleKeeps ==
    ASSUME DownInv, DownMeddle
    PROVE  DownInv'
<1>1. /\ downStep \notin {"idle", "over", "refused", "gone"} /\ meddled < MaxMeddling /\ meddled' = meddled + 1
      /\ UNCHANGED <<token, fresh, downStep, want, dplan, promised, auditRow, from, pos, manifest, zipped, short>>
      /\ steady' = {n \in steady : n = want.path \/ n \in Seen(want.path)'}
    BY DEF DownMeddle, linkVars, sendVars
<1>2. /\ onDisk' \in [DownNames -> {"none", "file", "dir"}] /\ size' \in [DownNames -> 0..MaxBytes]
      /\ listable' \subseteq DownNames /\ rootFor' \in BOOLEAN
    <2>1. /\ onDisk \in [DownNames -> {"none", "file", "dir"}] /\ size \in [DownNames -> 0..MaxBytes]
          /\ listable \subseteq DownNames /\ rootFor \in BOOLEAN
        BY DEF DownInv, DownData
    <2>2. CASE \E n \in Churned, k \in {"none", "file", "dir"} :
                    onDisk' = [onDisk EXCEPT ![n] = k] /\ UNCHANGED <<size, listable, rootFor>>
        BY <2>1, <2>2
    <2>3. CASE \E s \in 0..MaxBytes : onDisk[want.path] = "file" /\ size' = [size EXCEPT ![want.path] = s]
                                       /\ UNCHANGED <<onDisk, listable, rootFor>>
        BY <2>1, <2>3
    <2>4. CASE \E n \in Hidden : listable' = SymDiff(listable, {n}) /\ UNCHANGED <<onDisk, size, rootFor>>
        BY <2>1, <2>4, DownConsts DEF SymDiff
    <2>5. CASE rootFor' = ~rootFor /\ UNCHANGED <<onDisk, size, listable>>
        BY <2>1, <2>5
    <2>6. QED
        BY <2>2, <2>3, <2>4, <2>5 DEF DownMeddle
<1>3. DownData'
    <2>1. meddled' \in 0..MaxMeddling /\ steady' \subseteq DownNames
        <3>1. meddled \in 0..MaxMeddling /\ steady \subseteq DownNames
            BY DEF DownInv, DownData
        <3>2. meddled < MaxMeddling /\ meddled' = meddled + 1 /\ steady' \subseteq steady /\ MaxMeddling \in Nat
            BY <1>1, DownConsts
        <3>3. QED
            BY ONLY <3>1, <3>2
    <2>2. QED
        BY <1>1, <1>2, <2>1 DEF DownInv, DownData
<1>4. DownPlan' /\ DownSent' /\ DownOpen'
    BY <1>1 DEF DownInv, DownPlan, DownSent, DownOpen
<1>5. DownTree'
    <2>1. steady' \subseteq steady /\ steady' \subseteq {want.path} \cup Seen(want.path)'
        BY <1>1
    <2>2. QED
        BY <1>1, <2>1 DEF DownInv, DownTree
<1>6. DownRow'
    BY <1>1 DEF DownInv, DownRow, FailureIsShort
<1>7. QED
    BY <1>3, <1>4, <1>5, <1>6 DEF DownInv

\* A link is minted or lapses.
LEMMA DownLinkKeeps ==
    ASSUME DownInv, LinkLapses \/ \E n \in DownNames : LinkMint(n)
    PROVE  DownInv'
<1>1. /\ UNCHANGED <<onDisk, size, listable, rootFor, meddled, downStep, want, dplan, promised, auditRow,
                     from, pos, manifest, zipped, steady, short>>
      /\ fresh' \in BOOLEAN /\ token' \in DownNames \cup {""}
    BY DEF LinkLapses, LinkMint, hostVars, sendVars, DownInv, DownData
<1>2. DownData'
    BY <1>1 DEF DownInv, DownData
<1>3. DownPlan' /\ DownSent' /\ DownOpen'
    BY <1>1 DEF DownInv, DownPlan, DownSent, DownOpen
<1>4. DownTree'
    BY <1>1 DEF DownInv, DownTree, Seen, There, ArchiveIsTheTree
<1>5. DownRow'
    BY <1>1 DEF DownInv, DownRow, FailureIsShort, Sent
<1>6. QED
    BY <1>2, <1>3, <1>4, <1>5 DEF DownInv

LEMMA DownAskKeeps ==
    ASSUME DownInv, NEW n \in DownNames, NEW w \in Windows, NEW route \in {"session", "link", "preview"},
           DownAsk(route, n, w)
    PROVE  DownInv'
<1>1. /\ downStep = "idle" /\ want' = [route |-> route, path |-> n, range |-> w]
      /\ \/ ~Closed(n) /\ downStep' = "stat"
         \/ downStep' = "refused"
      /\ UNCHANGED <<onDisk, size, listable, rootFor, meddled, token, fresh, dplan, promised, auditRow,
                     from, pos, manifest, zipped, steady, short>>
    BY DEF DownAsk, hostVars, linkVars, sendVars
<1>2. want'.route = route /\ want'.path = n /\ want'.range = w
    BY <1>1
<1>3. DownData'
    <2>1. /\ want'.route \in Routes /\ want'.path \in DownNames /\ downStep' \in DownSteps
          /\ want' = [route |-> want'.route, path |-> want'.path, range |-> want'.range]
        BY <1>1, <1>2 DEF Routes, DownSteps
    <2>2. QED
        BY <1>1, <2>1 DEF DownInv, DownData
<1>4. DownPlan' /\ DownSent' /\ DownOpen'
    BY <1>1, <1>2 DEF DownInv, DownPlan, DownSent, DownOpen
<1>5. DownTree'
    BY <1>1, <1>2 DEF DownInv, DownTree
<1>6. DownRow'
    BY <1>1 DEF DownInv, DownRow, FailureIsShort
<1>7. QED
    BY <1>3, <1>4, <1>5, <1>6 DEF DownInv

LEMMA DownStatKeeps ==
    ASSUME DownInv, DownStat
    PROVE  DownInv'
<1> DEFINE n == size[want.path]
           v == ParseRange(want.range, n)
<1>1. /\ downStep = "stat"
      /\ UNCHANGED <<onDisk, size, listable, rootFor, meddled, token, fresh, auditRow,
                     from, pos, manifest, zipped, steady, short>>
    BY DEF DownStat, hostVars, linkVars, sendVars
<1>2. /\ want.range \in Windows /\ n \in 0..MaxBytes /\ n \in Nat /\ dplan.kind = "none" /\ promised = NoBytes
      /\ ~Closed(want.path) /\ auditRow \in {"none", "open"}
    <2>1. dplan.kind = "none" /\ promised = NoBytes /\ want.range \in Windows
        BY <1>1 DEF DownInv, DownPlan
    <2>2. n \in 0..MaxBytes
        BY DEF DownInv, DownData
    <2>3. ~Closed(want.path) /\ auditRow \in {"none", "open"}
        BY <1>1 DEF DownInv, DownOpen, DownRow
    <2>4. QED
        BY <2>1, <2>2, <2>3, DownConsts
<1>3. CASE downStep' \in {"refused", "walk"} /\ UNCHANGED <<want, dplan, promised>>
    <2>1. DownData' /\ DownPlan' /\ DownSent' /\ DownOpen'
        BY <1>1, <1>2, <1>3 DEF DownInv, DownData, DownPlan, DownSent, DownOpen, DownSteps
    <2>2. DownTree'
        BY <1>1, <1>3 DEF DownInv, DownTree, Seen, There
    <2>3. DownRow'
        BY <1>1, <1>2, <1>3 DEF DownRow, FailureIsShort
    <2>4. QED
        BY <2>1, <2>2, <2>3 DEF DownInv
<1>4. CASE /\ v.ok /\ downStep' = "record" /\ dplan' = [kind |-> "file", size |-> n]
           /\ want' = [want EXCEPT !.range = v.range]
           /\ promised' = IF v.range = WholeFile THEN n ELSE RangeLength(v.range)
    <2>1. v.range = WholeFile \/ v.range \in Partly(n)
        BY <1>2, <1>4, DownParses
    <2> HIDE DEF v
    <2>2. want = [route |-> want.route, path |-> want.path, range |-> want.range]
        BY DEF DownInv, DownData
    <2>3. want'.route = want.route /\ want'.path = want.path /\ want'.range = v.range
          /\ want' = [route |-> want'.route, path |-> want'.path, range |-> want'.range]
        <3>1. want' = [route |-> want.route, path |-> want.path, range |-> v.range]
            BY <1>4, <2>2
        <3>2. QED
            BY <3>1
    <2>4. dplan'.kind = "file" /\ dplan'.size = n
        BY <1>4
    <2>5. DownData'
        BY <1>1, <1>2, <1>4, <2>3, <2>4 DEF DownInv, DownData, DownSteps
    <2>6. DownPlan'
        BY <1>2, <1>4, <2>1, <2>3, <2>4, DownKinds DEF DownPlan
    <2>7. DownSent' /\ DownOpen'
        BY <1>1, <1>2, <1>4, <2>3 DEF DownInv, DownSent, DownOpen
    <2>8. DownTree'
        BY <1>1, <1>4, <2>3 DEF DownInv, DownTree, Seen, There
    <2>9. DownRow'
        BY <1>1, <1>2, <1>4 DEF DownRow, FailureIsShort
    <2>10. QED
        BY <2>5, <2>6, <2>7, <2>8, <2>9 DEF DownInv
<1>5. QED
    BY <1>3, <1>4 DEF DownStat

LEMMA DownWalkKeeps ==
    ASSUME DownInv, DownWalk
    PROVE  DownInv'
<1>1. /\ downStep = "walk"
      /\ UNCHANGED <<onDisk, size, listable, rootFor, meddled, token, fresh, want, auditRow,
                     from, pos, manifest, zipped, short>>
    BY DEF DownWalk, hostVars, linkVars, sendVars
<1>2. /\ want.range \in Windows /\ dplan.kind = "none" /\ promised = NoBytes
      /\ ~Closed(want.path) /\ auditRow \in {"none", "open"} /\ want.path \in DownNames
    BY <1>1 DEF DownInv, DownData, DownPlan, DownOpen, DownRow
<1>3. \/ downStep' = "refused" /\ UNCHANGED <<dplan, promised, steady>>
      \/ /\ downStep' = "record" /\ dplan' = [kind |-> "dir", size |-> 0]
         /\ promised' \in {NoBytes, 0} /\ steady' = {want.path} \cup Seen(want.path)
    BY <1>2, DownWalks DEF DownWalk
<1>4. dplan' = dplan \/ (dplan'.kind = "dir" /\ dplan'.size = 0 /\ 0 \in 0..MaxBytes)
    BY <1>3, DownConsts
<1>5. steady' \subseteq {want.path} \cup Seen(want.path) /\ steady' \subseteq DownNames
    BY <1>2, <1>3 DEF DownInv, DownTree, DownData, Seen
<1>6. DownData'
    BY <1>1, <1>3, <1>4, <1>5 DEF DownInv, DownData, DownSteps
<1>7. DownPlan'
    <2>1. CASE downStep' = "refused" /\ UNCHANGED <<dplan, promised, steady>>
        BY <1>1, <1>2, <2>1 DEF DownPlan
    <2>2. CASE /\ downStep' = "record" /\ dplan' = [kind |-> "dir", size |-> 0]
               /\ promised' \in {NoBytes, 0} /\ steady' = {want.path} \cup Seen(want.path)
        <3>1. dplan'.kind = "dir"
            BY <2>2
        <3>2. QED
            BY <1>1, <1>2, <2>2, <3>1 DEF DownPlan
    <2>3. QED
        BY <1>3, <2>1, <2>2
<1>8. DownSent' /\ DownOpen'
    BY <1>1, <1>2, <1>3 DEF DownInv, DownSent, DownOpen
<1>9. DownTree'
    BY <1>1, <1>3, <1>5 DEF DownTree, Seen, There
<1>10. DownRow'
    BY <1>1, <1>2, <1>3 DEF DownRow, FailureIsShort
<1>11. QED
    BY <1>6, <1>7, <1>8, <1>9, <1>10 DEF DownInv

\* The row is opened, or what opens the stream throws, or the process is gone.
LEMMA DownRecordKeeps ==
    ASSUME DownInv, DownRecord \/ DownOpenFails \/ ZipBreaks
    PROVE  DownInv'
<1>1. /\ downStep \in {"record", "open", "send"} /\ downStep' \in {"open", "refused", "gone"}
      /\ auditRow' \in {auditRow, "open"}
      /\ UNCHANGED <<onDisk, size, listable, rootFor, meddled, token, fresh, want, dplan, promised,
                     from, pos, manifest, zipped, steady, short>>
    BY DEF DownRecord, DownOpenFails, ZipBreaks, hostVars, linkVars, sendVars
<1>2. DownData'
    BY <1>1 DEF DownInv, DownData, DownSteps
<1>3. DownPlan' /\ DownSent' /\ DownOpen'
    BY <1>1 DEF DownInv, DownPlan, DownSent, DownOpen
<1>4. DownTree'
    BY <1>1 DEF DownInv, DownTree, Seen, There
<1>5. DownRow'
    BY <1>1 DEF DownInv, DownRow, FailureIsShort
<1>6. QED
    BY <1>2, <1>3, <1>4, <1>5 DEF DownInv

LEMMA DownOpenFileKeeps ==
    ASSUME DownInv, DownOpenFile
    PROVE  DownInv'
<1>1. /\ downStep = "open" /\ dplan.kind = "file" /\ downStep' = "send"
      /\ from' = want.range.start /\ pos' = want.range.start
      /\ UNCHANGED <<onDisk, size, listable, rootFor, meddled, token, fresh, want, dplan, promised, auditRow,
                     manifest, zipped, short, steady>>
    BY DEF DownOpenFile, hostVars, linkVars
<1>2. /\ dplan.size \in 0..MaxBytes /\ dplan.size \in Nat
      /\ want.range = WholeFile \/ want.range \in Partly(dplan.size)
    <2>1. want.range = WholeFile \/ want.range \in Partly(dplan.size)
        BY <1>1 DEF DownInv, DownPlan
    <2>2. dplan.size \in 0..MaxBytes
        BY DEF DownInv, DownData
    <2>3. QED
        BY <2>1, <2>2, DownConsts
<1>3. want.range.start \in 0..MaxBytes
    <2>1. WholeFile.start = 0 /\ 0 \in 0..MaxBytes
        BY DownConsts DEF WholeFile
    <2>2. QED
        BY <1>2, <2>1, DownKinds, DownConsts
<1>4. DownData' /\ DownPlan' /\ DownOpen'
    BY <1>1 DEF DownInv, DownData, DownPlan, DownOpen, DownSteps
<1>5. DownSent'
    <2>1. want.range \in Partly(dplan.size) => want.range.start <= want.range.end + 1
        BY DEF Partly
    <2>2. QED
        BY <1>1, <1>3, <2>1 DEF DownSent
<1>6. DownTree'
    BY <1>1 DEF DownInv, DownTree, Seen, There
<1>7. DownRow'
    BY <1>1 DEF DownInv, DownRow, FailureIsShort
<1>8. QED
    BY <1>4, <1>5, <1>6, <1>7 DEF DownInv

LEMMA DownArchiveKeeps ==
    ASSUME DownInv, DownOpenArchive
    PROVE  DownInv'
<1>1. /\ downStep = "open" /\ dplan.kind = "dir" /\ downStep' = "send"
      /\ \A n \in ToSet(DownPaths(want.path)) : ~Closed(n)
      /\ manifest' = DownPaths(want.path) /\ short' = Exceeded(want.path)
      /\ UNCHANGED <<onDisk, size, listable, rootFor, meddled, token, fresh, want, dplan, promised, auditRow,
                     from, pos, zipped, steady>>
    BY DEF DownOpenArchive, hostVars, linkVars
<1>2. /\ want.path \in DownNames /\ DownPaths(want.path) \in Seq(DownNames)
      /\ ~Exceeded(want.path) => ToSet(DownPaths(want.path)) = {want.path} \cup Seen(want.path)
    <2>1. want.path \in DownNames
        BY DEF DownInv, DownData
    <2>2. QED
        BY <2>1, DownWalks
<1>3. DownData'
    <2>1. short' \in BOOLEAN
        BY <1>1 DEF Exceeded
    <2>2. QED
        BY <1>1, <1>2, <2>1 DEF DownInv, DownData, DownSteps
<1>4. DownPlan' /\ DownOpen'
    BY <1>1 DEF DownInv, DownPlan, DownOpen
<1>5. DownSent'
    <2>1. want.range \in Windows /\ dplan.size \in Nat
        <3>1. dplan.size \in 0..MaxBytes
            BY DEF DownInv, DownData
        <3>2. want.range \in Windows
            BY <1>1 DEF DownInv, DownPlan
        <3>3. QED
            BY <3>1, <3>2, DownConsts
    <2>2. want.range \notin Partly(dplan.size)
        BY <2>1, DownKinds
    <2>3. QED
        BY <1>1, <2>2 DEF DownInv, DownSent
<1>6. DownTree'
    <2>1. steady \subseteq {want.path} \cup Seen(want.path) /\ Seen(want.path)' = Seen(want.path)
        BY <1>1 DEF DownInv, DownTree, Seen, There
    <2>2. QED
        BY <1>1, <1>2, <2>1 DEF DownTree
<1>7. DownRow'
    BY <1>1 DEF DownInv, DownRow, FailureIsShort
<1>8. QED
    BY <1>3, <1>4, <1>5, <1>6, <1>7 DEF DownInv

LEMMA DownReadKeeps ==
    ASSUME DownInv, DownRead
    PROVE  DownInv'
<1>1. /\ downStep = "send" /\ dplan.kind = "file" /\ pos < StreamEnd /\ pos' = pos + 1
      /\ UNCHANGED <<onDisk, size, listable, rootFor, meddled, token, fresh, downStep, want, dplan, promised,
                     auditRow, from, manifest, zipped, short, steady>>
    BY DEF DownRead, hostVars, linkVars
<1>2. /\ size[want.path] \in 0..MaxBytes /\ pos \in 0..MaxBytes /\ from \in 0..MaxBytes /\ from <= pos
      /\ dplan.size \in Nat /\ MaxBytes \in Nat
      /\ want.range = WholeFile \/ want.range \in Partly(dplan.size)
    <2>1. want.range = WholeFile \/ want.range \in Partly(dplan.size)
        BY <1>1 DEF DownInv, DownPlan
    <2>2. dplan.size \in 0..MaxBytes /\ size[want.path] \in 0..MaxBytes
        BY DEF DownInv, DownData
    <2>3. pos \in 0..MaxBytes /\ from \in 0..MaxBytes /\ from <= pos
        BY DEF DownInv, DownSent
    <2>4. QED
        BY <2>1, <2>2, <2>3, DownConsts
<1>3. pos + 1 <= size[want.path] /\ (want.range \in Partly(dplan.size) => pos + 1 <= want.range.end + 1)
    <2>1. CASE want.range = WholeFile
        BY <1>1, <1>2, <2>1, DownKinds DEF StreamEnd
    <2>2. CASE want.range # WholeFile
        <3>1. want.range.end \in Nat
            BY <1>2, <2>2 DEF Partly
        <3>2. /\ StreamEnd = Min({size[want.path], want.range.end + 1})
              /\ StreamEnd \in {size[want.path], want.range.end + 1}
              /\ StreamEnd <= size[want.path] /\ StreamEnd <= want.range.end + 1
            <4>1. size[want.path] \in Int /\ want.range.end + 1 \in Int
                BY <1>2, <3>1
            <4>2. StreamEnd = Min({size[want.path], want.range.end + 1})
                BY <2>2 DEF StreamEnd
            <4>3. QED
                BY <4>1, <4>2, LeastOfTwo
        <3>3. QED
            BY <1>1, <1>2, <3>1, <3>2
    <2>3. QED
        BY <2>1, <2>2
<1>4. DownData' /\ DownPlan' /\ DownOpen'
    BY <1>1 DEF DownInv, DownData, DownPlan, DownOpen
<1>5. DownSent'
    <2>1. pos' \in 0..MaxBytes /\ from <= pos'
        BY <1>1, <1>2, <1>3
    <2>2. QED
        BY <1>1, <1>3, <2>1 DEF DownInv, DownSent
<1>6. DownTree'
    BY <1>1 DEF DownInv, DownTree, Seen, There
<1>7. DownRow'
    BY <1>1 DEF DownInv, DownRow, FailureIsShort
<1>8. QED
    BY <1>4, <1>5, <1>6, <1>7 DEF DownInv

LEMMA DownZipKeeps ==
    ASSUME DownInv, DownZip
    PROVE  DownInv'
<1>1. /\ downStep = "send" /\ manifest # <<>> /\ manifest' = Tail(manifest)
      /\ zipped' = zipped \cup {Head(manifest)}
      /\ UNCHANGED <<onDisk, size, listable, rootFor, meddled, token, fresh, downStep, want, dplan, promised,
                     auditRow, from, pos, short, steady>>
    BY DEF DownZip, hostVars, linkVars
<1>2. /\ Head(manifest) \in DownNames /\ Tail(manifest) \in Seq(DownNames)
      /\ ToSet(manifest) = {Head(manifest)} \cup ToSet(Tail(manifest))
    <2>1. manifest \in Seq(DownNames) /\ manifest # <<>>
        BY <1>1 DEF DownInv, DownData
    <2>2. QED
        BY <2>1, HeadAndTail
<1>3. DownData'
    BY <1>1, <1>2 DEF DownInv, DownData
<1>4. DownPlan' /\ DownSent'
    BY <1>1 DEF DownInv, DownPlan, DownSent
<1>5. DownOpen'
    <2>1. ToSet(manifest') \cup zipped' \subseteq ToSet(manifest) \cup zipped
        BY <1>1, <1>2
    <2>2. QED
        BY <1>1, <2>1 DEF DownInv, DownOpen
<1>6. DownTree'
    <2>1. zipped' \cup ToSet(manifest') = zipped \cup ToSet(manifest)
        BY <1>1, <1>2
    <2>2. QED
        BY <1>1, <2>1 DEF DownInv, DownTree, Seen, There
<1>7. DownRow'
    BY <1>1 DEF DownInv, DownRow, FailureIsShort
<1>8. QED
    BY <1>3, <1>4, <1>5, <1>6, <1>7 DEF DownInv

\* The stream ends, or the client hangs up.
LEMMA DownSettleKeeps ==
    ASSUME DownInv, DownEnds \/ DownCut
    PROVE  DownInv'
<1>1. PICK ends \in {"success", "failure"} :
        /\ downStep = "send" /\ Settles(ends)
        /\ ends = "success" => manifest = <<>> \/ Sent = promised
        /\ ends = "failure" => Sent # promised
    BY DEF DownEnds, DownCut
<1>2. /\ downStep' = "over" /\ auditRow' = (IF auditRow = "open" THEN ends ELSE auditRow)
      /\ UNCHANGED <<onDisk, size, listable, rootFor, meddled, token, fresh, want, dplan, promised,
                     from, pos, manifest, zipped, short, steady>>
    BY <1>1 DEF Settles, hostVars, linkVars, sendVars
<1>3. DownData' /\ DownPlan' /\ DownSent' /\ DownOpen'
    BY <1>1, <1>2 DEF DownInv, DownData, DownPlan, DownSent, DownOpen, DownSteps
<1>4. auditRow \in {"none", "open"}
    BY <1>1 DEF DownInv, DownRow
<1>5. DownTree'
    <2>1. ASSUME auditRow' = "success", dplan.kind = "dir", promised = NoBytes, ~short
          PROVE  steady \subseteq zipped
        <3>1. ends = "success" /\ steady \subseteq zipped \cup ToSet(manifest)
            BY <1>1, <1>2, <1>4, <2>1 DEF DownInv, DownTree
        <3>2. Sent = Cardinality(zipped) /\ Cardinality(zipped) \in Nat
            <4>1. zipped \subseteq DownNames /\ IsFiniteSet(DownNames)
                BY DownConsts DEF DownInv, DownData
            <4>2. Cardinality(zipped) \in Nat
                BY <4>1, FS_Subset, FS_CardinalityType
            <4>3. QED
                BY <2>1, <4>2 DEF Sent
        <3>3. manifest = <<>>
            BY <1>1, <2>1, <3>1, <3>2 DEF NoBytes
        <3>4. ToSet(<<>>) = {}
            BY DEF ToSet
        <3>5. QED
            BY <3>1, <3>3, <3>4
    <2>2. ArchiveIsTheTree'
        BY <1>2, <2>1 DEF ArchiveIsTheTree
    <2>3. QED
        BY <1>2, <2>2 DEF DownInv, DownTree, Seen, There
<1>6. DownRow'
    BY <1>1, <1>2, <1>4 DEF DownRow, FailureIsShort, Sent
<1>7. QED
    BY <1>3, <1>5, <1>6 DEF DownInv

LEMMA DownKeeps ==
    ASSUME DownInv, [DownNext]_downVars
    PROVE  DownInv'
<1>1. CASE UNCHANGED downVars
    <2>1. UNCHANGED <<onDisk, size, listable, rootFor, meddled, token, fresh, downStep, want, dplan, promised,
                      auditRow, from, pos, manifest, zipped, steady, short>>
        BY <1>1 DEF downVars
    <2>2. DownData' /\ DownPlan' /\ DownSent' /\ DownOpen'
        <3>1. DownData'
            BY <2>1 DEF DownInv, DownData
        <3>2. DownPlan'
            BY <2>1 DEF DownInv, DownPlan
        <3>3. DownSent' /\ DownOpen'
            BY <2>1 DEF DownInv, DownSent, DownOpen
        <3>4. QED
            BY <3>1, <3>2, <3>3
    <2>3. DownTree' /\ DownRow'
        BY <2>1 DEF DownInv, DownTree, Seen, There, ArchiveIsTheTree, DownRow, FailureIsShort, Sent
    <2>4. QED
        BY <2>2, <2>3 DEF DownInv
<1>2. QED
    BY <1>1, DownMeddleKeeps, DownLinkKeeps, DownAskKeeps, DownStatKeeps, DownWalkKeeps, DownRecordKeeps,
       DownOpenFileKeeps, DownArchiveKeeps, DownReadKeeps, DownZipKeeps, DownSettleKeeps DEF DownNext

\* A behaviour begins with a host, or without one where nothing is downloaded.
LEMMA DownStarts ==
    ASSUME DownFresh, DownHost \/ NoHost
    PROVE  DownInv
<1>1. /\ onDisk \in [DownNames -> {"none", "file", "dir"}] /\ listable \subseteq DownNames /\ rootFor \in BOOLEAN
    BY DEF DownHost, NoHost
<1>2. /\ want.route = "none" /\ want.path = DownTop /\ want.range = WholeFile
      /\ want = [route |-> want.route, path |-> want.path, range |-> want.range]
      /\ dplan.kind = "none" /\ dplan.size = 0
    BY DEF DownFresh
<1>3. DownData
    <2>1. 0 \in 0..MaxBytes /\ MaxBytes \in 0..MaxBytes /\ 0 \in 0..MaxMeddling
        BY DownConsts
    <2>2. QED
        <3>1. size \in [DownNames -> 0..MaxBytes] /\ meddled \in 0..MaxMeddling
            BY <2>1 DEF DownFresh
        <3>2. want.path \in DownNames /\ dplan.size \in 0..MaxBytes
            BY <1>2, <2>1, DownConsts
        <3>3. manifest \in Seq(DownNames)
            <4>1. manifest = <<>>
                BY DEF DownFresh
            <4>2. QED
                BY ONLY <4>1
        <3>4. QED
            BY <1>1, <1>2, <3>1, <3>2, <3>3 DEF DownFresh, DownData, DownSteps, Routes
<1>4. DownPlan
    BY <1>2, DownKinds DEF DownFresh, DownPlan
<1>5. DownSent
    <2>1. 0 \in 0..MaxBytes
        BY DownConsts
    <2>2. QED
        <3>1. from = 0 /\ pos = 0 /\ downStep = "idle"
            BY DEF DownFresh
        <3>2. QED
            BY ONLY <2>1, <3>1 DEF DownSent
<1>6. ToSet(<<>>) = {}
    BY DEF ToSet
<1>7. DownOpen /\ DownTree /\ DownRow
    BY <1>2, <1>6 DEF DownFresh, DownOpen, DownTree, DownRow, FailureIsShort
<1>8. QED
    BY <1>3, <1>4, <1>5, <1>7 DEF DownInv

LEMMA DownHolds ==
    ASSUME DownInv
    PROVE  DownTypeOK /\ ArchiveIsTheTree /\ RangeIsKept /\ FailureIsShort /\ NothingClosedLeaves
<1>1. dplan.size \in 0..MaxBytes /\ dplan.size \in Nat /\ from \in Nat /\ pos \in Nat /\ MaxBytes \in Nat
    <2>1. dplan.size \in 0..MaxBytes
        BY DEF DownInv, DownData
    <2>2. from \in 0..MaxBytes /\ pos \in 0..MaxBytes
        BY DEF DownInv, DownSent
    <2>3. QED
        BY <2>1, <2>2, DownConsts
<1>2. promised \in NoBytes..MaxBytes
    <2>1. CASE dplan.kind = "file"
        <3>1. promised = dplan.size \/ (want.range \in Partly(dplan.size) /\ promised = RangeLength(want.range))
            BY <2>1 DEF DownInv, DownPlan
        <3>2. promised \in 0..dplan.size
            BY <1>1, <3>1, DownKinds
        <3>3. QED
            BY <1>1, <3>2 DEF NoBytes
    <2>2. CASE dplan.kind # "file"
        <3>1. promised \in {NoBytes, 0}
            <4>1. dplan.kind \in {"none", "dir"}
                BY <2>2 DEF DownInv, DownData
            <4>2. QED
                BY <4>1 DEF DownInv, DownPlan
        <3>2. QED
            BY <1>1, <3>1 DEF NoBytes
    <2>3. QED
        BY <2>1, <2>2
<1>3. DownTypeOK
    <2>1. ToSet(manifest) \subseteq DownNames
        BY ToSetSize DEF DownInv, DownData
    <2>2. QED
        BY <1>2, <2>1 DEF DownInv, DownData, DownSent, DownSteps, Routes, DownTypeOK
<1>4. ArchiveIsTheTree /\ FailureIsShort /\ NothingClosedLeaves
    BY DEF DownInv, DownTree, DownRow, DownOpen, ArchiveIsTheTree, NothingClosedLeaves
<1>5. ASSUME want.range.kind = "partial", downStep \in {"send", "over"}
      PROVE  /\ from = want.range.start /\ pos <= want.range.end + 1
             /\ pos - from <= promised /\ 0 < promised /\ want.range.end < dplan.size
    <2>1. dplan.kind = "file" /\ want.range # WholeFile
        BY <1>5, DownKinds DEF DownInv, DownPlan, DownData
    <2>2. want.range \in Partly(dplan.size) /\ promised = RangeLength(want.range)
        BY <2>1 DEF DownInv, DownPlan
    <2>3. from = want.range.start /\ pos <= want.range.end + 1
        BY <1>5, <2>2 DEF DownInv, DownSent
    <2>4. want.range.start \in Nat /\ want.range.end \in Nat /\ want.range.start <= want.range.end
          /\ want.range.end < dplan.size
        BY <2>2 DEF Partly
    <2>5. QED
        BY <1>1, <2>2, <2>3, <2>4 DEF RangeLength
<1>6. QED
    BY <1>3, <1>4, <1>5 DEF RangeIsKept

\* Downloads: an archive told complete is the tree that was there to be seen, a
\* window is answered with its own bytes, a row that says failure is of a
\* download that fell short and nothing protected leaves, whatever others write
\* meanwhile, for any host, denylist and bounds.
THEOREM DownloadsAlwaysTrue ==
    DownInit /\ [][DownNext]_downVars
        => [](DownTypeOK /\ ArchiveIsTheTree /\ RangeIsKept /\ FailureIsShort /\ NothingClosedLeaves)
<1>1. DownInit => DownInv
    BY DownStarts DEF DownInit
<1>2. DownInv /\ [DownNext]_downVars => DownInv'
    BY DownKeeps
<1>3. DownInv => DownTypeOK /\ ArchiveIsTheTree /\ RangeIsKept /\ FailureIsShort /\ NothingClosedLeaves
    BY DownHolds
<1>4. QED
    BY <1>1, <1>2, <1>3, PTL

-----------------------------------------------------------------------------
(* Comparisons.                                                            *)

CmpItems == [path : Relative, a : Facts, b : Facts]
Verdicts == {"onlyA", "onlyB", "differs", "identical", "inconclusive"}
Reasons  == {"name", "kind", "link", "stamp", "hash", "depth"}
Judgements == [path : Relative, a : Facts, b : Facts, verdict : Verdicts, reason : Reasons]

CmpData ==
    /\ fact \in [Sides -> [Relative -> Facts]] /\ bytes \in [Sides -> [Relative -> {"x", "y"}]]
    /\ shut \in [Sides -> SUBSET Relative] /\ writes \in 0..CmpWrites
    /\ cstep \in {"idle", "walk", "digests", "over"} /\ work \in Seq(CmpItems)
    /\ cmpRows \subseteq Judgements /\ IsFiniteSet(cmpRows) /\ Cardinality(cmpRows) <= CmpCeiling
    /\ cmpCut \in BOOLEAN /\ unread \subseteq Sides \X Relative /\ still \subseteq Relative
    /\ cstep = "idle" => cmpRows = {} /\ work = <<>>

\* What was listed of a path nobody touched is so, or its directory would not
\* be listed and is named.
Says(x, s, p) == x = fact[s][p] \/ (x = "none" /\ <<s, PathUnder[p]>> \in unread)
Heard(w) == w.path \in still /\ w.path # CmpRoot => Says(w.a, "a", w.path) /\ Says(w.b, "b", w.path)

CmpWork == \A w \in ToSet(work) : Heard(w) /\ (w.path = CmpRoot => IsShared(w))

\* A verdict is of what was listed, and a digest only settles two equal stamps.
Judged(r) ==
    /\ r.path # CmpRoot
    /\ r.verdict = "onlyA" => r.b = "none"
    /\ r.verdict = "onlyB" => r.a = "none"
    /\ NeedsHash(r) => r.a = r.b /\ r.a \in Stamps
    /\ r.verdict = "identical" /\ Kind(r.a) = "file" =>
        /\ r.a = r.b /\ r.a \in Stamps
        /\ Usable(cache["a"][r.path], r.a) /\ Usable(cache["b"][r.path], r.b)
        /\ cache["a"][r.path].digest = cache["b"][r.path].digest

CmpJudged == \A r \in cmpRows : Judged(r) /\ Heard(r)

\* A digest cached for the stamp a file has is the digest of its bytes.
CmpCached ==
    \A s \in Sides, p \in Relative :
        (cstep = "idle" \/ p \in still) /\ fact[s][p] \in Stamps /\ cache[s][p].stamp = fact[s][p]
            => cache[s][p].digest = bytes[s][p]

\* Every name a comparison owes a row is in one, was behind a directory that is
\* named, or is at or under what is still to be judged.
Due(p) ==
    /\ Undisturbed(p) /\ \A d \in Up[p] : \A s \in Sides : fact[s][d] = "dir"
    /\ \E s \in Sides : fact[s][p] # "none"
    /\ ~(fact["a"][p] = "dir" /\ fact["b"][p] = "dir")
Found(p) == (\E r \in cmpRows : r.path = p) \/ \E s \in Sides, d \in Up[p] : <<s, d>> \in unread
Ahead(p) == \E w \in ToSet(work) : w.path \in {p} \cup Up[p]

CmpCovered ==
    ~cmpCut => \A p \in Relative \ {CmpRoot} : Due(p) =>
        /\ cstep = "walk" => Found(p) \/ Ahead(p)
        /\ cstep \in {"digests", "over"} => Found(p)

CmpInv == CmpData /\ CmpWork /\ CmpJudged /\ CmpCached /\ CmpCovered

LEMMA CmpConsts ==
    /\ CmpPaths \in Seq(Relative) /\ Relative = ToSet(CmpPaths) /\ CmpRoot \in Relative
    /\ \A p \in Relative \ {CmpRoot} : PathUnder[p] \in Relative
    /\ CmpDepth \in Nat /\ CmpDepth > 0 /\ CmpCeiling \in Nat /\ CmpWrites \in Nat
<1>1. CmpPaths \in Seq(Relative) /\ CmpPaths # <<>> /\ Relative = ToSet(CmpPaths)
    BY CompareAssumption DEF Relative
<1>2. CmpRoot \in Relative
    BY <1>1 DEF CmpRoot
<1>3. QED
    BY <1>1, <1>2, CompareAssumption

\* What is above a path: what holds it, and what is above that.
LEMMA UpIs ==
    /\ Up[CmpRoot] = {}
    /\ \A p \in Relative \ {CmpRoot} : Up[p] = {PathUnder[p]} \cup Up[PathUnder[p]]
    /\ \A p \in Relative : Up[p] \subseteq Relative
<1> DEFINE Upward(S) == \A m \in S : m # CmpRoot => PathUnder[m] \in S
<1>1. \A n \in Relative : Up[n] = {d \in Relative : \A S \in SUBSET Relative :
                                      (n # CmpRoot => PathUnder[n] \in S) /\ Upward(S) => d \in S}
    BY DEF Up, Ancestors, Holds
<1>2. Up[CmpRoot] = {}
    <2>1. {} \in SUBSET Relative /\ Upward({})
        OBVIOUS
    <2>2. \A d \in Up[CmpRoot] : d \in {}
        <3>1. Up[CmpRoot] = {d \in Relative : \A S \in SUBSET Relative : Upward(S) => d \in S}
            BY <1>1, CmpConsts
        <3> HIDE DEF Upward
        <3>2. QED
            BY <2>1, <3>1
    <2>3. QED
        BY <2>2
<1>3. ASSUME NEW n \in Relative \ {CmpRoot} PROVE Up[n] = {PathUnder[n]} \cup Up[PathUnder[n]]
    <2> DEFINE u == PathUnder[n]
               T == {u} \cup Up[u]
    <2>1. u \in Relative /\ Up[u] \subseteq Relative
        BY <1>1, CmpConsts
    <2>2. Upward(Up[u])
        <3> SUFFICES ASSUME NEW m \in Up[u], m # CmpRoot PROVE PathUnder[m] \in Up[u]
            OBVIOUS
        <3>1. m \in Relative /\ PathUnder[m] \in Relative
            BY <2>1, CmpConsts
        <3>2. ASSUME NEW S \in SUBSET Relative, u # CmpRoot => PathUnder[u] \in S, Upward(S) PROVE PathUnder[m] \in S
            BY <1>1, <2>1, <3>2
        <3>3. QED
            BY <1>1, <2>1, <3>1, <3>2
    <2>3. u # CmpRoot => PathUnder[u] \in Up[u]
        BY <1>1, <2>1, CmpConsts
    <2>4. T \in SUBSET Relative /\ u \in T /\ Upward(T)
        BY <2>1, <2>2, <2>3
    <2>5. \A d \in Up[n] : d \in T
        <3>1. Up[n] = {d \in Relative : \A S \in SUBSET Relative : u \in S /\ Upward(S) => d \in S}
            BY <1>1
        <3> HIDE DEF Upward, T, u
        <3>2. QED
            BY <2>4, <3>1
    <2>6. \A d \in T : d \in Up[n]
        <3> SUFFICES ASSUME NEW d \in T, NEW S \in SUBSET Relative, u \in S, Upward(S) PROVE d \in S
            BY <1>1, <2>4
        <3>1. u # CmpRoot => PathUnder[u] \in S
            OBVIOUS
        <3>2. QED
            BY <1>1, <2>1, <3>1
    <2>7. QED
        BY <2>5, <2>6
<1>4. \A p \in Relative : Up[p] \subseteq Relative
    BY <1>1
<1>5. QED
    BY <1>2, <1>3, <1>4

LEMMA UpInduction ==
    ASSUME NEW S \in SUBSET Relative, CmpRoot \in S,
           \A p \in Relative \ {CmpRoot} : PathUnder[p] \in S => p \in S
    PROVE  S = Relative
BY CompareAssumption

\* The root is above every other path; what is above a path holds something on
\* the way to it; and what holds that is above the path too.
LEMMA UpChain ==
    ASSUME NEW p \in Relative
    PROVE  /\ p # CmpRoot => CmpRoot \in Up[p]
           /\ \A d \in Up[p] : \E c \in ({p} \cup Up[p]) \ {CmpRoot} : PathUnder[c] = d
           /\ \A q \in Up[p] \ {CmpRoot} : PathUnder[q] \in Up[p]
<1> DEFINE A == {q \in Relative : q # CmpRoot => CmpRoot \in Up[q]}
           B == {q \in Relative : \A d \in Up[q] : \E c \in ({q} \cup Up[q]) \ {CmpRoot} : PathUnder[c] = d}
           C == {q \in Relative : \A d \in Up[q] \ {CmpRoot} : PathUnder[d] \in Up[q]}
<1>1. A = Relative
    <2>1. CmpRoot \in A
        BY CmpConsts
    <2>2. ASSUME NEW q \in Relative \ {CmpRoot}, PathUnder[q] \in A PROVE q \in A
        BY <2>2, UpIs
    <2>3. A \in SUBSET Relative
        OBVIOUS
    <2> HIDE DEF A
    <2>4. QED
        BY <2>1, <2>2, <2>3, UpInduction
<1>2. B = Relative
    <2>1. CmpRoot \in B
        BY CmpConsts, UpIs
    <2>2. ASSUME NEW q \in Relative \ {CmpRoot}, PathUnder[q] \in B PROVE q \in B
        <3>1. Up[q] = {PathUnder[q]} \cup Up[PathUnder[q]]
            BY UpIs
        <3>2. ASSUME NEW d \in Up[q] PROVE \E c \in ({q} \cup Up[q]) \ {CmpRoot} : PathUnder[c] = d
            <4>1. CASE d = PathUnder[q]
                BY <4>1
            <4>2. CASE d \in Up[PathUnder[q]]
                BY <2>2, <3>1, <4>2
            <4>3. QED
                BY <3>1, <4>1, <4>2
        <3>3. QED
            BY <3>2
    <2>3. B \in SUBSET Relative
        OBVIOUS
    <2> HIDE DEF B
    <2>4. QED
        BY <2>1, <2>2, <2>3, UpInduction
<1>3. C = Relative
    <2>1. CmpRoot \in C
        BY CmpConsts, UpIs
    <2>2. ASSUME NEW q \in Relative \ {CmpRoot}, PathUnder[q] \in C PROVE q \in C
        <3>1. Up[q] = {PathUnder[q]} \cup Up[PathUnder[q]] /\ PathUnder[q] \in Relative
            BY UpIs, CmpConsts
        <3>2. PathUnder[q] # CmpRoot => PathUnder[PathUnder[q]] \in Up[PathUnder[q]]
            BY <3>1, UpIs
        <3>3. QED
            BY <2>2, <3>1, <3>2
    <2>3. C \in SUBSET Relative
        OBVIOUS
    <2> HIDE DEF C
    <2>4. QED
        BY <2>1, <2>2, <2>3, UpInduction
<1>4. QED
    BY <1>1, <1>2, <1>3

\* What is still to be judged is of the paths there are.
LEMMA CmpWorkIs ==
    ASSUME CmpInv
    PROVE  ToSet(work) \subseteq CmpItems
<1>1. work \in Seq(CmpItems)
    BY DEF CmpInv, CmpData
<1>2. QED
    BY <1>1, ToSetSize

LEMMA ScribbleKeeps ==
    ASSUME CmpInv, Scribble
    PROVE  CmpInv'
<1>1. PICK s \in Sides, p \in Relative \ {CmpRoot} :
        /\ \/ fact' = [fact EXCEPT ![s][p] = "new"] /\ \E c \in {"x", "y"} : bytes' = [bytes EXCEPT ![s][p] = c]
           \/ fact' = [fact EXCEPT ![s][p] = "none"] /\ UNCHANGED bytes
        /\ still' = still \ {p}
    BY DEF Scribble
<1>2. /\ cstep # "idle" /\ writes' \in 0..CmpWrites
      /\ UNCHANGED <<shut, cache, cstep, work, cmpRows, cmpCut, unread>>
    BY CmpConsts DEF Scribble, CmpInv, CmpData
<1>3. /\ fact' \in [Sides -> [Relative -> Facts]] /\ bytes' \in [Sides -> [Relative -> {"x", "y"}]]
    <2>1. fact \in [Sides -> [Relative -> Facts]] /\ bytes \in [Sides -> [Relative -> {"x", "y"}]]
        BY DEF CmpInv, CmpData
    <2>2. "new" \in Facts /\ "none" \in Facts
        BY DEF Facts, Stamps
    <2>3. fact' \in [Sides -> [Relative -> Facts]]
        <3>1. ASSUME NEW f \in Facts, fact' = [fact EXCEPT ![s][p] = f] PROVE fact' \in [Sides -> [Relative -> Facts]]
            BY <2>1, <3>1
        <3>2. QED
            BY <1>1, <2>2, <3>1
    <2>4. CASE bytes' = bytes
        BY <2>1, <2>3, <2>4
    <2>5. CASE \E c \in {"x", "y"} : bytes' = [bytes EXCEPT ![s][p] = c]
        BY <2>1, <2>3, <2>5
    <2>6. QED
        BY <1>1, <2>4, <2>5
<1>4. \A t \in Sides, q \in Relative \ {p} : fact'[t][q] = fact[t][q] /\ bytes'[t][q] = bytes[t][q]
    BY <1>1 DEF CmpInv, CmpData
<1>5. CmpData'
    BY <1>1, <1>2, <1>3 DEF CmpInv, CmpData
<1>6. ASSUME NEW w, w.path \in Relative, Heard(w) PROVE Heard(w)'
    BY <1>1, <1>2, <1>4, <1>6 DEF Heard, Says, Sides
<1>7. CmpWork'
    <2>1. \A w \in ToSet(work) : w.path \in Relative
        BY CmpWorkIs DEF CmpItems
    <2>2. QED
        BY <1>2, <1>6, <2>1 DEF CmpInv, CmpWork
<1>8. CmpJudged'
    <2>1. \A r \in cmpRows : r.path \in Relative
        BY DEF CmpInv, CmpData, Judgements
    <2>2. QED
        BY <1>2, <1>6, <2>1 DEF CmpInv, CmpJudged, Judged
<1>9. CmpCached'
    BY <1>1, <1>2, <1>4 DEF CmpInv, CmpCached
<1>10. CmpCovered'
    <2>1. ASSUME NEW q \in Relative, Due(q)' PROVE Due(q)
        <3>1. still' \subseteq still /\ p \notin {q} \cup Up[q] /\ Up[q] \subseteq Relative /\ Undisturbed(q)
            BY <1>1, <2>1, UpIs DEF Due, Undisturbed
        <3>2. /\ \A t \in Sides : fact'[t][q] = fact[t][q]
              /\ \A t \in Sides, d \in Up[q] : fact'[t][d] = fact[t][d]
            BY <1>4, <3>1
        <3>3. QED
            BY <2>1, <3>1, <3>2 DEF Due, Sides
    <2>2. QED
        BY <1>2, <2>1 DEF CmpInv, CmpCovered, Found, Ahead
<1>11. QED
    BY <1>5, <1>7, <1>8, <1>9, <1>10 DEF CmpInv

LEMMA CmpBeginKeeps ==
    ASSUME CmpInv, CompareBegin
    PROVE  CmpInv'
<1> DEFINE w == [path |-> CmpRoot, a |-> "dir", b |-> "dir"]
<1>1. /\ cstep = "idle" /\ cstep' = "walk" /\ work' = <<w>> /\ still' = Relative
      /\ UNCHANGED <<fact, bytes, shut, cache, writes, cmpRows, cmpCut, unread>>
    BY DEF CompareBegin, diskVars
<1>2. w \in CmpItems /\ w.path = CmpRoot /\ IsShared(w)
    BY CmpConsts DEF CmpItems, Facts, IsShared
<1> HIDE DEF w
<1>3. work' \in Seq(CmpItems) /\ ToSet(work') = {w}
    BY <1>1, <1>2 DEF ToSet
<1>4. cmpRows = {}
    BY <1>1 DEF CmpInv, CmpData
<1>5. CmpData'
    BY <1>1, <1>3 DEF CmpInv, CmpData
<1>6. CmpWork' /\ CmpJudged'
    BY <1>1, <1>2, <1>3, <1>4 DEF CmpWork, Heard, CmpJudged, IsShared
<1>7. CmpCached'
    BY <1>1 DEF CmpInv, CmpCached
<1>8. CmpCovered'
    BY <1>1, <1>2, <1>3, UpChain DEF CmpCovered, Ahead
<1>9. QED
    BY <1>5, <1>6, <1>7, <1>8 DEF CmpInv

\* The names of a directory of both sides, as they are put to the work.
LEMMA CmpListed ==
    ASSUME CmpInv, NEW d \in Relative
    PROVE  LET la == Listed("a", d)
               lb == Listed("b", d)
               names == NamesOf(la, lb)
               new == [i \in DOMAIN names |-> [path |-> names[i], a |-> la[names[i]], b |-> lb[names[i]]]]
           IN  /\ new \in Seq(CmpItems)
               /\ \A w \in ToSet(new) : /\ w.path \in Relative \ {CmpRoot} /\ PathUnder[w.path] = d
                                        /\ w.a = la[w.path] /\ w.b = lb[w.path]
               /\ \A q \in Relative : la[q] # "none" \/ lb[q] # "none" => \E w \in ToSet(new) : w.path = q
<1> DEFINE la == Listed("a", d)
           lb == Listed("b", d)
           I == {i \in DOMAIN CmpPaths : la[CmpPaths[i]] # "none" \/ lb[CmpPaths[i]] # "none"}
           names == NamesOf(la, lb)
           item(q) == [path |-> q, a |-> la[q], b |-> lb[q]]
           new == [i \in DOMAIN names |-> item(names[i])]
<1>1. la \in [Relative -> Facts] /\ lb \in [Relative -> Facts]
    BY DEF Listed, CmpInv, CmpData, Facts, Sides
<1>2. \A q \in Relative : la[q] # "none" \/ lb[q] # "none" => q # CmpRoot /\ PathUnder[q] = d
    BY DEF Listed
<1>3. names \in Seq(Relative) /\ ToSet(names) = {CmpPaths[i] : i \in I}
    <2>1. I \in SUBSET DOMAIN CmpPaths /\ names = Picked(CmpPaths, I)
        BY DEF NamesOf
    <2> HIDE DEF I, names
    <2>2. QED
        BY <2>1, CmpConsts, PickedSeq
<1>4. ToSet(names) = {q \in Relative : la[q] # "none" \/ lb[q] # "none"}
    <2>1. \A q \in Relative : \E i \in DOMAIN CmpPaths : CmpPaths[i] = q
        BY CmpConsts DEF ToSet
    <2>2. \A i \in DOMAIN CmpPaths : CmpPaths[i] \in Relative
        BY CmpConsts
    <2> HIDE DEF la, lb, names
    <2>3. QED
        BY <1>3, <2>1, <2>2
<1>5. \A q \in Relative : item(q) \in CmpItems /\ item(q).path = q /\ item(q).a = la[q] /\ item(q).b = lb[q]
    <2> HIDE DEF la, lb
    <2>1. QED
        BY <1>1 DEF CmpItems
<1> HIDE DEF la, lb, names, item
<1>6. /\ Len(names) \in Nat /\ DOMAIN names = 1 .. Len(names) /\ \A i \in DOMAIN names : names[i] \in Relative
      /\ ToSet(names) = {names[i] : i \in DOMAIN names}
    BY <1>3 DEF ToSet
<1>7. new \in Seq(CmpItems) /\ DOMAIN new = DOMAIN names /\ \A i \in DOMAIN new : new[i] = item(names[i])
    <2>1. new \in [1 .. Len(names) -> CmpItems]
        BY <1>5, <1>6
    <2>2. DOMAIN new = DOMAIN names /\ \A i \in DOMAIN new : new[i] = item(names[i])
        OBVIOUS
    <2> HIDE DEF new
    <2>3. QED
        BY <1>6, <2>1, <2>2
<1> HIDE DEF new
<1>8. ToSet(new) = {new[i] : i \in DOMAIN new}
    BY DEF ToSet
<1>9. ASSUME NEW w \in ToSet(new)
      PROVE  /\ w.path \in Relative \ {CmpRoot} /\ PathUnder[w.path] = d
             /\ w.a = la[w.path] /\ w.b = lb[w.path]
    <2>1. PICK i \in DOMAIN names : w = item(names[i])
        BY <1>7, <1>8, <1>9
    <2>2. names[i] \in ToSet(names)
        BY <1>6
    <2>3. names[i] \in Relative /\ (la[names[i]] # "none" \/ lb[names[i]] # "none")
        BY <1>4, <2>2
    <2>4. QED
        BY <1>2, <1>5, <2>1, <2>3
<1>10. ASSUME NEW q \in Relative, la[q] # "none" \/ lb[q] # "none" PROVE \E w \in ToSet(new) : w.path = q
    <2>1. PICK i \in DOMAIN names : names[i] = q
        BY <1>4, <1>6, <1>10
    <2>2. new[i] \in ToSet(new) /\ new[i].path = q
        BY <1>5, <1>7, <1>8, <2>1
    <2>3. QED
        BY <2>2
<1>11. QED
    BY <1>7, <1>9, <1>10 DEF new, names, la, lb, item

LEMMA CmpDescendKeeps ==
    ASSUME CmpInv, CompareDescend
    PROVE  CmpInv'
<1> DEFINE h == Head(work)
           d == h.path
           la == Listed("a", d)
           lb == Listed("b", d)
           names == NamesOf(la, lb)
           new == [i \in DOMAIN names |-> [path |-> names[i], a |-> la[names[i]], b |-> lb[names[i]]]]
<1>1. /\ cstep = "walk" /\ work # <<>> /\ ~cmpCut /\ IsShared(h)
      /\ work' = new \o Tail(work) /\ unread' = unread \cup {<<s, d>> : s \in {t \in Sides : d \in shut[t]}}
      /\ UNCHANGED <<fact, bytes, shut, cache, writes, cstep, cmpRows, cmpCut, still>>
    BY DEF CompareDescend, ListBoth, diskVars
<1>2. h \in CmpItems /\ Tail(work) \in Seq(CmpItems) /\ ToSet(work) = {h} \cup ToSet(Tail(work))
    BY <1>1, HeadAndTail DEF CmpInv, CmpData
<1>3. d \in Relative /\ h.a = "dir" /\ h.b = "dir"
    BY <1>1, <1>2 DEF CmpItems, IsShared
<1>4. /\ new \in Seq(CmpItems)
      /\ \A w \in ToSet(new) : /\ w.path \in Relative \ {CmpRoot} /\ PathUnder[w.path] = d
                               /\ w.a = la[w.path] /\ w.b = lb[w.path]
      /\ \A q \in Relative : la[q] # "none" \/ lb[q] # "none" => \E w \in ToSet(new) : w.path = q
    BY <1>3, CmpListed
<1>5. \A q \in Relative :
        /\ la[q] = IF d \in shut["a"] \/ q = CmpRoot \/ PathUnder[q] # d THEN "none" ELSE fact["a"][q]
        /\ lb[q] = IF d \in shut["b"] \/ q = CmpRoot \/ PathUnder[q] # d THEN "none" ELSE fact["b"][q]
    BY DEF Listed
<1> HIDE DEF new, names, la, lb
<1>6. work' \in Seq(CmpItems) /\ ToSet(work') = ToSet(new) \cup ToSet(Tail(work))
    <2>1. new \in Seq(CmpItems) /\ Tail(work) \in Seq(CmpItems)
        BY <1>2, <1>4
    <2>2. new \o Tail(work) \in Seq(CmpItems) /\ ToSet(new \o Tail(work)) = ToSet(new) \cup ToSet(Tail(work))
        BY <2>1, ConcatSet
    <2>3. QED
        BY <1>1, <2>2
<1>7. unread \subseteq unread' /\ unread' \subseteq Sides \X Relative
      /\ \A s \in Sides : d \in shut[s] => <<s, d>> \in unread'
    BY <1>1, <1>3 DEF CmpInv, CmpData
<1>8. CmpData'
    BY <1>1, <1>6, <1>7 DEF CmpInv, CmpData
<1>9. ASSUME NEW w, Heard(w) PROVE Heard(w)'
    BY <1>1, <1>7, <1>9 DEF Heard, Says
<1>10. CmpWork'
    <2>1. ASSUME NEW w \in ToSet(new) PROVE Heard(w)' /\ w.path # CmpRoot
        <3>1. w.path \in Relative \ {CmpRoot} /\ PathUnder[w.path] = d /\ w.a = la[w.path] /\ w.b = lb[w.path]
            BY <1>4
        <3>2. Says(w.a, "a", w.path)'
            BY <1>1, <1>5, <1>7, <3>1 DEF Says, Sides
        <3>3. Says(w.b, "b", w.path)'
            BY <1>1, <1>5, <1>7, <3>1 DEF Says, Sides
        <3>4. QED
            BY <3>1, <3>2, <3>3 DEF Heard
    <2>2. ASSUME NEW w \in ToSet(Tail(work)) PROVE Heard(w)' /\ (w.path = CmpRoot => IsShared(w))
        BY <1>2, <1>9 DEF CmpInv, CmpWork
    <2>3. QED
        BY <1>6, <2>1, <2>2 DEF CmpWork, IsShared
<1>11. CmpJudged'
    BY <1>1, <1>9 DEF CmpInv, CmpJudged, Judged
<1>12. CmpCached'
    BY <1>1 DEF CmpInv, CmpCached
<1>13. CmpCovered'
    <2> SUFFICES ASSUME NEW p \in Relative \ {CmpRoot}, Due(p)' PROVE (Found(p) \/ Ahead(p))'
        BY <1>1 DEF CmpCovered
    <2>1. Due(p) /\ p \in still /\ Up[p] \subseteq still /\ Up[p] \subseteq Relative
        BY <1>1, UpIs DEF Due, Undisturbed
    <2>2. Found(p) \/ Ahead(p)
        BY <1>1, <2>1 DEF CmpInv, CmpCovered
    <2>3. CASE Found(p)
        BY <1>1, <1>7, <2>3 DEF Found
    <2>4. CASE \E w \in ToSet(Tail(work)) : w.path \in {p} \cup Up[p]
        BY <1>6, <2>4 DEF Ahead
    <2>5. CASE d \in {p} \cup Up[p]
        <3>1. d # p
            <4>1. ASSUME d = p PROVE FALSE
                <5>1. Says("dir", "a", p) /\ Says("dir", "b", p)
                    BY <1>2, <1>3, <2>1, <4>1 DEF CmpInv, CmpWork, Heard
                <5>2. QED
                    BY <2>1, <5>1 DEF Says, Due
            <4>2. QED
                BY <4>1
        <3>2. CASE \E s \in Sides : d \in shut[s]
            BY <1>7, <2>5, <3>1, <3>2 DEF Found
        <3>3. CASE \A s \in Sides : d \notin shut[s]
            <4>1. PICK c \in ({p} \cup Up[p]) \ {CmpRoot} : PathUnder[c] = d
                BY <2>5, <3>1, UpChain
            <4>2. c \in Relative /\ \E s \in Sides : fact[s][c] # "none"
                <5>1. CASE c = p
                    BY <2>1, <5>1 DEF Due
                <5>2. CASE c \in Up[p]
                    BY <2>1, <5>2 DEF Due, Sides
                <5>3. QED
                    BY <4>1, <5>1, <5>2
            <4>3. la[c] # "none" \/ lb[c] # "none"
                BY <1>5, <3>3, <4>1, <4>2 DEF Sides
            <4>4. \E w \in ToSet(new) : w.path = c
                BY <1>4, <4>2, <4>3
            <4>5. QED
                BY <1>6, <4>1, <4>4 DEF Ahead
        <3>4. QED
            BY <3>2, <3>3
    <2>6. QED
        BY <1>2, <2>2, <2>3, <2>4, <2>5 DEF Ahead
<1>14. QED
    BY <1>8, <1>10, <1>11, <1>12, <1>13 DEF CmpInv

\* A verdict of the two cheap levels.
LEMMA CmpDecides ==
    ASSUME NEW x \in Facts, NEW y \in Facts, ~(x = "dir" /\ y = "dir")
    PROVE  LET v == Decide(x, y)
           IN  /\ v.verdict \in Verdicts /\ v.reason \in Reasons
               /\ v.verdict = "onlyA" => y = "none"
               /\ v.verdict = "onlyB" => x = "none"
               /\ v.verdict = "inconclusive" /\ v.reason = "hash" => x = y /\ x \in Stamps
               /\ v.verdict = "identical" => Kind(x) # "file"
<1> DEFINE v == Decide(x, y)
<1>1. CASE y = "none"
    BY <1>1 DEF Decide, Verdicts, Reasons
<1>2. CASE y # "none" /\ x = "none"
    BY <1>2 DEF Decide, Verdicts, Reasons
<1>3. CASE y # "none" /\ x # "none" /\ Kind(x) # Kind(y)
    BY <1>3 DEF Decide, Verdicts, Reasons
<1>4. CASE y # "none" /\ x # "none" /\ Kind(x) = Kind(y) /\ "link?" \in {x, y}
    <2>1. v = [verdict |-> "inconclusive", reason |-> "link"]
        BY <1>4 DEF Decide
    <2>2. QED
        BY <2>1 DEF Verdicts, Reasons
<1>5. CASE y # "none" /\ x # "none" /\ Kind(x) = Kind(y) /\ "link?" \notin {x, y} /\ Kind(x) = "symlink"
    <2>1. v = [verdict |-> IF x = y THEN "identical" ELSE "differs", reason |-> "link"]
        BY <1>5 DEF Decide
    <2>2. QED
        BY <1>5, <2>1 DEF Verdicts, Reasons
<1>6. CASE y # "none" /\ x # "none" /\ Kind(x) = Kind(y) /\ "link?" \notin {x, y} /\ Kind(x) # "symlink" /\ x # y
    <2>1. v = [verdict |-> "differs", reason |-> "stamp"]
        BY <1>6 DEF Decide
    <2>2. QED
        BY <2>1 DEF Verdicts, Reasons
<1>7. CASE y # "none" /\ x # "none" /\ Kind(x) = Kind(y) /\ "link?" \notin {x, y} /\ Kind(x) # "symlink" /\ x = y
    <2>1. v = [verdict |-> "inconclusive", reason |-> "hash"]
        BY <1>7 DEF Decide
    <2>2. x \in Stamps
        BY <1>7 DEF Facts, Kind
    <2>3. QED
        BY <1>7, <2>1, <2>2 DEF Verdicts, Reasons
<1>8. QED
    BY <1>1, <1>2, <1>3, <1>4, <1>5, <1>6, <1>7

\* A row is pushed, or the ceiling ends the walk.
LEMMA CmpPushed ==
    ASSUME CmpInv, NEW row \in Judgements,
           \/ cmpRows' = cmpRows /\ cmpCut' = TRUE
           \/ Cardinality(cmpRows) < CmpCeiling /\ cmpRows' = cmpRows \cup {row} /\ cmpCut' \in BOOLEAN
    PROVE  /\ cmpRows' \subseteq Judgements /\ IsFiniteSet(cmpRows') /\ Cardinality(cmpRows') <= CmpCeiling
           /\ cmpCut' \in BOOLEAN
<1>1. cmpRows \subseteq Judgements /\ IsFiniteSet(cmpRows) /\ Cardinality(cmpRows) <= CmpCeiling
    BY DEF CmpInv, CmpData
<1>2. CASE Cardinality(cmpRows) < CmpCeiling /\ cmpRows' = cmpRows \cup {row} /\ cmpCut' \in BOOLEAN
    <2>1. IsFiniteSet(cmpRows') /\ Cardinality(cmpRows') <= Cardinality(cmpRows) + 1
          /\ Cardinality(cmpRows) \in Nat /\ Cardinality(cmpRows') \in Nat
        BY <1>1, <1>2, FS_AddElement, FS_CardinalityType
    <2>2. QED
        BY <1>1, <1>2, <2>1, CmpConsts
<1>3. QED
    BY <1>1, <1>2

LEMMA CmpPairKeeps ==
    ASSUME CmpInv, ComparePair
    PROVE  CmpInv'
<1> DEFINE h == Head(work)
           v == Decide(h.a, h.b)
           row == [path |-> h.path, a |-> h.a, b |-> h.b, verdict |-> v.verdict, reason |-> v.reason]
<1>1. /\ cstep = "walk" /\ work # <<>> /\ ~cmpCut /\ ~IsShared(h) /\ work' = Tail(work)
      /\ Push(row)
      /\ UNCHANGED <<fact, bytes, shut, cache, writes, cstep, unread, still>>
    BY DEF ComparePair, diskVars
<1>2. h \in CmpItems /\ Tail(work) \in Seq(CmpItems) /\ ToSet(work) = {h} \cup ToSet(Tail(work))
    BY <1>1, HeadAndTail DEF CmpInv, CmpData
<1>3. h.path \in Relative /\ h.path # CmpRoot /\ h.a \in Facts /\ h.b \in Facts /\ ~(h.a = "dir" /\ h.b = "dir")
      /\ Heard(h)
    BY <1>1, <1>2 DEF CmpItems, CmpInv, CmpWork, IsShared
<1>4. /\ v.verdict \in Verdicts /\ v.reason \in Reasons
      /\ v.verdict = "onlyA" => h.b = "none"
      /\ v.verdict = "onlyB" => h.a = "none"
      /\ v.verdict = "inconclusive" /\ v.reason = "hash" => h.a = h.b /\ h.a \in Stamps
      /\ v.verdict = "identical" => Kind(h.a) # "file"
    BY <1>3, CmpDecides
<1> HIDE DEF v
<1>5. /\ row \in Judgements /\ row.path = h.path /\ row.a = h.a /\ row.b = h.b
      /\ row.verdict = v.verdict /\ row.reason = v.reason
    BY <1>3, <1>4 DEF Judgements
<1> HIDE DEF row, h
<1>6. Judged(row) /\ Heard(row)
    <2>1. Judged(row)
        BY <1>3, <1>4, <1>5 DEF Judged, NeedsHash
    <2>2. Heard(row)
        BY <1>3, <1>5 DEF Heard
    <2>3. QED
        BY <2>1, <2>2
<1>7. \/ cmpRows' = cmpRows /\ cmpCut' = TRUE
      \/ Cardinality(cmpRows) < CmpCeiling /\ cmpRows' = cmpRows \cup {row} /\ cmpCut' = cmpCut
    <2>1. Cardinality(cmpRows) \in Nat /\ CmpCeiling \in Nat
        BY CmpConsts, FS_CardinalityType DEF CmpInv, CmpData
    <2>2. QED
        BY <1>1, <2>1 DEF Push
<1>8. CmpData'
    <2>1. cmpRows' \subseteq Judgements /\ IsFiniteSet(cmpRows') /\ Cardinality(cmpRows') <= CmpCeiling
          /\ cmpCut' \in BOOLEAN
        <3>1. cmpCut \in BOOLEAN
            BY DEF CmpInv, CmpData
        <3>2. \/ cmpRows' = cmpRows /\ cmpCut' = TRUE
              \/ Cardinality(cmpRows) < CmpCeiling /\ cmpRows' = cmpRows \cup {row} /\ cmpCut' \in BOOLEAN
            BY <1>7, <3>1
        <3>3. QED
            BY <1>5, <3>2, CmpPushed
    <2>2. QED
        BY <1>1, <1>2, <2>1 DEF CmpInv, CmpData
<1>9. \A w : Heard(w)' <=> Heard(w)
    BY <1>1 DEF Heard, Says
<1>10. CmpWork'
    BY <1>1, <1>2, <1>9 DEF CmpInv, CmpWork
<1>11. CmpJudged'
    <2>1. \A r : Judged(r)' <=> Judged(r)
        BY <1>1 DEF Judged
    <2>2. QED
        BY <1>6, <1>7, <1>9, <2>1 DEF CmpInv, CmpJudged
<1>12. CmpCached'
    BY <1>1 DEF CmpInv, CmpCached
<1>13. CmpCovered'
    <2> SUFFICES ASSUME NEW p \in Relative \ {CmpRoot}, Due(p)', ~cmpCut' PROVE (Found(p) \/ Ahead(p))'
        BY <1>1 DEF CmpCovered
    <2>1. Due(p) /\ p \in still /\ Up[p] \subseteq still /\ Up[p] \subseteq Relative
        BY <1>1, UpIs DEF Due, Undisturbed
    <2>2. cmpRows' = cmpRows \cup {row}
        BY <1>7
    <2>3. Found(p) \/ Ahead(p)
        BY <1>1, <2>1 DEF CmpInv, CmpCovered
    <2>4. CASE Found(p)
        BY <1>1, <2>2, <2>4 DEF Found
    <2>5. CASE \E w \in ToSet(Tail(work)) : w.path \in {p} \cup Up[p]
        BY <1>1, <2>5 DEF Ahead
    <2>6. CASE h.path = p
        BY <1>5, <2>2, <2>6 DEF Found
    <2>7. CASE h.path \in Up[p]
        <3>1. fact["a"][h.path] = "dir" /\ fact["b"][h.path] = "dir" /\ h.path \in still
            BY <2>1, <2>7 DEF Due, Sides
        <3>2. \E s \in Sides : <<s, PathUnder[h.path]>> \in unread
            BY <1>3, <3>1 DEF Heard, Says, Sides
        <3>3. PathUnder[h.path] \in Up[p]
            BY <1>3, <2>7, UpChain
        <3>4. QED
            BY <1>1, <3>2, <3>3 DEF Found
    <2>8. QED
        BY <1>2, <2>3, <2>4, <2>5, <2>6, <2>7 DEF Ahead
<1>14. QED
    BY <1>8, <1>10, <1>11, <1>12, <1>13 DEF CmpInv

LEMMA CmpBoundKeeps ==
    ASSUME CmpInv, CompareBound
    PROVE  CmpInv'
<1> DEFINE h == Head(work)
           row == [path |-> h.path, a |-> "dir", b |-> "dir", verdict |-> "inconclusive", reason |-> "depth"]
<1>1. /\ cstep = "walk" /\ work # <<>> /\ IsShared(h) /\ Level(h.path) >= CmpDepth
      /\ cmpCut' = TRUE /\ work' = Tail(work)
      /\ cmpRows' = IF Cardinality(cmpRows) >= CmpCeiling THEN cmpRows ELSE cmpRows \cup {row}
      /\ UNCHANGED <<fact, bytes, shut, cache, writes, cstep, unread, still>>
    BY DEF CompareBound, diskVars
<1>2. h \in CmpItems /\ Tail(work) \in Seq(CmpItems) /\ ToSet(work) = {h} \cup ToSet(Tail(work))
    BY <1>1, HeadAndTail DEF CmpInv, CmpData
<1>3. h.path \in Relative /\ h.a = "dir" /\ h.b = "dir" /\ Heard(h)
    BY <1>1, <1>2 DEF CmpItems, CmpInv, CmpWork, IsShared
<1>4. h.path # CmpRoot
    <2>1. Level(CmpRoot) = 0
        BY UpIs, FS_EmptySet DEF Level
    <2>2. QED
        BY <1>1, <2>1, CmpConsts
<1>5. /\ row \in Judgements /\ row.path = h.path /\ row.a = "dir" /\ row.b = "dir"
      /\ row.verdict = "inconclusive" /\ row.reason = "depth"
    BY <1>3 DEF Judgements, Facts, Verdicts, Reasons
<1> HIDE DEF row, h
<1>6. Judged(row) /\ Heard(row)
    <2>1. Judged(row)
        BY <1>4, <1>5 DEF Judged, NeedsHash
    <2>2. Heard(row)
        BY <1>3, <1>5 DEF Heard
    <2>3. QED
        BY <2>1, <2>2
<1>7. \/ cmpRows' = cmpRows /\ cmpCut' = TRUE
      \/ Cardinality(cmpRows) < CmpCeiling /\ cmpRows' = cmpRows \cup {row} /\ cmpCut' \in BOOLEAN
    <2>1. Cardinality(cmpRows) \in Nat /\ CmpCeiling \in Nat
        BY CmpConsts, FS_CardinalityType DEF CmpInv, CmpData
    <2>2. QED
        BY <1>1, <2>1
<1>8. CmpData'
    <2>1. cmpRows' \subseteq Judgements /\ IsFiniteSet(cmpRows') /\ Cardinality(cmpRows') <= CmpCeiling
        BY <1>5, <1>7, CmpPushed
    <2>2. QED
        BY <1>1, <1>2, <2>1 DEF CmpInv, CmpData
<1>9. (\A w : Heard(w)' <=> Heard(w)) /\ \A r : Judged(r)' <=> Judged(r)
    BY <1>1 DEF Heard, Says, Judged
<1>10. CmpWork' /\ CmpJudged'
    BY <1>1, <1>2, <1>6, <1>7, <1>9 DEF CmpInv, CmpWork, CmpJudged
<1>11. CmpCached' /\ CmpCovered'
    BY <1>1 DEF CmpInv, CmpCached, CmpCovered
<1>12. QED
    BY <1>8, <1>10, <1>11 DEF CmpInv

LEMMA CmpWalkedKeeps ==
    ASSUME CmpInv, CompareWalked
    PROVE  CmpInv'
<1>1. /\ cstep = "walk" /\ (work = <<>> \/ cmpCut) /\ cstep' = "digests" /\ work' = <<>>
      /\ UNCHANGED <<fact, bytes, shut, cache, writes, cmpRows, cmpCut, unread, still>>
    BY DEF CompareWalked, diskVars
<1>2. ToSet(<<>>) = {}
    BY DEF ToSet
<1>3. CmpData' /\ CmpWork'
    BY <1>1, <1>2 DEF CmpInv, CmpData, CmpWork
<1>4. CmpJudged' /\ CmpCached'
    BY <1>1 DEF CmpInv, CmpJudged, Judged, Heard, Says, CmpCached
<1>5. CmpCovered'
    BY <1>1, <1>2 DEF CmpInv, CmpCovered, Due, Undisturbed, Found, Ahead
<1>6. QED
    BY <1>3, <1>4, <1>5 DEF CmpInv

LEMMA CmpDigestsKeeps ==
    ASSUME CmpInv, CompareDigests
    PROVE  CmpInv'
<1> DEFINE settled(r) == NeedsHash(r) /\ Usable(cache["a"][r.path], r.a) /\ Usable(cache["b"][r.path], r.b)
           same(r) == cache["a"][r.path].digest = cache["b"][r.path].digest
           marked(r) == IF settled(r) THEN [r EXCEPT !.verdict = IF same(r) THEN "identical" ELSE "differs"] ELSE r
<1>1. /\ cstep = "digests" /\ cstep' = "over" /\ cmpRows' = {marked(r) : r \in cmpRows}
      /\ UNCHANGED <<fact, bytes, shut, cache, writes, work, cmpCut, unread, still>>
    BY DEF CompareDigests, diskVars
<1>2. ASSUME NEW r \in cmpRows
      PROVE  /\ marked(r) \in Judgements /\ marked(r).path = r.path /\ marked(r).a = r.a /\ marked(r).b = r.b
             /\ Judged(marked(r)) /\ Heard(marked(r))
    <2>1. r \in Judgements /\ Judged(r) /\ Heard(r)
        BY DEF CmpInv, CmpData, CmpJudged
    <2>2. CASE ~settled(r)
        BY <2>1, <2>2 DEF Judgements
    <2>3. CASE settled(r)
        <3> DEFINE v == IF same(r) THEN "identical" ELSE "differs"
        <3>1. marked(r) = [r EXCEPT !.verdict = v]
            BY <2>3
        <3>2. v \in {"identical", "differs"} /\ (v = "identical" => same(r))
            OBVIOUS
        <3>3. r.a = r.b /\ r.a \in Stamps /\ r.path # CmpRoot
            BY <2>1, <2>3 DEF Judged
        <3>4. Usable(cache["a"][r.path], r.a) /\ Usable(cache["b"][r.path], r.b)
            BY <2>3
        <3> HIDE DEF v, marked, settled
        <3>5. /\ marked(r) \in Judgements /\ marked(r).path = r.path /\ marked(r).a = r.a /\ marked(r).b = r.b
              /\ marked(r).verdict = v
            BY <2>1, <3>1, <3>2 DEF Judgements, Verdicts
        <3>6. Judged(marked(r))
            BY <3>2, <3>3, <3>4, <3>5 DEF Judged, NeedsHash
        <3>7. Heard(marked(r))
            BY <2>1, <3>5 DEF Heard
        <3>8. QED
            BY <3>5, <3>6, <3>7
    <2>4. QED
        BY <2>2, <2>3
<1> HIDE DEF marked
<1>3. CmpData'
    <2>1. IsFiniteSet(cmpRows') /\ Cardinality(cmpRows') <= Cardinality(cmpRows)
        <3>1. IsFiniteSet(cmpRows)
            BY DEF CmpInv, CmpData
        <3> DEFINE f == [r \in cmpRows |-> marked(r)]
        <3>2. f \in Surjection(cmpRows, cmpRows')
            BY <1>1 DEF Surjection
        <3> HIDE DEF f
        <3>3. QED
            BY <3>1, <3>2, FS_Surjection
    <2>2. Cardinality(cmpRows') \in Nat /\ Cardinality(cmpRows) \in Nat /\ Cardinality(cmpRows) <= CmpCeiling
        BY <2>1, FS_CardinalityType DEF CmpInv, CmpData
    <2>3. Cardinality(cmpRows') <= CmpCeiling
        BY <2>1, <2>2, CmpConsts
    <2>4. QED
        BY <1>1, <1>2, <2>1, <2>3 DEF CmpInv, CmpData
<1>4. CmpWork'
    BY <1>1 DEF CmpInv, CmpWork, Heard, Says
<1>5. CmpJudged'
    <2>1. (\A w : Heard(w)' <=> Heard(w)) /\ \A r : Judged(r)' <=> Judged(r)
        BY <1>1 DEF Heard, Says, Judged
    <2>2. QED
        BY <1>1, <1>2, <2>1 DEF CmpJudged
<1>6. CmpCached'
    BY <1>1 DEF CmpInv, CmpCached
<1>7. CmpCovered'
    <2>1. ASSUME NEW p, Found(p) PROVE Found(p)'
        BY <1>1, <1>2, <2>1 DEF Found
    <2>2. QED
        BY <1>1, <2>1 DEF CmpInv, CmpCovered, Due, Undisturbed
<1>8. QED
    BY <1>3, <1>4, <1>5, <1>6, <1>7 DEF CmpInv

LEMMA CmpKeeps ==
    ASSUME CmpInv, [CompareNext]_cmpVars
    PROVE  CmpInv'
<1>1. CASE UNCHANGED cmpVars
    <2>1. UNCHANGED <<fact, bytes, shut, cache, writes, cstep, work, cmpRows, cmpCut, unread, still>>
        BY <1>1 DEF cmpVars
    <2>2. CmpData' /\ CmpWork' /\ CmpJudged' /\ CmpCached'
        BY <2>1 DEF CmpInv, CmpData, CmpWork, CmpJudged, Judged, Heard, Says, CmpCached
    <2>3. CmpCovered'
        BY <2>1 DEF CmpInv, CmpCovered, Due, Undisturbed, Found, Ahead
    <2>4. QED
        BY <2>2, <2>3 DEF CmpInv
<1>2. QED
    BY <1>1, ScribbleKeeps, CmpBeginKeeps, CmpDescendKeeps, CmpPairKeeps, CmpBoundKeeps, CmpWalkedKeeps,
       CmpDigestsKeeps DEF CompareNext

\* A behaviour begins with two trees, or without any where nothing is compared.
LEMMA CmpStarts ==
    ASSUME CmpFresh, CmpTrees \/ NoTrees
    PROVE  CmpInv
<1>1. /\ fact \in [Sides -> [Relative -> Facts]] /\ bytes \in [Sides -> [Relative -> {"x", "y"}]]
      /\ shut \in [Sides -> SUBSET Relative]
    <2>1. CASE CmpTrees
        BY <2>1 DEF CmpTrees
    <2>2. CASE NoTrees
        BY <2>2 DEF NoTrees, Facts
    <2>3. QED
        BY <2>1, <2>2
<1>2. CmpData
    <2>1. writes \in 0..CmpWrites /\ Cardinality(cmpRows) <= CmpCeiling /\ IsFiniteSet(cmpRows)
        BY FS_EmptySet, CmpConsts DEF CmpFresh
    <2>2. work \in Seq(CmpItems) /\ work = <<>>
        <3>1. work = <<>>
            BY DEF CmpFresh
        <3>2. QED
            BY ONLY <3>1
    <2>3. QED
        BY <1>1, <2>1, <2>2 DEF CmpFresh, CmpData
<1>3. CmpWork /\ CmpJudged /\ CmpCovered
    BY DEF CmpFresh, CmpWork, CmpJudged, CmpCovered, ToSet
<1>4. CmpCached
    <2>1. CASE CmpTrees
        <3> SUFFICES ASSUME NEW s \in Sides, NEW p \in Relative, fact[s][p] \in Stamps,
                            cache[s][p].stamp = fact[s][p]
                     PROVE  cache[s][p].digest = bytes[s][p]
            BY DEF CmpCached
        <3>1. PICK known \in {"none", "old", "kept"} :
                cache = [t \in Sides |-> [q \in Relative |->
                    IF known = "none" THEN NoHash
                    ELSE [stamp |-> known, digest |-> IF known = "kept" THEN bytes[t][q] ELSE "x"]]]
            BY <2>1 DEF CmpTrees
        <3>2. cache[s][p] = IF known = "none" THEN NoHash
                            ELSE [stamp |-> known, digest |-> IF known = "kept" THEN bytes[s][p] ELSE "x"]
            BY <3>1
        <3>3. known # "none"
            BY <3>2 DEF NoHash, Stamps
        <3>4. fact[s][p] = known /\ cache[s][p].digest = IF known = "kept" THEN bytes[s][p] ELSE "x"
            BY <3>2, <3>3
        <3>5. known # "kept" => bytes[s][p] = "x"
            BY <2>1, <3>4 DEF CmpTrees, Sides
        <3>6. QED
            BY <3>4, <3>5
    <2>2. CASE NoTrees
        BY <2>2 DEF NoTrees, CmpCached, Stamps
    <2>3. QED
        BY <2>1, <2>2
<1>5. QED
    BY <1>2, <1>3, <1>4 DEF CmpInv

LEMMA CmpHolds ==
    ASSUME CmpInv
    PROVE  CompareTypeOK /\ IdenticalIsEvidenced /\ NothingIsPassedOver
<1>1. CompareTypeOK
    <2>1. \A w \in ToSet(work) : w.path \in Relative /\ {w.a, w.b} \subseteq Facts
        BY CmpWorkIs DEF CmpItems
    <2>2. \A r \in cmpRows : r.verdict \in Verdicts
        BY DEF CmpInv, CmpData, Judgements
    <2>3. QED
        BY <2>1, <2>2 DEF CmpInv, CmpData, Verdicts, CompareTypeOK
<1>2. ASSUME NEW r \in cmpRows
      PROVE  Judged(r) /\ r.path \in Relative \ {CmpRoot}
             /\ (Undisturbed(r.path) => r.path \in still /\ Says(r.a, "a", r.path) /\ Says(r.b, "b", r.path))
    BY DEF CmpInv, CmpData, CmpJudged, Judgements, Judged, Heard, Undisturbed
<1>3. IdenticalIsEvidenced
    <2> SUFFICES ASSUME NEW r \in cmpRows, r.verdict = "identical", Kind(r.a) = "file", Undisturbed(r.path)
                 PROVE  bytes["a"][r.path] = bytes["b"][r.path]
        BY DEF IdenticalIsEvidenced
    <2>1. /\ r.a \in Stamps /\ r.b = r.a /\ r.path \in still /\ r.path \in Relative
          /\ Says(r.a, "a", r.path) /\ Says(r.b, "b", r.path)
          /\ Usable(cache["a"][r.path], r.a) /\ Usable(cache["b"][r.path], r.b)
          /\ cache["a"][r.path].digest = cache["b"][r.path].digest
        BY <1>2 DEF Judged
    <2>2. fact["a"][r.path] = r.a /\ fact["b"][r.path] = r.b
        BY <2>1 DEF Says, Stamps
    <2>3. cache["a"][r.path].digest = bytes["a"][r.path] /\ cache["b"][r.path].digest = bytes["b"][r.path]
        BY <2>1, <2>2 DEF CmpInv, CmpCached, Usable, Sides
    <2>4. QED
        BY <2>1, <2>3
<1>4. NothingIsPassedOver
    <2>1. ASSUME cstep = "over", ~cmpCut, NEW p \in Relative \ {CmpRoot}, Due(p) PROVE Found(p)
        BY <2>1 DEF CmpInv, CmpCovered
    <2>2. ASSUME NEW r \in cmpRows, Undisturbed(r.path)
          PROVE  /\ r.verdict = "onlyA" => fact["b"][r.path] = "none" \/ <<"b", PathUnder[r.path]>> \in unread
                 /\ r.verdict = "onlyB" => fact["a"][r.path] = "none" \/ <<"a", PathUnder[r.path]>> \in unread
        BY <1>2, <2>2 DEF Judged, Says
    <2>3. QED
        BY <2>1, <2>2 DEF NothingIsPassedOver, Due, Found
<1>5. QED
    BY <1>1, <1>3, <1>4

\* CompareTrees: files told identical hold the same bytes, nothing that stayed is
\* passed over without being named and nothing told to be on one side is on the
\* other, whoever writes to either tree meanwhile, for any trees, depth and ceiling.
THEOREM ComparisonsAlwaysTrue ==
    CmpInit /\ [][CompareNext]_cmpVars => [](CompareTypeOK /\ IdenticalIsEvidenced /\ NothingIsPassedOver)
<1>1. CmpInit => CmpInv
    BY CmpStarts DEF CmpInit
<1>2. CmpInv /\ [CompareNext]_cmpVars => CmpInv'
    BY CmpKeeps
<1>3. CmpInv => CompareTypeOK /\ IdenticalIsEvidenced /\ NothingIsPassedOver
    BY CmpHolds
<1>4. QED
    BY <1>1, <1>2, <1>3, PTL

-----------------------------------------------------------------------------
(* Side by side.                                                           *)

FilesInv == TailInv /\ RenInv /\ DelInv /\ PermInv /\ UplInv /\ DownInv /\ CmpInv

LEMMA FilesKeep ==
    FilesInv /\ [PartNext]_<<tailVars, renVars, delVars, permVars, uplVars, downVars, cmpVars, part>> => FilesInv'
<1> SUFFICES ASSUME FilesInv,
                    [PartNext]_<<tailVars, renVars, delVars, permVars, uplVars, downVars, cmpVars, part>>
             PROVE  FilesInv'
    OBVIOUS
<1>1. /\ [TailNext]_tailVars /\ [RenameNext]_renVars /\ [DeleteNext]_delVars /\ [PermNext]_permVars
      /\ [UploadNext]_uplVars /\ [DownNext]_downVars /\ [CompareNext]_cmpVars
    BY DEF PartNext
<1>2. QED
    BY <1>1, TailKeeps, RenKeeps, DelKeeps, PermKeeps, UplStep, DownKeeps, CmpKeeps DEF FilesInv

LEMMA FilesAlways == PartSpec => []FilesInv
<1>1. PartInit => FilesInv
    BY TailStarts, RenStart, DelStart, PermStart, UplInit, DownStarts, CmpStarts DEF PartInit, FilesInv
<1>2. QED
    BY <1>1, FilesKeep, PTL DEF PartSpec

\* The type invariants of the seven handlers of files.
THEOREM FileTypes == PartSpec => []FileTypesOK
<1>1. FilesInv => FileTypesOK
    BY TailHolds, RenTyped, DelHolds, PermHolds, UplHolds, DownHolds, CmpHolds DEF FilesInv, FileTypesOK
<1>2. QED
    BY <1>1, FilesAlways, PTL

\* What is told of a tail, a download or two trees is so.
THEOREM ReadingsTold == PartSpec => []ReadingsAreTrue
<1>1. FilesInv => ReadingsAreTrue
    BY TailHolds, DownHolds, CmpHolds DEF FilesInv, ReadingsAreTrue
<1>2. QED
    BY <1>1, FilesAlways, PTL
=============================================================================
