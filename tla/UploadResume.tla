---------------------------- MODULE UploadResume ----------------------------
(***************************************************************************)
(* Several attempts to upload one file into one directory:                 *)
(* UploadService.resumeOffset and receive, with the partial a second       *)
(* attempt can find, the name settled late, and the sweep.  A partial has  *)
(* an inode: a stream goes on writing to the one it opened, whatever has   *)
(* been renamed or unlinked meanwhile.                                     *)
(***************************************************************************)
EXTENDS Naturals, Sequences, FiniteSets

CONSTANTS
    Attempts,   \* the requests
    Copies,     \* numberedName: 1 is the name itself, then "(2)" and so on
    Protected,  \* the copies whose name is denylisted
    Size,       \* blocks of the file, block i being the i-th
    MaxRivals   \* bound on files somebody else puts there

ASSUME UploadAssumption ==
    /\ Copies \in Nat \ {0} /\ Size \in Nat \ {0} /\ MaxRivals \in Nat
    /\ Protected \subseteq 1..Copies /\ IsFiniteSet(Attempts)
    /\ "resume" \notin Attempts

Policies == {"overwrite", "skip", "keepBoth"}
Tokens   == {"resume"} \cup Attempts    \* resumeToken, or random bytes
Inodes   == 1..(2 * Cardinality(Attempts) + MaxRivals)

VARIABLES
    place,     \* place[c]: the inode under that name, 0 for none
    partial,   \* partial[t]: the inode under partialName(t), 0 for none
    data,      \* data[i]: the blocks of inode i
    rootDir,   \* only root may change the directory
    window,    \* a sudo window is open for the session
    upl,       \* upl[a]: the attempt
    clean,     \* history: those nobody got in the way of
    mixed,     \* history: the inodes that two streams wrote to
    litter,    \* history: the tokens whose partial a discard failed to remove
    rivals

uplVars == <<place, partial, data, rootDir, window, upl, clean, mixed, litter, rivals>>

Idle == [pc |-> "idle", pol |-> "skip", token |-> "resume", from |-> 0, fd |-> 0,
         sent |-> 0, final |-> 0, code |-> "none", got |-> <<>>, hit |-> 0]

Findable(a) == upl[a].token = "resume"
Written(a)  == upl[a].from + upl[a].sent
UplOpen(a)     == upl[a].fd # 0
Used        == {place[c] : c \in 1..Copies} \cup {partial[t] : t \in Tokens}
                   \cup {upl[a].fd : a \in Attempts}
NewInode       == CHOOSE i \in Inodes : i \notin Used
Length(t)   == IF partial[t] = 0 THEN 0 ELSE Len(data[partial[t]])
Mine(a)     == partial[upl[a].token]

\* A permission refusal becomes a success through sudo while a window is open.
Allowed == ~rootDir \/ window

End(a, c)   == upl' = [upl EXCEPT ![a] = [Idle EXCEPT !.pc = "over", !.code = c]]

\* The others whose partial, or whose settled name, a step changed.
Spoilt(t, c, a) ==
    {b \in Attempts \ {a} :
        \/ upl[b].token = t /\ upl[b].pc \notin {"idle", "asked", "over"}
        \/ upl[b].final = c /\ c # 0 /\ upl[b].pc = "rename"}

Streaming(i) == {b \in Attempts : upl[b].fd = i}
-----------------------------------------------------------------------------
(* Before the bytes.                                                       *)

\* resumeOffset: what the partial holds, or zero when that is more than the
\* file.  The client may send from the start all the same.
UploadAsk(a) ==
    /\ upl[a].pc = "idle"
    /\ \E p \in Policies, resume \in BOOLEAN, again \in BOOLEAN :
          LET t == IF resume THEN "resume" ELSE a
              n == IF resume /\ again /\ Length(t) <= Size THEN Length(t) ELSE 0
          IN  upl' = [upl EXCEPT ![a] = [Idle EXCEPT !.pc = "asked", !.pol = p,
                                                     !.token = t, !.from = n]]
    /\ clean' = clean \cup {a}
    /\ UNCHANGED <<place, partial, data, rootDir, window, mixed, litter, rivals>>

\* A partial nobody has written for PARTIAL_TTL_MS: any that no stream is on.
Aged == {t \in Tokens : partial[t] # 0 /\ \A b \in Attempts : upl[b].fd # partial[t]}

\* destination() with its sweep, and the answer to `skip`.
UploadBegin(a) ==
    /\ upl[a].pc = "asked"
    /\ \E swept \in SUBSET (IF rootDir THEN {} ELSE Aged) :
          /\ partial' = [t \in Tokens |-> IF t \in swept THEN 0 ELSE partial[t]]
          /\ clean' = clean \ {b \in Attempts \ {a} :
                 upl[b].token \in swept /\ upl[b].pc \notin {"idle", "asked", "over"}}
    /\ IF upl[a].pol = "skip" /\ place[1] # 0 THEN End(a, "ESKIPPED")
       ELSE upl' = [upl EXCEPT ![a].pc = IF upl[a].from > 0 THEN "check" ELSE "open"]
    /\ UNCHANGED <<place, data, rootDir, window, mixed, litter, rivals>>

\* partialSize: the length continued from must be the length that is there.
UploadCheck(a) ==
    /\ upl[a].pc = "check"
    /\ IF Length(upl[a].token) # upl[a].from THEN End(a, "ERESUME")
       ELSE upl' = [upl EXCEPT ![a].pc = "open"]
    /\ UNCHANGED <<place, partial, data, rootDir, window, clean, mixed, litter, rivals>>

\* Mutation: the length is not looked at.
UploadCheckNot(a) ==
    /\ upl[a].pc = "check"
    /\ upl' = [upl EXCEPT ![a].pc = "open"]
    /\ UNCHANGED <<place, partial, data, rootDir, window, clean, mixed, litter, rivals>>

\* createWriteStream, appending or truncating; `sudo tee`, which truncates.  To
\* go on from a partial that two streams were on is to be in their way.
UploadOpen(a) ==
    /\ upl[a].pc = "open"
    /\ IF rootDir /\ (~window \/ upl[a].from > 0)
       THEN /\ End(a, IF window THEN "ERESUME" ELSE "EACCES")
            /\ UNCHANGED <<partial, data, clean, mixed, litter>>
       ELSE LET i == IF Mine(a) = 0 THEN NewInode ELSE Mine(a)
            IN  /\ partial' = [partial EXCEPT ![upl[a].token] = i]
                /\ data' = IF upl[a].from > 0 /\ Mine(a) # 0 THEN data
                           ELSE [data EXCEPT ![i] = <<>>]
                /\ upl' = [upl EXCEPT ![a].pc = "write", ![a].fd = i]
                /\ clean' = clean \ (Spoilt(upl[a].token, 0, a)
                                 \cup (IF upl[a].from > 0 /\ i \in mixed THEN {a} ELSE {}))
                /\ mixed' = IF Streaming(i) # {} \/ (upl[a].from > 0 /\ (i \in mixed \/ a \notin clean))
                            THEN mixed \cup {i} ELSE mixed \ {i}
                /\ litter' = litter \ {upl[a].token}
    /\ UNCHANGED <<place, rootDir, window, rivals>>
-----------------------------------------------------------------------------
(* The bytes.                                                              *)

\* One block: at the end of an appended partial, else where this attempt is.
UploadWrite(a) ==
    /\ upl[a].pc = "write" /\ Written(a) < Size
    /\ LET i == upl[a].fd
           b == Written(a) + 1
           at == upl[a].sent + 1
       IN  /\ data' = [data EXCEPT ![i] =
                  IF upl[a].from > 0 \/ at > Len(@) THEN Append(@, b) ELSE [@ EXCEPT ![at] = b]]
           /\ clean' = clean \ {c \in Attempts \ {a} : upl[c].fd = i
                  \/ (upl[c].pc \in {"open", "check"} /\ partial[upl[c].token] = i)}
    /\ upl' = [upl EXCEPT ![a].sent = @ + 1]
    /\ UNCHANGED <<place, partial, rootDir, window, mixed, litter, rivals>>

\* Mutation: whoever wrote it.
KeptAll(a, why) == Written(a) > 0 /\ why \in {"wire", "ETOOMUCH"}

\* keepPartial: what the wire dropped, and what only the hour refused, stays
\* when a later attempt could find it.
Kept(a, why) == Written(a) > 0 /\ Findable(a) /\ why \in {"wire", "ETOOMUCH"}

\* The catch: the stream is closed, and the partial is kept or goes with it.
Catch(a, why) ==
    IF Kept(a, why) THEN End(a, why)
    ELSE upl' = [upl EXCEPT ![a].pc = "discard", ![a].code = why, ![a].fd = 0]

\* The part's stream errors; or the host refuses a write, as the limit for one
\* upload does.
UploadBreaks(a) ==
    /\ upl[a].pc = "write"
    /\ \E why \in {"wire", "host"} : Catch(a, why)
    /\ UNCHANGED <<place, partial, data, rootDir, window, clean, mixed, litter, rivals>>

\* The body ended and was flushed: the budget is asked for what was carried.
UploadEnds(a) ==
    /\ upl[a].pc = "write" /\ Written(a) = Size
    /\ \/ upl' = [upl EXCEPT ![a].pc = "settle"]
       \/ upl[a].sent > 0 /\ Catch(a, "ETOOMUCH")
    /\ UNCHANGED <<place, partial, data, rootDir, window, clean, mixed, litter, rivals>>
-----------------------------------------------------------------------------
(* The name.                                                               *)

FreeCopies == {c \in 2..Copies : place[c] = 0}

\* settleName, and the denylist on what it settled on.
UploadSettle(a) ==
    /\ upl[a].pc = "settle"
    /\ LET c == IF place[1] = 0 \/ upl[a].pol = "overwrite" THEN 1
                ELSE IF upl[a].pol = "skip" \/ FreeCopies = {} THEN 0
                ELSE CHOOSE n \in FreeCopies : \A m \in FreeCopies : n <= m
       IN  IF c = 0 \/ c \in Protected
           THEN upl' = [upl EXCEPT ![a].pc = "discard", ![a].fd = 0, ![a].code =
                    IF c # 0 THEN "EDENYLISTED"
                    ELSE IF upl[a].pol = "skip" THEN "ESKIPPED" ELSE "ETOOMANYCOPIES"]
           ELSE upl' = [upl EXCEPT ![a].pc = "rename", ![a].final = c]
    /\ UNCHANGED <<place, partial, data, rootDir, window, clean, mixed, litter, rivals>>

\* Mutation: an existing name is not looked for.
UploadSettleAnyway(a) ==
    /\ upl[a].pc = "settle"
    /\ upl' = [upl EXCEPT ![a].pc = "rename", ![a].final = 1]
    /\ UNCHANGED <<place, partial, data, rootDir, window, clean, mixed, litter, rivals>>

\* rename, or `mv`: whatever has the partial's name becomes the file.
UploadRename(a) ==
    /\ upl[a].pc = "rename"
    /\ LET i == Mine(a)
           c == upl[a].final
       IN  IF i = 0 \/ ~Allowed
           THEN /\ Catch(a, "host")
                /\ UNCHANGED <<place, partial, clean>>
           ELSE /\ place' = [place EXCEPT ![c] = i]
                /\ partial' = [partial EXCEPT ![upl[a].token] = 0]
                /\ upl' = [upl EXCEPT ![a] = [Idle EXCEPT
                      !.pc = "over", !.code = "done", !.pol = upl[a].pol,
                      !.got = data[i], !.hit = place[c]]]
                /\ clean' = clean \ Spoilt(upl[a].token, c, a)
    /\ UNCHANGED <<data, rootDir, window, mixed, litter, rivals>>

\* discard(), once the stream has closed: the unlink, or `rm` through sudo.  When
\* both fail, on a host that refuses or a connection that dropped, nobody is told.
UploadDiscard(a) ==
    /\ upl[a].pc = "discard"
    /\ End(a, upl[a].code)
    /\ \/ /\ Allowed /\ Mine(a) # 0
          /\ partial' = [partial EXCEPT ![upl[a].token] = 0]
          /\ clean' = clean \ Spoilt(upl[a].token, 0, a)
          /\ UNCHANGED litter
       \/ /\ litter' = IF Mine(a) = 0 THEN litter ELSE litter \cup {upl[a].token}
          /\ UNCHANGED <<partial, clean>>
    /\ UNCHANGED <<place, data, rootDir, window, mixed, rivals>>
-----------------------------------------------------------------------------
(* The rest of the world.                                                  *)

RivalWrites ==
    /\ rivals < MaxRivals
    /\ \E c \in 1..Copies :
          /\ place' = [place EXCEPT ![c] = NewInode]
          /\ data' = [data EXCEPT ![NewInode] = <<0>>]
          /\ clean' = clean \ {a \in Attempts : upl[a].pc = "rename" /\ upl[a].final = c}
    /\ rivals' = rivals + 1
    /\ UNCHANGED <<partial, rootDir, window, upl, mixed, litter>>

UploadWindowEnds ==
    /\ window /\ window' = FALSE
    /\ UNCHANGED <<place, partial, data, rootDir, upl, clean, mixed, litter, rivals>>

UploadInit ==
    /\ place = [c \in 1..Copies |-> 0] /\ partial = [t \in Tokens |-> 0]
    /\ data = [i \in Inodes |-> <<>>] /\ rivals = 0
    /\ rootDir \in BOOLEAN /\ window \in {FALSE, rootDir}
    /\ upl = [a \in Attempts |-> Idle] /\ clean = {} /\ mixed = {} /\ litter = {}

UploadNext ==
    \/ \E a \in Attempts :
          \/ UploadAsk(a) \/ UploadBegin(a) \/ UploadCheck(a) \/ UploadOpen(a)
          \/ UploadWrite(a) \/ UploadBreaks(a) \/ UploadEnds(a)
          \/ UploadSettle(a) \/ UploadRename(a) \/ UploadDiscard(a)
    \/ RivalWrites \/ UploadWindowEnds

UploadSpec == UploadInit /\ [][UploadNext]_uplVars
-----------------------------------------------------------------------------
(* Properties.                                                             *)

UploadTypeOK ==
    /\ place \in [1..Copies -> Inodes \cup {0}] /\ partial \in [Tokens -> Inodes \cup {0}]
    /\ \A i \in Inodes : data[i] \in Seq(0..Size)
    /\ clean \subseteq Attempts /\ mixed \subseteq Inodes /\ litter \subseteq Tokens
    /\ {rootDir, window} \subseteq BOOLEAN /\ rivals \in 0..MaxRivals
    /\ \A a \in Attempts :
          /\ upl[a].pol \in Policies /\ upl[a].token \in {"resume", a}
          /\ Written(a) \in 0..Size /\ upl[a].final \in 0..Copies
          /\ UplOpen(a) <=> upl[a].pc \in {"write", "settle", "rename"}

Done(a) == upl[a].pc = "over" /\ upl[a].code = "done"

\* "The one outcome this whole file is arranged to prevent" is a truncated
\* partial under the real name: an upload nobody wrote, swept or discarded the
\* partial of, and that did not go on from one that two streams were on, put the
\* whole file there, however many attempts it took, and replaced a file only when
\* it was told to overwrite.
UploadedIsWhole ==
    \A a \in clean : Done(a) =>
        /\ upl[a].got = [i \in 1..Size |-> i]
        /\ upl[a].pol # "overwrite" => upl[a].hit = 0

\* "Keeping it would be litter rather than a saved transfer": once every
\* attempt has been answered, a partial left in a directory the account may
\* change is one a later attempt can find, or one whose discard failed.  When the
\* attempts kept out of each other's way and its discard did not fail, it holds
\* something to continue from.
PartialsAreFindable ==
    (\A a \in Attempts : upl[a].pc \in {"idle", "over"}) /\ ~rootDir =>
        \A t \in Tokens \ litter : partial[t] # 0 =>
            /\ t = "resume"
            /\ {a \in Attempts : upl[a].pc = "over"} \subseteq clean => Length(t) \in 1..Size

\* resumeOffset continues the same file: whoever else is writing it, what an
\* upload left under the real name is the whole of it.
AlwaysWhole == \A a \in Attempts : Done(a) => upl[a].got = [i \in 1..Size |-> i]
=============================================================================
