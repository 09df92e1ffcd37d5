------------------------------- MODULE Terminal -------------------------------
(***************************************************************************)
(* The terminal at the foot of the explorer: a line is parsed against the  *)
(* pane it is typed over, and what it asks for is done with the requests a *)
(* button would make.  While one is under way the panes move, dialogs open, *)
(* and the palette hands over lines of its own.                            *)
(***************************************************************************)
EXTENDS Naturals, Sequences, SequencesExt, FiniteSets

CONSTANTS
    Machines,  \* the hosts,
    HomeOn,    \* the home of each,
    Trees,     \* Trees[m][path]: what is there, "dir" or "file"; a path is a sequence of names
    Called,    \* Called[w]: the hosts a typed name matches
    Bare,      \* the hosts that have no credential
    PathOf,    \* PathOf[w]: a typed path: [abs, segs], "." and ".." among the names
    Lines,     \* the lines that are typed, as sequences of words
    OutputLimit,
    MaxLines, MaxMoves  \* bounds: the lines, and what is done in the panes

ASSUME TerminalAssumption ==
    /\ HomeOn \in [Machines -> Seq(STRING)] /\ \A m \in Machines : HomeOn[m] \in DOMAIN Trees[m]
    /\ Lines \subseteq Seq(STRING) /\ << >> \notin Lines
    /\ \A l \in Lines : l[1] = "ssh" /\ Len(l) = 2 => Called[l[2]] \subseteq Machines
    /\ OutputLimit \in Nat \ {0} /\ {MaxLines, MaxMoves} \subseteq Nat

VARIABLES
    spot,    \* spot[i]: a pane: [m, path, back]
    active,  \* the pane the terminal stands on
    scroll,  \* the scrollback: [of, kind], by the line it is of
    line,    \* line[n]: the n-th line: what it wants, where it was typed, how far it is
    busy,
    modals,  \* the dialogs that are up
    moves,
    rival    \* history: the lines beside which another ran or their pane was bound

termVars == <<spot, active, scroll, line, busy, modals, moves, rival>>

Nowhere  == "no host"
Going(n) == line[n].at # "over"
Under    == {n \in DOMAIN line : Going(n)}
Last500(s) == IF Len(s) > OutputLimit THEN SubSeq(s, Len(s) - OutputLimit + 1, Len(s)) ELSE s
Writes(n, kinds) == scroll' = Last500(scroll \o [i \in DOMAIN kinds |-> [of |-> n, kind |-> kinds[i]]])
-----------------------------------------------------------------------------
(* The parser.                                                             *)

\* resolve: the segments are walked, `..` takes one off.
Resolve(w, cwd) ==
    FoldLeft(LAMBDA p, s : IF s = "." THEN p ELSE IF s # ".." THEN Append(p, s)
                           ELSE IF p = << >> THEN p ELSE Front(p),
             IF PathOf[w].abs THEN << >> ELSE cwd, PathOf[w].segs)

Flags    == {"-l", "-h", "-r", "-f"}
Words(a) ==
    LET keep == {i \in DOMAIN a : a[i] \notin Flags}
    IN  [k \in 1 .. Cardinality(keep) |-> a[CHOOSE i \in keep : Cardinality({j \in keep : j <= i}) = k]]
Given(a) == ToSet(a) \cap Flags
Want(k, targets) == [kind |-> k, targets |-> targets, deep |-> FALSE, name |-> ""]
Refused  == Want("refused", << >>)

\* A directory by name, or the one the pane shows.
OneOf(k, ws, cwd) == Want(k, <<IF ws = << >> THEN cwd ELSE Resolve(ws[1], cwd)>>)

\* parseCommand.  A mode is one word.
Parsed(l, cwd, home) ==
    LET a  == Tail(l)
        ws == Words(a)
    IN  CASE l[1] = "ls" /\ Given(a) \subseteq {"-l"} /\ Len(ws) <= 1 -> OneOf("print", ws, cwd)
          [] l[1] = "du" /\ Given(a) \subseteq {"-h"} /\ Len(ws) <= 1 -> OneOf("scan", ws, cwd)
          [] l[1] = "cd" /\ a = << >>    -> Want("cd", <<home>>)
          [] l[1] = "cd" /\ a = <<"-">>  -> Want("back", << >>)
          [] l[1] = "cd" /\ Len(a) = 1   -> Want("cd", <<Resolve(a[1], cwd)>>)
          [] l[1] = "chmod" /\ Len(a) >= 2 /\ a[1] = "644" ->
                Want("chmod", [i \in 1 .. Len(a) - 1 |-> Resolve(a[i + 1], cwd)])
          [] l[1] = "rm" /\ Given(a) \subseteq {"-r", "-f"} /\ ws # << >> ->
                [Want("rm", [i \in DOMAIN ws |-> Resolve(ws[i], cwd)]) EXCEPT !.deep = "-r" \in Given(a)]
          [] l[1] = "ssh" /\ Len(a) = 1 -> [Want("ssh", << >>) EXCEPT !.name = a[1]]
          [] l = <<"df">>    -> Want("print", << >>)
          [] l = <<"pwd">>   -> Want("say", << >>)
          [] l = <<"help">>  -> Want("help", << >>)
          [] l = <<"clear">> -> Want("clear", << >>)
          [] OTHER -> Refused

\* Mutation: the names are put under the first directory.
GroupedFirst(ps) == \A i \in DOMAIN ps : ps[i] # << >>

\* groupTargets: none of them is the root, and one directory holds them all.
Grouped(ps) ==
    /\ \A i \in DOMAIN ps : ps[i] # << >>
    /\ \A i, j \in DOMAIN ps : ps[i] # << >> /\ ps[j] # << >> => Front(ps[i]) = Front(ps[j])
-----------------------------------------------------------------------------
(* The panes.                                                              *)

\* go: from where the pane stood when the closure was made.
Goes(i, path, stood) ==
    spot' = IF path = stood THEN spot
            ELSE [spot EXCEPT ![i].path = path, ![i].back = Append(@, spot[i].path)]

Bound(i, m) == [spot EXCEPT ![i] = [m |-> m, path |-> HomeOn[m], back |-> Append(@.back, @.path)]]
-----------------------------------------------------------------------------
(* A line.                                                                 *)

Asks     == {"print", "scan", "cd", "chmod", "rm"}
Record(w, at) ==
    [want |-> w, at |-> at, pane |-> active, m |-> spot[active].m, cwd |-> spot[active].path, found |-> 0, to |-> << >>]
Says(w, kinds) == line' = Append(line, Record(w, "over")) /\ Writes(Len(line) + 1, kinds)

\* What is done in the turn of the line itself: rebind, back, and what is said.
AtOnce(w) ==
    LET m == spot[active].m
    IN  CASE w.kind = "ssh" ->
                LET fits == Called[w.name]
                    into == IF Cardinality(fits) = 1 THEN fits \ ({m} \cup Bare) ELSE {}
                IN  /\ Says(w, <<"echo", "answer">>)
                    /\ spot' = IF into = {} THEN spot ELSE Bound(active, CHOOSE x \in into : TRUE)
          [] w.kind = "back" ->
                LET keep == {i \in DOMAIN spot[active].back : spot[active].back[i] # spot[active].path}
                IN  /\ Says(w, <<"echo", "answer">>)
                    /\ spot' = IF keep = {} THEN spot
                               ELSE LET i == CHOOSE i \in keep : \A j \in keep : j <= i
                                    IN  [spot EXCEPT ![active].path = spot[active].back[i],
                                                     ![active].back = SubSeq(@, 1, i - 1)]
          [] OTHER -> /\ IF w.kind = "chmod" \/ w.kind = "rm" THEN Says(w, <<"echo", "error">>)
                         ELSE Says(w, <<"echo", "answer">>)
                      /\ spot' = spot

\* submit: the echo, the parser's refusal, or the intent: without a host only
\* `help` is.
Submitted(l) ==
    LET m == spot[active].m
        w == Parsed(l, spot[active].path, IF m = Nowhere THEN << >> ELSE HomeOn[m])
        n == Len(line) + 1
    IN  IF w.kind = "clear"
        THEN scroll' = << >> /\ line' = Append(line, Record(w, "over")) /\ UNCHANGED <<spot, busy>>
        ELSE IF w.kind = "refused" \/ m = Nowhere
        THEN Says(w, <<"echo", IF w.kind = "help" THEN "answer" ELSE "error">>) /\ UNCHANGED <<spot, busy>>
        ELSE IF w.kind \in Asks /\ (w.kind \in {"chmod", "rm"} => Grouped(w.targets))
        THEN /\ line' = Append(line, Record(w, "ask")) /\ busy' = TRUE
             /\ Writes(n, <<"echo">>) /\ UNCHANGED spot
        ELSE AtOnce(w) /\ busy' = FALSE

\* The first of two lines to be over takes `busy` from the other, and the line
\* that is entered then runs beside that one.
Entered == rival' = IF Under \cap rival = {} THEN rival ELSE rival \cup {Len(line) + 1}

\* Mutation: return is not refused while a line runs.
TermEnterBusy(l) ==
    /\ Len(line) < MaxLines /\ Submitted(l) /\ Entered
    /\ UNCHANGED <<active, modals, moves>>

\* Return in the prompt: one line at a time.
TermEnter(l) ==
    /\ ~busy /\ Len(line) < MaxLines /\ Submitted(l) /\ Entered
    /\ UNCHANGED <<active, modals, moves>>

\* The palette's line is run whatever the prompt is doing.
TermHanded(l) ==
    /\ modals = {} /\ Len(line) < MaxLines /\ Submitted(l)
    /\ rival' = IF Under = {} THEN rival ELSE rival \cup Under \cup {Len(line) + 1}
    /\ UNCHANGED <<active, modals, moves>>

Over(n) == line' = [line EXCEPT ![n].at = "over"] /\ busy' = FALSE
Fails(n) == Over(n) /\ Writes(n, <<"error">>) /\ UNCHANGED <<spot, modals>>

\* The request is answered: what is there under the path, or that nothing is.
Finds(n, path) == path \in DOMAIN Trees[line[n].m]

\* A listing, a figure: it is printed.
TermPrints(n) ==
    /\ Going(n) /\ line[n].want.kind = "print" /\ Over(n) /\ Writes(n, <<"answer">>)
    /\ \A i \in DOMAIN line[n].want.targets : Finds(n, line[n].want.targets[i])
    /\ UNCHANGED <<spot, active, modals, moves, rival>>

Landed(n, to) ==
    /\ line' = [line EXCEPT ![n].at = "over", ![n].to = <<spot[line[n].pane].m, to>>] /\ busy' = FALSE
    /\ Writes(n, <<"answer">>) /\ Goes(line[n].pane, to, line[n].cwd)
    /\ UNCHANGED <<active, modals, moves, rival>>

\* Mutation: the pane is moved first.
TermMovesFirst(n) ==
    /\ Going(n) /\ line[n].want.kind = "cd"
    /\ Landed(n, line[n].want.targets[1])

\* changeDirectory: the pane of the line is moved once its host has the path.
TermMoves(n) ==
    /\ Going(n) /\ line[n].want.kind = "cd"
    /\ LET to == line[n].want.targets[1]
       IN  Finds(n, to) /\ Trees[line[n].m][to] = "dir" /\ Landed(n, to)

\* usage: what is known of the directory is printed, or a walk is asked for.
TermScans(n) ==
    /\ Going(n) /\ line[n].want.kind = "scan"
    /\ \/ Over(n) /\ Writes(n, <<"answer">>)
       \/ line[n].at = "ask" /\ line' = [line EXCEPT ![n].at = "start"] /\ UNCHANGED <<busy, scroll>>
    /\ UNCHANGED <<spot, active, modals, moves, rival>>

\* Mutation: -r is not looked for.
MayRemoveAll(n, rows) == TRUE

\* Without -r a directory is refused.
MayRemove(n, rows) == line[n].want.deep \/ \A p \in rows : Trees[line[n].m][p] # "dir"

\* statAll, a path at a time; then the dialog, with the rows there were.
TermStats(n) ==
    /\ Going(n) /\ line[n].want.kind \in {"chmod", "rm"}
    /\ LET ps == line[n].want.targets
           i  == line[n].found + 1
       IN  /\ Finds(n, ps[i])
           /\ IF i < Len(ps)
              THEN line' = [line EXCEPT ![n].found = i] /\ UNCHANGED <<busy, scroll, modals>>
              ELSE IF line[n].want.kind = "rm" /\ ~MayRemove(n, ToSet(ps))
              THEN Over(n) /\ Writes(n, <<"error">>) /\ UNCHANGED modals
              ELSE /\ Over(n) /\ UNCHANGED scroll
                   /\ modals' = {d \in modals : d.kind # line[n].want.kind} \cup
                                {[kind |-> line[n].want.kind, m |-> line[n].m, dir |-> Front(ps[1]),
                                  rows |-> ToSet(ps), of |-> n]}
    /\ UNCHANGED <<spot, active, moves, rival>>

\* What was asked fails: refused by the API, or not there.
TermFails(n) ==
    /\ Going(n) /\ Fails(n)
    /\ UNCHANGED <<active, moves, rival>>
-----------------------------------------------------------------------------
(* The rest of the page.                                                   *)

Does == moves < MaxMoves /\ moves' = moves + 1

PageGoes(i) ==
    /\ Does /\ spot[i].m # Nowhere
    /\ \E p \in {q \in DOMAIN Trees[spot[i].m] : Trees[spot[i].m][q] = "dir"} : Goes(i, p, spot[i].path)
    /\ UNCHANGED <<active, scroll, line, busy, modals, rival>>

PageBinds(i) ==
    /\ Does /\ \E m \in Machines \ {spot[i].m} : spot' = Bound(i, m)
    /\ rival' = rival \cup {n \in Under : line[n].pane = i}
    /\ UNCHANGED <<active, scroll, line, busy, modals>>

PageActivates ==
    /\ Does /\ active' = 3 - active
    /\ UNCHANGED <<spot, scroll, line, busy, modals, rival>>

\* The toolbar opens a dialog, when none is up; one is closed.
PageOpens ==
    /\ Does /\ modals = {} /\ modals' = {[kind |-> "toolbar"]}
    /\ UNCHANGED <<spot, active, scroll, line, busy, rival>>

PageCloses ==
    /\ \E d \in modals : modals' = modals \ {d}
    /\ UNCHANGED <<spot, active, scroll, line, busy, moves, rival>>

\* The header's button.
PageClears ==
    /\ Does /\ scroll # << >> /\ scroll' = << >>
    /\ UNCHANGED <<spot, active, line, busy, modals, rival>>

TermInit ==
    /\ \E m \in Machines : spot = <<[m |-> m, path |-> HomeOn[m], back |-> << >>], [m |-> Nowhere, path |-> << >>, back |-> << >>]>>
    /\ active = 1 /\ scroll = << >> /\ line = << >> /\ busy = FALSE /\ modals = {} /\ moves = 0 /\ rival = {}

TermStep(n) == TermPrints(n) \/ TermMoves(n) \/ TermScans(n) \/ TermStats(n) \/ TermFails(n)

TermNext ==
    \/ \E l \in Lines : TermEnter(l) \/ TermHanded(l)
    \/ \E n \in DOMAIN line : TermStep(n)
    \/ \E i \in {1, 2} : PageGoes(i) \/ PageBinds(i)
    \/ PageActivates \/ PageOpens \/ PageCloses \/ PageClears

TermSpec == TermInit /\ [][TermNext]_termVars
-----------------------------------------------------------------------------
(* Properties.                                                             *)

TermTypeOK ==
    /\ active \in {1, 2} /\ Len(scroll) <= OutputLimit /\ Len(line) <= MaxLines
    /\ \A i \in {1, 2} : spot[i].m \in Machines \cup {Nowhere}
    /\ \A n \in DOMAIN line : line[n].at \in {"ask", "start", "over"}
    /\ busy \in BOOLEAN

\* "The pane is moved only once the host has agreed there is something there":
\* a `cd` takes its pane to a directory of the host the pane is on, but for a
\* line that ran beside another or whose pane was bound elsewhere meanwhile.
CdLandsSomewhere ==
    \A n \in DOMAIN line : line[n].to # << >> /\ n \notin rival =>
        LET t == Trees[line[n].to[1]] IN line[n].to[2] \in DOMAIN t /\ t[line[n].to[2]] = "dir"

\* "A selection is always inside one listing": a dialog the terminal opened is
\* about things of one directory of the line's host that are there, and no directory
\* unless -r was typed.
DialogIsOfOnePlace ==
    \A d \in modals : d.kind # "toolbar" =>
        /\ d.m = line[d.of].m
        /\ \A p \in d.rows : p \in DOMAIN Trees[d.m] /\ Front(p) = d.dir
        /\ d.kind = "rm" /\ ~line[d.of].want.deep => \A p \in d.rows : Trees[d.m][p] # "dir"

\* "Kept above its own output": what answers a line stands under its echo,
\* unless lines ran side by side.
AnswerUnderItsEcho ==
    rival = {} =>
        \A i \in DOMAIN scroll \ {1} :
            scroll[i].kind # "echo" => scroll[i - 1].of = scroll[i].of
=============================================================================
