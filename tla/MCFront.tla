------------------------------ MODULE MCFront ------------------------------
(* Small instances of what a page of the front end keeps, for TLC, side by *)
(* side: they share no state, and a behaviour is one of theirs.            *)
EXTENDS UploadTray, TransferStrip, TailFeed, SizesFeed, PaneMemory, Terminal, PageDialogs, TLC

CONSTANTS Parts,   \* the components a run has: "tray", "strip", "feed", "sizes", "pane", "term",
                   \* "dialogs"
          u1, u2, u3
VARIABLE part

\* Two files in one request, and one with a claim of its own.
Packed == <<{u1, u2}, {u3}>>

\* Two hosts whose homes have one path, and the names of every directory.
SameHome == "H" :> "/" @@ "I" :> "/"
TwoNames == <<"x", "y">>

\* What the lines of a terminal name: a file and a directory with one below on
\* one host, a directory on the other; one name that two hosts match.
TwoTrees ==
    "H" :> (<< >> :> "dir" @@ <<"a">> :> "dir" @@ <<"x">> :> "file" @@ <<"a", "x">> :> "file") @@
    "I" :> (<< >> :> "dir" @@ <<"b">> :> "dir")
RootHomes == [m \in {"H", "I"} |-> << >>]
TwoMatch  == "I" :> {"I"} @@ "web" :> {"H", "I"}
Typed ==
    [w \in {"a", "x", "..", "-r"} |-> [abs |-> FALSE, segs |-> <<w>>]] @@
    "/a/x" :> [abs |-> TRUE, segs |-> <<"a", "x">>]
TermLines ==
    {<<"ls">>, <<"cd", "a">>, <<"cd", "-">>, <<"cd", "..">>, <<"rm", "x">>, <<"rm", "-r", "x", "a">>,
     <<"rm", "a">>, <<"chmod", "644", "x", "/a/x">>, <<"du", "-h">>, <<"ssh", "I">>, <<"ssh", "web">>,
     <<"clear">>}

\* Two directories, a name of one of which is in the other too; others take it
\* away and put it back.
TwoDirs  == "p" :> {"a", "b"} @@ "q" :> {"b"}
FirstDir == <<"p", "q">>
Sorted   == [s \in SUBSET {"a", "b"} |-> IF "a" \in s THEN "a" ELSE "b"]
Theirs   == {<<"p", "a">>}

\* A component that is not the behaviour's has one initial state.  Of the two
\* files of a request, one may find its name taken; no partial is whole at
\* first, and where one cannot be appended to the files are to be overwritten.
PartInit ==
    /\ part \in Parts
    /\ TrayInit /\ StripInit /\ FeedInit /\ SizesInit /\ PaneInit /\ TermInit /\ DlgInit
    /\ part # "tray"  => /\ host = [policy |-> "skip", kept |-> 0, tee |-> FALSE]
                         /\ \A f \in Files : place[f] = "none"
    /\ place[u2] = "none" /\ host.kept < Size /\ (host.tee => host.policy = "overwrite")
    /\ part # "feed"  => written = 0
    /\ part # "pane"  => url = [h |-> "H", p |-> "/"]
    /\ part # "term"  => spot[1].m = "H"

PartNext ==
    /\ UNCHANGED part
    /\ \/ part = "tray"  /\ TrayNext  /\ UNCHANGED <<stripVars, feedVars, sizesVars, paneVars, termVars, dlgVars>>
       \/ part = "strip" /\ StripNext /\ UNCHANGED <<trayVars, feedVars, sizesVars, paneVars, termVars, dlgVars>>
       \/ part = "feed"  /\ FeedNext  /\ UNCHANGED <<trayVars, stripVars, sizesVars, paneVars, termVars, dlgVars>>
       \/ part = "sizes" /\ SizesNext /\ UNCHANGED <<trayVars, stripVars, feedVars, paneVars, termVars, dlgVars>>
       \/ part = "pane"  /\ PaneNext  /\ UNCHANGED <<trayVars, stripVars, feedVars, sizesVars, termVars, dlgVars>>
       \/ part = "term"  /\ TermNext  /\ UNCHANGED <<trayVars, stripVars, feedVars, sizesVars, paneVars, dlgVars>>
       \/ part = "dialogs" /\ DlgNext /\ UNCHANGED <<trayVars, stripVars, feedVars, sizesVars, paneVars, termVars>>

PartSpec ==
    /\ PartInit /\ [][PartNext]_<<trayVars, stripVars, feedVars, sizesVars, paneVars, termVars,
                               dlgVars, part>>
    /\ TrayFair /\ StripFair

\* The type invariants.
FrontTypesOK ==
    /\ TrayTypeOK /\ StripTypeOK /\ FeedTypeOK /\ SizesTypeOK
    /\ PaneTypeOK /\ TermTypeOK /\ DlgTypeOK

\* What is done once is done once: a file of an upload is put there once, an end
\* is told once, and what was cut is moved once (SentOnce, ToldOnce, CutMovesOnce).
OnceIsOnce == SentOnce /\ ToldOnce /\ CutMovesOnce

\* What a pane shows is of where it is, and lacks nothing that was answered: a
\* feed reads on, figures are of the directory, a finished walk shows them all,
\* the open tab and the selection are where the URL is (FeedReadsOn,
\* FiguresAreOfHere, FinishMissesNothing, TabIsWhereUrlIs, SelectionIsOfHere,
\* ParentIsNotSelected), no job that ended is shown going (FinishedLeaves), and a
\* line of the terminal takes its pane to a directory, opens a dialog on things
\* of one and is answered under its echo (CdLandsSomewhere, DialogIsOfOnePlace,
\* AnswerUnderItsEcho).  A paste goes where its key was pressed, and a dialog's
\* answers are sent for what they were given (PasteGoesWhereItWasPressed,
\* AnsweredForThis).
ScreenIsTrue ==
    /\ FeedReadsOn /\ FiguresAreOfHere /\ FinishMissesNothing
    /\ TabIsWhereUrlIs /\ SelectionIsOfHere /\ ParentIsNotSelected
    /\ FinishedLeaves
    /\ CdLandsSomewhere /\ DialogIsOfOnePlace /\ AnswerUnderItsEcho
    /\ PasteGoesWhereItWasPressed /\ AnsweredForThis

\* What is over stays over, Back goes somewhere, what is held stays held and what
\* was taken is no longer selected (CancelledStaysOff, EndedIsEnd,
\* BackGoesSomewhere, HeldIsKept, NoGhosts).
OverIsOver == CancelledStaysOff /\ EndedIsEnd /\ BackGoesSomewhere /\ HeldIsKept /\ NoGhosts

\* An upload ends and an end is told: UploadEnds and EndsAreTold, in one formula
\* since a behavior is of one component.
Unsettled   == UploadWaits \/ EndUntold
PageSettles == Unsettled ~> ~Unsettled
=============================================================================
