----------------------------- MODULE SudoWindows -----------------------------
(***************************************************************************)
(* The sudo windows of one account's sessions: opened once the host has    *)
(* taken the password, used by operations that were refused, swept when    *)
(* they run out, dropped with their session.  Sign-in and sign-out are     *)
(* here with the awaits between the windows' end and the session's.        *)
(***************************************************************************)
EXTENDS Naturals, FiniteSets

CONSTANTS
    Sids,      \* session ids, each given out once
    SudoHosts, \* the hosts
    Asks,      \* requests at one time
    Length,    \* SUDO_WINDOW_MS, in ticks
    MaxTime,   \* bounds: the ticks,
    MaxSignIns \* the sign-ins and recoveries

ASSUME SudoAssumption ==
    /\ IsFiniteSet(Sids) /\ IsFiniteSet(Asks) /\ Length \in Nat \ {0} /\ {MaxTime, MaxSignIns} \subseteq Nat

VARIABLES
    now,
    windows, \* windows[<<s, h>>]: when it runs out, for those there are
    alive,   \* the sessions in Redis that carry the account
    given,   \* the session ids given out
    ask,     \* ask[a]: a request of a session about a host, and where it stands
    leaving, \* the sessions whose windows were dropped and which are being ended
    signIn,  \* a sign-in or a recovery: what its sweep found, and its own session
    signIns,
    left,    \* history: the windows that outlive their session by design or by a race
    took     \* history: took[k], when the host took that password of a window nobody has
             \* closed and whose time is not over

sudoVars == <<now, windows, alive, given, ask, leaving, signIn, signIns, left, took>>

Nobody    == ""
NoAsk     == [at |-> "idle", sid |-> Nobody, host |-> Nobody]
NoSignIn  == [at |-> "idle", found |-> {}, own |-> Nobody]
Held      == DOMAIN windows
Key(a)    == <<ask[a].sid, ask[a].host>>
InWindow(k) == k \in Held /\ windows[k] > now
Without(ks) == [k \in Held \ ks |-> windows[k]]
Of(sids)  == {k \in Held : k[1] \in sids}
Closed(ks) == [k \in DOMAIN took \ ks |-> took[k]]    \* somebody gave these up
OwnOf(sids) == {k \in DOMAIN took : k[1] \in sids}
-----------------------------------------------------------------------------
(* The windows.                                                            *)

\* A request of a session that is there: to open a window or to close it, or an
\* operation that was refused and finds one open (SudoRunnerService.isOpen).
SudoAsked(a) ==
    /\ ask[a].at = "idle"
    /\ \E s \in alive, h \in SudoHosts, p \in {"probe", "drop", "refused"} :
        /\ p = "refused" => InWindow(<<s, h>>)
        /\ ask' = [ask EXCEPT ![a] = [at |-> p, sid |-> s, host |-> h]]
    /\ UNCHANGED <<now, windows, alive, given, leaving, signIn, signIns, left, took>>

\* Mutation: what was left of the window is added.
ExtendedBy(k) == (IF InWindow(k) THEN windows[k] ELSE now) + Length

\* SudoService.open: a new clock, whatever was left.
RunsOut(k) == now + Length

\* openSudo: the host took the password, whoever is signed in by now.
SudoOpened(a) ==
    /\ ask[a].at = "probe" /\ ask' = [ask EXCEPT ![a] = NoAsk]
    /\ windows' = [k \in Held \cup {Key(a)} |-> IF k = Key(a) THEN RunsOut(k) ELSE windows[k]]
    /\ left' = IF ask[a].sid \in alive \ leaving THEN left ELSE left \cup {Key(a)}
    /\ took' = [k \in DOMAIN took \cup {Key(a)} |-> IF k = Key(a) THEN now ELSE took[k]]
    /\ UNCHANGED <<now, alive, given, leaving, signIn, signIns>>

\* A password that sudo refuses, or a host that could not be asked.
SudoRefused(a) ==
    /\ ask[a].at = "probe" /\ ask' = [ask EXCEPT ![a] = NoAsk]
    /\ UNCHANGED <<now, windows, alive, given, leaving, signIn, signIns, left, took>>

\* dropSudo, after the host was looked up.
SudoDropped(a) ==
    /\ ask[a].at = "drop" /\ ask' = [ask EXCEPT ![a] = NoAsk]
    /\ windows' = Without({Key(a)}) /\ took' = Closed({Key(a)})
    /\ UNCHANGED <<now, alive, given, leaving, signIn, signIns, left>>

\* Mutation: an operation that found a window open is not asked again.
SudoRunsUnasked(a) ==
    /\ ask[a].at = "refused" /\ ask' = [ask EXCEPT ![a].at = "wait"]
    /\ UNCHANGED <<now, windows, alive, given, leaving, signIn, signIns, left, took>>

\* run, stream and write ask again, and take the password with them: fifteen
\* minutes may have passed.  A window found out of time is erased there.
SudoRuns(a) ==
    /\ ask[a].at = "refused"
    /\ ask' = [ask EXCEPT ![a] = IF InWindow(Key(a)) THEN [@ EXCEPT !.at = "wait"] ELSE NoAsk]
    /\ windows' = IF InWindow(Key(a)) THEN windows ELSE Without({Key(a)})
    /\ UNCHANGED <<now, alive, given, leaving, signIn, signIns, left, took>>

\* exec and execStream: the command starts once the pool gives a connection,
\* however long that takes, and nobody looks at the window again; or there is
\* none, or no channel.
SudoStarts(a) ==
    /\ ask[a].at = "wait"
    /\ ask' \in {[ask EXCEPT ![a].at = "root"], [ask EXCEPT ![a] = NoAsk]}
    /\ UNCHANGED <<now, windows, alive, given, leaving, signIn, signIns, left, took>>

\* The command ends; the chmod after a write runs with the same password.
SudoRan(a) ==
    /\ ask[a].at \in {"root", "chmod"}
    /\ \E p \in {"chmod", "idle"} :
        /\ p = "chmod" => ask[a].at = "root"
        /\ ask' = [ask EXCEPT ![a] = IF p = "chmod" THEN [@ EXCEPT !.at = p] ELSE NoAsk]
    /\ UNCHANGED <<now, windows, alive, given, leaving, signIn, signIns, left, took>>

\* Mutation: the windows of sessions that ended are left to their owners.
SweepOfTheLiving ==
    /\ \E k \in Held : windows[k] <= now
    /\ windows' = Without({k \in Held : windows[k] <= now /\ k[1] \in alive})
    /\ UNCHANGED <<now, alive, given, ask, leaving, signIn, signIns, left, took>>

\* sweep.
SudoSweeps ==
    /\ \E k \in Held : windows[k] <= now
    /\ windows' = Without({k \in Held : windows[k] <= now})
    /\ UNCHANGED <<now, alive, given, ask, leaving, signIn, signIns, left, took>>

\* isOpen on a window that ran out erases it, too.
SudoErases ==
    /\ \E k \in Held : k[1] \in alive /\ windows[k] <= now /\ windows' = Without({k})
    /\ UNCHANGED <<now, alive, given, ask, leaving, signIn, signIns, left, took>>

SudoTick ==
    /\ now < MaxTime /\ now' = now + 1
    /\ took' = Closed({k \in DOMAIN took : took[k] + Length <= now + 1})
    /\ UNCHANGED <<windows, alive, given, ask, leaving, signIn, signIns, left>>

\* The process ends and starts: the windows are gone, the sessions are not.
SudoRestart ==
    /\ windows # <<>> /\ windows' = [k \in {} |-> 0] /\ took' = [k \in {} |-> 0]
    /\ ask' = [a \in Asks |-> NoAsk] /\ leaving' = {} /\ signIn' = NoSignIn
    /\ UNCHANGED <<now, alive, given, signIns, left>>
-----------------------------------------------------------------------------
(* The sessions.                                                           *)

\* Sign-in from a browser, with the account's session or without, or a
\* recovery, which opens none.
SignInAsked ==
    /\ signIn.at = "idle" /\ signIns < MaxSignIns /\ signIns' = signIns + 1
    /\ \E own \in alive \cup {Nobody}, p \in {"sweep", "recover"} :
          signIn' = [at |-> p, found |-> alive, own |-> own]
    /\ UNCHANGED <<now, windows, alive, given, ask, leaving, left, took>>

\* Mutation: the windows are looked for under the session that is to come.
DroppedAfter(s) == {}

DroppedFor(s) == Of({s})

\* clearSessionsForUser, and in the same turn the windows of the session the
\* request came with.  Those of the others stay, which establishSession says.
SignInSwept ==
    /\ signIn.at \in {"sweep", "recover"}
    /\ alive' = alive \ signIn.found
    /\ IF signIn.at = "sweep"
       THEN /\ windows' = Without(DroppedFor(signIn.own)) /\ took' = Closed(OwnOf({signIn.own}))
            /\ left' = left \cup Of(signIn.found \ {signIn.own})
            /\ signIn' = [signIn EXCEPT !.at = "regenerate"]
       ELSE /\ left' = left \cup Of(signIn.found)
            /\ signIn' = NoSignIn /\ UNCHANGED <<windows, took>>
    /\ UNCHANGED <<now, given, ask, leaving, signIns>>

\* regenerateSession: a new id, and the answer saves it; or it fails.
SignedIn ==
    /\ signIn.at = "regenerate" /\ signIn' = NoSignIn
    /\ \/ \E s \in Sids \ given : alive' = alive \cup {s} /\ given' = given \cup {s}
       \/ UNCHANGED <<alive, given>>
    /\ UNCHANGED <<now, windows, ask, leaving, signIns, left, took>>

\* Mutation: sign-out leaves the windows to the sweep.
SignOutLate ==
    /\ \E s \in alive \ leaving : leaving' = leaving \cup {s} /\ took' = Closed(OwnOf({s}))
    /\ UNCHANGED <<now, windows, alive, given, ask, signIn, signIns, left>>

\* logout drops the windows, and then ends the session.
SignOut ==
    /\ \E s \in alive \ leaving :
        /\ windows' = Without(Of({s})) /\ took' = Closed(OwnOf({s}))
        /\ leaving' = leaving \cup {s}
    /\ UNCHANGED <<now, alive, given, ask, signIn, signIns, left>>

SignedOut ==
    /\ \E s \in leaving :
        /\ leaving' = leaving \ {s}
        /\ alive' \in {alive, alive \ {s}}
    /\ UNCHANGED <<now, windows, given, ask, signIn, signIns, left, took>>

SudoInit ==
    /\ now = 0 /\ windows = [k \in {} |-> 0]
    /\ \E s \in Sids : alive = {s} /\ given = {s}
    /\ ask = [a \in Asks |-> NoAsk] /\ leaving = {} /\ signIn = NoSignIn /\ signIns = 0 /\ left = {}
    /\ took = [k \in {} |-> 0]

SudoNext ==
    \/ \E a \in Asks : \/ SudoAsked(a) \/ SudoOpened(a) \/ SudoRefused(a) \/ SudoDropped(a)
                       \/ SudoRuns(a) \/ SudoStarts(a) \/ SudoRan(a)
    \/ SudoSweeps \/ SudoErases \/ SudoTick \/ SudoRestart
    \/ SignInAsked \/ SignInSwept \/ SignedIn \/ SignOut \/ SignedOut

\* The sweep is a timer of the process.
SudoFair == WF_sudoVars(SudoSweeps)
SudoSpec == SudoInit /\ [][SudoNext]_sudoVars /\ SudoFair
-----------------------------------------------------------------------------
(* Properties.                                                             *)

SudoTypeOK ==
    /\ now \in 0 .. MaxTime /\ Held \subseteq Sids \X SudoHosts
    /\ alive \subseteq given /\ leaving \subseteq given /\ left \subseteq Sids \X SudoHosts
    /\ DOMAIN took \subseteq Held
    /\ \A a \in Asks : ask[a].at \in {"idle", "probe", "drop", "refused", "wait", "root", "chmod"}

\* "Adding to whatever was left would make the fifteen minutes a floor instead
\* of a ceiling".
WindowIsACeiling == \A k \in Held : windows[k] <= now + Length

\* "Dropped on sign-out": a window that can be used is of a session that is
\* there, but for those a sign-in elsewhere or a recovery leaves, and those a
\* request opens while its session is being ended.
WindowHasItsSession == \A k \in Held \ left : InWindow(k) => k[1] \in alive

\* "isOpen and the call are two moments, and fifteen minutes can pass between
\* them": what goes on as root goes on with a password that the host had taken,
\* from that session, less than the window's length before, and that nobody had
\* given up by closing the window or signing out.  When the command starts is
\* not said: it waits for a connection first.
Elevated(r) == r.at \in {"wait", "root", "chmod"}
RootWasLetIn ==
    [][\A a \in Asks : ~Elevated(ask[a]) /\ Elevated(ask'[a]) =>
          Key(a) \in DOMAIN took /\ now < took[Key(a)] + Length]_sudoVars

\* "The promise that the password is gone after fifteen minutes rather than
\* merely unusable".
PasswordsAreErased ==
    \A k \in Sids \X SudoHosts : (k \in Held /\ windows[k] <= now) ~> ~(k \in Held /\ windows[k] <= now)
=============================================================================
