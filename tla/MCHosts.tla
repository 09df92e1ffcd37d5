------------------------------ MODULE MCHosts ------------------------------
(* Small instances of the modules about a host, about who may act on it,   *)
(* and about how the application gets where it runs, side by side: they    *)
(* share no state, and a behaviour is one of theirs.                       *)
EXTENDS HostReadings, HostEdits, HostKeys, AuditTrail, SudoWindows, SshCalls, Deploy, TLC

CONSTANT Parts    \* the components a run has: "readings", "edits", "keys", "trail", "sudo", "calls", "deploy"
VARIABLE part

\* A home, a directory of it, and what holds both.
Nested == "/" :> {"/"} @@ "/h" :> {"/", "/h"} @@ "/h/a" :> {"/", "/h", "/h/a"}

\* Two keys of one algorithm and one of another.
TwoKinds == "k1" :> "ed" @@ "k2" :> "rsa" @@ "k3" :> "ed"

PartInit ==
    /\ part \in Parts
    /\ ReadInit /\ RowInit /\ KeyInit /\ TrailInit /\ SudoInit /\ CallInit /\ ShipInit
    /\ ~owner    \* nothing binds the owner's hosts
    /\ part # "keys" => pins = Unpinned /\ offers = "k1"
    /\ part # "calls" => kind = [c \in Commands |-> "sftp"]
    /\ part # "deploy" => half = "api" /\ sound = {1}
    /\ alive = {CHOOSE s \in Sids : TRUE}

PartNext ==
    /\ UNCHANGED part
    /\ \/ part = "readings" /\ ReadNext  /\ UNCHANGED <<rowVars, keyVars, trailVars, sudoVars, sshVars, shipVars>>
       \/ part = "edits"    /\ RowNext   /\ UNCHANGED <<readVars, keyVars, trailVars, sudoVars, sshVars, shipVars>>
       \/ part = "keys"     /\ KeyNext   /\ UNCHANGED <<readVars, rowVars, trailVars, sudoVars, sshVars, shipVars>>
       \/ part = "trail"    /\ TrailNext /\ UNCHANGED <<readVars, rowVars, keyVars, sudoVars, sshVars, shipVars>>
       \/ part = "sudo"     /\ SudoNext  /\ UNCHANGED <<readVars, rowVars, keyVars, trailVars, sshVars, shipVars>>
       \/ part = "calls"    /\ CallNext  /\ UNCHANGED <<readVars, rowVars, keyVars, trailVars, sudoVars, shipVars>>
       \/ part = "deploy"   /\ ShipNext  /\ UNCHANGED <<readVars, rowVars, keyVars, trailVars, sudoVars, sshVars>>

PartSpec ==
    /\ PartInit /\ [][PartNext]_<<readVars, rowVars, keyVars, trailVars, sudoVars, sshVars, shipVars, part>>
    /\ ReadFair /\ TrailFair /\ SudoFair /\ CallFair

\* The type invariants.
HostTypesOK == ReadTypeOK /\ RowTypeOK /\ KeyTypeOK /\ TrailTypeOK /\ SudoTypeOK /\ CallTypeOK /\ ShipTypeOK

\* What is kept of a host is of the host as it is: its readings are taken one
\* at a time and forgotten with an edit of the connection, and a member's host
\* has a root; a slot of its connection is held by a call under way, one that
\* says done having exited; and the version that runs is kept until the next
\* one is well (OneSampleAtATime, ForgottenWithTheEdit, NeverRootless,
\* LeaseIsOfItsCall, DoneHasExited, FailureLeavesLive, VersionIsKept).
HostsAreKept ==
    /\ OneSampleAtATime /\ ForgottenWithTheEdit /\ NeverRootless
    /\ LeaseIsOfItsCall /\ DoneHasExited
    /\ FailureLeavesLive /\ VersionIsKept

\* Who acted is on record and was allowed to: what changed has a row, what a
\* client was told is in it, a pending row is a call that did not finish, an
\* account keeps to its limit, a sudo window lasts what it says and ends with
\* its session, and a deploy that is told a success is served and is what its
\* name says (ChangeIsRecorded, ToldIsRecorded, PendingIsUnfinished, LimitHolds,
\* WindowIsACeiling, WindowHasItsSession, SuccessIsServed, ShippedIsNamed).
ActsAreOnRecord ==
    /\ ChangeIsRecorded /\ ToldIsRecorded /\ PendingIsUnfinished /\ LimitHolds
    /\ WindowIsACeiling /\ WindowHasItsSession
    /\ SuccessIsServed /\ ShippedIsNamed

\* A key is pinned by a person, and what goes on as root does so with a password
\* that a window was open for (PinsDoNotSpread, RootWasLetIn).
NothingIsGranted == PinsDoNotSpread /\ RootWasLetIn

\* Every panel and every call is answered, a limit lifts, a password whose
\* window ran out is erased, and a lease comes back (ReadIsAnswered,
\* CallsAreAnswered, WindowLifts, PasswordsAreErased, LeasesComeBack).
WaitsEnd ==
    /\ ReadIsAnswered /\ CallsAreAnswered /\ WindowLifts /\ PasswordsAreErased
    /\ LeasesComeBack
=============================================================================
