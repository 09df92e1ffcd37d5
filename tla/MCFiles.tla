------------------------------ MODULE MCFiles ------------------------------
(* Small instances of TailRegistry, RenameBatch, DeleteTree,               *)
(* PermissionUndo, UploadResume, Downloads and CompareTrees for TLC, side  *)
(* by side: they share no state, and a behaviour is one of theirs.         *)
EXTENDS TailRegistry, RenameBatch, DeleteTree, PermissionUndo, UploadResume, Downloads, CompareTrees, TLC

CONSTANTS q1, q2, u1, u2,
    Parts    \* the components a run has: "tail", "rename", "delete",
             \* "permissions", "upload", "download", "compare"
VARIABLE part

\* Three streams of one file: two of a session, of which the second comes back
\* for the first, and one of another that may come back for either.
OneFile  == [c \in Streams |-> "f"]
Sessioned == [c \in Streams |-> IF c = "t3" THEN "u" ELSE "s"]
Returning == "t1" :> {} @@ "t2" :> {"t1"} @@ "t3" :> {"t1", "t2"}

\* A directory d with a file of root's and a name somebody makes later, key
\* material g and a link l to d.
Deletable == {"k", "n", "d", "g", "l", "z"}
Holder   == "k" :> "d" @@ "n" :> "d" @@ "d" :> "z" @@ "g" :> "z" @@ "l" :> "z"
KindsOf  == "k" :> "file" @@ "n" :> "file" @@ "d" :> "dir" @@ "g" :> "file" @@ "l" :> "link" @@ "z" :> "dir"
Leads    == "l" :> "d"

\* The first of two deletions selects up to two paths, the other one.
Selected == [q \in Requests |-> IF q = q1 THEN 2 ELSE 1]

\* A directory d with two files, key material g, and a directory s the account
\* may not pass through, with a file.
Chmodded == {"f", "k", "d", "g", "h", "s", "z"}
Within   == "f" :> "d" @@ "k" :> "d" @@ "h" :> "s" @@ "d" :> "z" @@ "g" :> "z" @@ "s" :> "z"
Modes    == "f" :> "a" @@ "k" :> "b" @@ "d" :> "b" @@ "g" :> "a" @@ "h" :> "a"
                @@ "s" :> "shut" @@ "z" :> "b"

\* Post-order: a directory d with key material k, a file of root's f, and a
\* name n others write to.
Served   == <<"a", "k", "d", "f", "n", "z">>
ServedIn == "a" :> "d" @@ "k" :> "d" @@ "d" :> "z" @@ "f" :> "z" @@ "n" :> "z"

\* Two trees of a directory d with two names, each a file, a directory or a
\* link on either side.
Twins    == <<"r", "d", "e", "f">>
TwinsIn  == "d" :> "r" @@ "e" :> "d" @@ "f" :> "d"
TwinsAre == "r" :> {"dir"} @@ "d" :> {"dir", "kept"} @@ "e" :> {"none", "dir", "kept"}
                @@ "f" :> {"kept", "link1", "link?"}

\* Two attempts are not told apart.
Alike == Permutations({u1, u2})

\* What there is of a component that a behaviour does not run.
NoHost  == onDisk = [n \in DownNames |-> "none"] /\ listable = {} /\ rootFor = FALSE
NoTrees ==
    /\ fact = [s \in Sides |-> [p \in Relative |-> "none"]]
    /\ bytes = [s \in Sides |-> [p \in Relative |-> "x"]]
    /\ shut = [s \in Sides |-> {}] /\ cache = [s \in Sides |-> [p \in Relative |-> NoHash]]

PartInit ==
    /\ part \in Parts
    /\ TailInit /\ RenameInit /\ DeleteInit /\ PermInit /\ UploadInit
    /\ DownFresh /\ CmpFresh
    /\ IF part = "download" THEN DownHost ELSE NoHost
    /\ IF part = "compare" THEN CmpTrees ELSE NoTrees
    /\ part # "delete" => sudo
    /\ part # "permissions" => asRoot
    /\ part # "upload" => rootDir /\ window

PartNext ==
    /\ UNCHANGED part
    /\ \/ part = "tail"   /\ TailNext /\ UNCHANGED <<renVars, delVars, permVars, uplVars, downVars, cmpVars>>
       \/ part = "rename" /\ RenameNext /\ UNCHANGED <<tailVars, delVars, permVars, uplVars, downVars, cmpVars>>
       \/ part = "delete" /\ DeleteNext /\ UNCHANGED <<tailVars, renVars, permVars, uplVars, downVars, cmpVars>>
       \/ part = "permissions" /\ PermNext /\ UNCHANGED <<tailVars, renVars, delVars, uplVars, downVars, cmpVars>>
       \/ part = "upload" /\ UploadNext /\ UNCHANGED <<tailVars, renVars, delVars, permVars, downVars, cmpVars>>
       \/ part = "download" /\ DownNext  /\ UNCHANGED <<tailVars, renVars, delVars, permVars, uplVars, cmpVars>>
       \/ part = "compare" /\ CompareNext /\ UNCHANGED <<tailVars, renVars, delVars, permVars, uplVars, downVars>>

PartSpec == PartInit /\ [][PartNext]_<<tailVars, renVars, delVars, permVars, uplVars, downVars, cmpVars, part>>

\* The type invariants.
FileTypesOK ==
    /\ TailTypeOK /\ RenameTypeOK /\ DeleteTypeOK /\ PermTypeOK /\ UploadTypeOK
    /\ DownTypeOK /\ CompareTypeOK

\* What is told of a tail, a download or two trees is so. A tail is read while
\* somebody watches it, charged to who does, and shows every line or says how
\* many it left out (SourceIsWatched, TailsAreCounted, NoLineIsMissed); an
\* archive told complete is the tree, a window is its bytes, a failure is short
\* and nothing protected leaves (ArchiveIsTheTree, RangeIsKept, FailureIsShort,
\* NothingClosedLeaves); files told identical are, and no name is left out of a
\* comparison (IdenticalIsEvidenced, NothingIsPassedOver).
ReadingsAreTrue ==
    /\ SourceIsWatched /\ TailsAreCounted /\ NoLineIsMissed
    /\ ArchiveIsTheTree /\ RangeIsKept /\ FailureIsShort /\ NothingClosedLeaves
    /\ IdenticalIsEvidenced /\ NothingIsPassedOver

\* A batch of renames is the whole of it or nothing, over nobody's file and
\* never over key material (AllOrNothing, NothingReplaced, KeysStay).
RenamesAreWhole == AllOrNothing /\ NothingReplaced /\ KeysStay

\* A deletion removes what it surveyed and reports what it removed
\* (RefusedIsUntouched, OnlySurveyedGoes, OutcomesAreTrue).
DeletionsAreSurveyed == RefusedIsUntouched /\ OnlySurveyedGoes /\ OutcomesAreTrue

\* A change of modes is recorded as it was, and undone to that
\* (SnapshotsAreWhole, UndoRestores).
ModesAreUndone == SnapshotsAreWhole /\ UndoRestores

\* An upload that was answered is the file, and one that was not can go on
\* (UploadedIsWhole, PartialsAreFindable).
UploadsAreWhole == UploadedIsWhole /\ PartialsAreFindable
=============================================================================
