----------------------------- MODULE HostEdits ------------------------------
(***************************************************************************)
(* The stored row of one host and the roots that bound what it serves:     *)
(* HostsService.create, update and remove.  The checks of an update are    *)
(* made on a row read before its transaction; the transaction is one step. *)
(***************************************************************************)
EXTENDS Naturals, FiniteSets

CONSTANTS
    Paths,     \* the clean paths
    Within,    \* Within[p]: p and the paths it is inside of
    Edits      \* the PATCH requests

ASSUME HostEditAssumption ==
    /\ DOMAIN Within = Paths /\ Paths # {} /\ IsFiniteSet(Edits)
    /\ \A p \in Paths : p \in Within[p] /\ Within[p] \subseteq Paths

VARIABLES
    host,     \* [there, home]
    roots,    \* the paths of hostRoots
    owner,    \* the account is the OWNER
    edit      \* edit[e]: the PATCH, [at, home, roots, was]

rowVars == <<host, roots, owner, edit>>

Maybe(S)   == {{}} \cup {{x} : x \in S}     \* a field that may be left out
The(m)     == CHOOSE x \in m : TRUE
Idle       == [at |-> "idle", home |-> {}, roots |-> {}, was |-> {}]
Inside(h, rs) == \E p \in rs : p \in Within[h]

\* requireUsableRoots.
Usable(home, rs) == owner \/ (rs # {} /\ Inside(home, rs))
-----------------------------------------------------------------------------
\* create(): the home is the only root unless roots are given.
HostCreate ==
    /\ ~host.there /\ \A e \in Edits : edit[e].at = "idle"
    /\ \E h \in Paths, rs \in Maybe(SUBSET Paths) :
          LET given == IF rs = {} THEN {h} ELSE The(rs)
          IN  /\ Usable(h, given)
              /\ host' = [there |-> TRUE, home |-> h]
              /\ roots' = given
    /\ UNCHANGED <<owner, edit>>

\* update(), as far as its transaction.
HostEdit(e) ==
    /\ edit[e].at = "idle" /\ host.there
    /\ \E h \in Maybe(Paths), rs \in Maybe(SUBSET Paths) :
          /\ rs # {} => Usable(IF h = {} THEN host.home ELSE The(h), The(rs))
          /\ edit' = [edit EXCEPT ![e] = [at |-> "tx", home |-> h, roots |-> rs, was |-> {host.home}]]
    /\ UNCHANGED <<host, roots, owner>>

\* Mutation: the root that was the home is dropped and nothing is put in its place.
MovedAway(was, home) ==
    roots \ ({was} \ {home})

\* The root that matches the home moves with it, or is dropped when the new
\* home is a root already.
Moved(was, home) ==
    IF was \in roots THEN (roots \ {was}) \cup {home} ELSE roots

\* The transaction.
HostEditCommit(e) ==
    /\ edit[e].at = "tx"
    /\ LET q == edit[e]
       IN  IF ~host.there
           THEN UNCHANGED <<host, roots>>
           ELSE /\ host' = [host EXCEPT !.home = IF q.home = {} THEN @ ELSE The(q.home)]
                /\ roots' = IF q.roots # {} THEN The(q.roots)
                            ELSE IF q.home # {} THEN Moved(The(q.was), The(q.home))
                            ELSE roots
    /\ edit' = [edit EXCEPT ![e] = [Idle EXCEPT !.at = "done"]]
    /\ UNCHANGED owner

\* remove(): the row, and everything of it by the foreign keys.
HostRemove ==
    /\ host.there
    /\ host' = [host EXCEPT !.there = FALSE] /\ roots' = {}
    /\ UNCHANGED <<owner, edit>>

RowInit ==
    /\ owner \in BOOLEAN
    /\ host = [there |-> FALSE, home |-> CHOOSE p \in Paths : TRUE] /\ roots = {}
    /\ edit = [e \in Edits |-> Idle]

RowNext ==
    \/ HostCreate \/ HostRemove
    \/ \E e \in Edits : HostEdit(e) \/ HostEditCommit(e)

RowSpec == RowInit /\ [][RowNext]_rowVars
-----------------------------------------------------------------------------
(* Properties.                                                             *)

RowTypeOK ==
    /\ host.there \in BOOLEAN /\ host.home \in Paths /\ owner \in BOOLEAN
    /\ roots \subseteq Paths
    /\ ~host.there => roots = {}
    /\ \A e \in Edits : edit[e].home \in Maybe(Paths) /\ edit[e].at \in {"idle", "tx", "done"}

\* "A host with no roots can serve nothing": whatever edits of a member's host
\* interleave, it keeps a root.
NeverRootless == host.there /\ ~owner => roots # {}

\* "So this host would open on a refusal": the home of a member's host stays
\* inside a root.
HomeIsReachable == host.there /\ ~owner => Inside(host.home, roots)
=============================================================================
