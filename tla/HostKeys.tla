------------------------------ MODULE HostKeys ------------------------------
(***************************************************************************)
(* The key pins of one host: evaluateHostKey on the pins a connection was  *)
(* given, HostKeyService recording, relabelling and refusing what it saw   *)
(* afterwards, and a person replacing a pin or naming one on a form, while *)
(* the server changes its key.  A transaction is one step.                 *)
(***************************************************************************)
EXTENDS Naturals, FiniteSets

CONSTANTS
    Keys,        \* the keys a server may offer
    AlgOf,       \* AlgOf[k]: the algorithm of the key
    Legacy,      \* the label of a pin older than the algorithms
    Dials,       \* the connections
    MaxSwaps     \* bound on the times the server changes its key

ASSUME HostKeyAssumption ==
    /\ DOMAIN AlgOf = Keys /\ Legacy \notin {AlgOf[k] : k \in Keys}
    /\ IsFiniteSet(Dials) /\ MaxSwaps \in Nat

VARIABLES
    there,      \* the host's row exists
    pins,       \* pins[a]: the key pinned under a, or NoKey
    dial,       \* dial[d]: [at, pins, key]
    offers,     \* the key the server has now
    swaps,
    accepted    \* history: the keys a person confirmed

keyVars == <<there, pins, dial, offers, swaps, accepted>>

Algorithms == {AlgOf[k] : k \in Keys} \cup {Legacy}
NoKey      == "none"
Unpinned   == [a \in Algorithms |-> NoKey]
Pins       == {a \in Algorithms : pins[a] # NoKey}
IdleDial   == [at |-> "idle", pins |-> Unpinned, key |-> NoKey]

\* evictHost, and the invalidation by an update or a delete.
Evicted == [d \in Dials |-> IF dial[d].at = "open" THEN IdleDial ELSE dial[d]]
-----------------------------------------------------------------------------
(* A connection.                                                           *)

\* It is asked for with the pins of the row.
KeyDial(d) ==
    /\ dial[d].at = "idle" /\ there
    /\ dial' = [dial EXCEPT ![d] = [at |-> "shake", pins |-> pins, key |-> NoKey]]
    /\ UNCHANGED <<there, pins, offers, swaps, accepted>>

\* Mutation: an algorithm never seen is a first use.
VerdictPerAlgorithm(ps, k) ==
    IF ps[AlgOf[k]] = k THEN "matched"
    ELSE IF ps[AlgOf[k]] = NoKey THEN "trusted"
    ELSE "mismatch"

\* evaluateHostKey.
Verdict(ps, k) ==
    IF ps = Unpinned THEN "trusted"
    ELSE IF ps[AlgOf[k]] = k THEN "matched"
    ELSE IF ps[AlgOf[k]] = NoKey /\ ps[Legacy] = k THEN "relabel"
    ELSE "mismatch"

\* The handshake.  A mismatch also closes the connections the host has.
KeyShake(d) ==
    /\ dial[d].at = "shake"
    /\ LET v == Verdict(dial[d].pins, offers)
       IN  dial' = IF v = "mismatch" THEN [Evicted EXCEPT ![d] = IdleDial]
                   ELSE [dial EXCEPT ![d].at = IF v = "matched" THEN "open" ELSE v, ![d].key = offers]
    /\ UNCHANGED <<there, pins, offers, swaps, accepted>>

\* pin(): a row that is there already stays.
KeyPin(d) ==
    /\ dial[d].at = "trusted"
    /\ LET a == AlgOf[dial[d].key]
       IN  pins' = IF there /\ pins[a] = NoKey THEN [pins EXCEPT ![a] = dial[d].key] ELSE pins
    /\ dial' = [dial EXCEPT ![d].at = "open"]
    /\ UNCHANGED <<there, offers, swaps, accepted>>

\* relabel(): the old row goes when it still holds that key, and the key is
\* under its algorithm unless a row is there.
KeyRelabel(d) ==
    /\ dial[d].at = "relabel"
    /\ LET a == AlgOf[dial[d].key]
       IN  pins' = IF pins[Legacy] # dial[d].key THEN pins
                   ELSE [pins EXCEPT ![Legacy] = NoKey, ![a] = IF @ = NoKey THEN dial[d].key ELSE @]
    /\ dial' = [dial EXCEPT ![d].at = "open"]
    /\ UNCHANGED <<there, offers, swaps, accepted>>

KeyHangUp(d) ==
    /\ dial[d].at = "open" /\ dial' = [dial EXCEPT ![d] = IdleDial]
    /\ UNCHANGED <<there, pins, offers, swaps, accepted>>
-----------------------------------------------------------------------------
(* The person and the server.                                              *)

\* accept(): the key named, which need not be the one offered now, takes the
\* place of the pin of its algorithm.
KeyAccept ==
    /\ there
    /\ \E k \in Keys :
          /\ pins' = [pins EXCEPT ![AlgOf[k]] = k]
          /\ accepted' = accepted \cup {k}
          /\ dial' = IF pins[AlgOf[k]] = k THEN dial ELSE Evicted
    /\ UNCHANGED <<there, offers, swaps>>

\* A fingerprint on an update pins only a host that has no pin.
KeyOnForm ==
    /\ there
    /\ \E k \in Keys :
          IF Pins = {} THEN pins' = [pins EXCEPT ![AlgOf[k]] = k] /\ accepted' = accepted \cup {k}
          ELSE UNCHANGED <<pins, accepted>>
    /\ dial' = Evicted
    /\ UNCHANGED <<there, offers, swaps>>

\* The host is deleted, and its keys with it.
KeyHostGone ==
    /\ there /\ there' = FALSE /\ pins' = Unpinned /\ dial' = Evicted
    /\ UNCHANGED <<offers, swaps, accepted>>

ServerSwaps ==
    /\ swaps < MaxSwaps /\ swaps' = swaps + 1
    /\ \E k \in Keys \ {offers} : offers' = k
    /\ UNCHANGED <<there, pins, dial, accepted>>

\* A host created without a pin, with one, or before there were algorithms.
KeyInit ==
    /\ there = TRUE /\ offers \in Keys /\ swaps = 0
    /\ dial = [d \in Dials |-> IdleDial]
    /\ \/ pins = Unpinned /\ accepted = {}
       \/ \E k \in Keys : pins \in {[Unpinned EXCEPT ![AlgOf[k]] = k], [Unpinned EXCEPT ![Legacy] = k]}
                          /\ accepted = {k}

KeyNext ==
    \/ KeyAccept \/ KeyOnForm \/ KeyHostGone \/ ServerSwaps
    \/ \E d \in Dials :
          KeyDial(d) \/ KeyShake(d) \/ KeyPin(d) \/ KeyRelabel(d) \/ KeyHangUp(d)

KeySpec == KeyInit /\ [][KeyNext]_keyVars
-----------------------------------------------------------------------------
(* Properties.                                                             *)

KeyTypeOK ==
    /\ pins \in [Algorithms -> Keys \cup {NoKey}] /\ there \in BOOLEAN
    /\ \A a \in Pins \ {Legacy} : AlgOf[pins[a]] = a
    /\ \A d \in Dials : dial[d].at \in {"idle", "shake", "trusted", "relabel", "open"}
    /\ accepted \subseteq Keys /\ offers \in Keys /\ swaps \in 0..MaxSwaps

\* A host with any pin is off limits to all but a person: a key comes to be
\* pinned beside or over another only when somebody confirmed it, when its row
\* is relabelled, or when two connections found the host without a pin.
PinsDoNotSpread ==
    [][\A a \in Algorithms : pins'[a] \notin {pins[a], NoKey} /\ Pins # {} =>
          \/ pins'[a] \in accepted'
          \/ \E b \in Pins : pins[b] = pins'[a]
          \/ \E d \in Dials : dial[d].at = "trusted" /\ dial[d].key = pins'[a]
                              /\ dial[d].pins = Unpinned]_keyVars
=============================================================================
