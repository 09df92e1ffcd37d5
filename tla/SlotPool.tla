------------------------------ MODULE SlotPool ------------------------------
(***************************************************************************)
(* What the three job lines of the API promise: transfers, disk scans and  *)
(* checksum jobs.  A task waits or runs and is never in both, no more than *)
(* Cap run at once and no more than PerMachine on one machine, a running   *)
(* task only ever stops, and no task waits while it would fit.  How a line *)
(* is kept, who is started first and what a task does is left to the       *)
(* modules that implement this one.                                        *)
(***************************************************************************)
EXTENDS Naturals, FiniteSets

CONSTANTS
    Tasks,
    Machines,
    Cap,
    PerMachine

VARIABLES
    waiting,  \* the tasks in line
    running,  \* the tasks with a slot
    on        \* on[t]: the machines a task in either set uses, {} otherwise

slotVars == <<waiting, running, on>>

\* A task fits beside the busy ones.
Room(t, busy, where) ==
    /\ Cardinality(busy) < Cap
    /\ \A m \in where[t] : Cardinality({k \in busy : m \in where[k]}) < PerMachine

\* Some of the tasks in line get a slot, as many as fit, and the others wait.
Admit(line, busy, where) ==
    /\ \E S \in SUBSET line :
        /\ waiting' = line \ S
        /\ running' = busy \cup S
    /\ on' = [t \in Tasks |-> IF t \in line \cup busy THEN where[t] ELSE {}]
    /\ Cardinality(running') <= Cap
    /\ \A m \in Machines : Cardinality({t \in running' : m \in on'[t]}) <= PerMachine
    /\ \A t \in waiting' : ~Room(t, running', on')

Arrive(t) ==
    /\ t \notin waiting \cup running
    /\ \E ms \in SUBSET Machines :
        Admit(waiting \cup {t}, running, [on EXCEPT ![t] = ms])

Leave(t) ==
    /\ t \in running
    /\ Admit(waiting, running \ {t}, on)

Withdraw(t) ==
    /\ t \notin running
    /\ waiting' = waiting \ {t}
    /\ on' = [on EXCEPT ![t] = {}]
    /\ UNCHANGED running

\* A process that is stopping clears the line and starts nothing more.
Close ==
    /\ waiting' = {}
    /\ on' = [t \in Tasks |-> IF t \in running THEN on[t] ELSE {}]
    /\ UNCHANGED running

Die ==
    /\ waiting' = {} /\ running' = {}
    /\ on' = [t \in Tasks |-> {}]

\* A new process takes up what the last one left, all at once.
Reclaim ==
    /\ waiting = {} /\ running = {}
    /\ \E line \in SUBSET Tasks, where \in [Tasks -> SUBSET Machines] : Admit(line, {}, where)

Init ==
    /\ waiting = {} /\ running = {}
    /\ on = [t \in Tasks |-> {}]

Next ==
    \/ \E t \in Tasks : Arrive(t) \/ Leave(t) \/ Withdraw(t)
    \/ Close \/ Die \/ Reclaim

Spec == Init /\ [][Next]_slotVars
=============================================================================
