-------------------------- MODULE TransferRunProofs --------------------------
(* Theorems about TransferRun for any set of items, any tree of directories  *)
(* and any answers; MCTransferRun adds the sum a run of TLC checks.           *)
EXTENDS MCTransferRun, TLAPS

\* Spending a bound leaves the counters counters.
LEMMA Spent ==
    ASSUME NEW c \in Counters, NEW max, used \in [Counters -> Nat], Spend(c, max)
    PROVE  used' \in [Counters -> Nat]
<1>1. used[c] + 1 \in Nat
    OBVIOUS
<1>2. QED
    BY <1>1 DEF Spend

\* What a hand may hold.
Hands == [item : Items \cup {NoItem}, at : Places, name : Names]

LEMMA IdleHand == Idle \in Hands /\ Idle.item = NoItem /\ Idle.at = "idle"
BY RunAssumption DEF Idle, Hands, Places, Names

LEMMA TakenHand ==
    ASSUME NEW i \in Items, NEW at \in Places, NEW n \in Names, Take(i, at, n)
    PROVE  hand' \in Hands /\ hand'.item = i /\ hand'.at = at /\ hand'.name = n
BY DEF Take, Hands

-----------------------------------------------------------------------------
(* Types.                                                                  *)

\* The parts of TypeOK, so that a step proves again only what it changes.
RowTypes ==
    /\ job    \in {"QUEUED", "RUNNING"} \cup Terminal
    /\ status \in [Items -> {"PENDING", "FAILED"} \cup Settled]
    /\ final  \in [Files -> Names]

DiskTypes ==
    /\ src   \subseteq Items
    /\ made  \subseteq Dirs
    /\ dst   \in [Files -> [Names -> {"none", "copy", "other"}]]
    /\ parts \in [Files -> Nat] /\ strays \in [Files -> Nat]
    /\ late  \subseteq Files /\ lost \subseteq Files

TaskTypes ==
    /\ pc      \in {"off", "mounts", "tops", "dirs", "files", "stamps", "sources", "end"}
    /\ plan    \subseteq Items /\ left \subseteq Items
    /\ hand    \in Hands
    /\ abort   \in {"none", "user", "shutdown"}
    /\ outcome \in {"RUNNING"} \cup Terminal
    /\ (hand.item = NoItem \/ pc \in {"off", "end"}) => hand = Idle

LEMMA TypeParts ==
    TypeOK <=> RowTypes /\ DiskTypes /\ TaskTypes /\ used \in [Counters -> Nat]
BY DEF TypeOK, RowTypes, DiskTypes, TaskTypes, Hands

LEMMA TypePartsPrimed ==
    ASSUME RowTypes', DiskTypes', TaskTypes', used' \in [Counters -> Nat]
    PROVE  TypeOK'
BY DEF TypeOK, RowTypes, DiskTypes, TaskTypes, Hands

\* An item in hand is in hand during a run.
LEMMA InHand ==
    ASSUME TypeOK, NEW i \in Items, hand.item = i
    PROVE  pc \notin {"off", "end"} /\ hand.name \in Names
BY RunAssumption, IdleHand DEF TypeOK

\* Throwing leaves a task that is about to end.
LEMMA ThrowTypes ==
    ASSUME TypeOK, Throw, UNCHANGED <<plan, left, abort>>
    PROVE  TaskTypes'
<1>1. outcome' \in {"RUNNING"} \cup Terminal
    BY DEF TypeOK, Throw, Terminal
<1>2. hand' = Idle /\ pc' = "end"
    BY DEF Throw
<1>3. QED
    BY <1>1, <1>2, IdleHand DEF TypeOK, TaskTypes

\* Taking an item leaves a task that goes on.
LEMMA TakeTypes ==
    ASSUME TypeOK, NEW i \in Items, NEW at \in Places, NEW n \in Names, Take(i, at, n),
           pc \notin {"off", "end"}, UNCHANGED <<pc, plan, left, outcome, abort>>
    PROVE  TaskTypes'
<1>1. hand' \in Hands /\ hand'.item # NoItem
    BY TakenHand, RunAssumption
<1>2. QED
    BY <1>1 DEF TypeOK, TaskTypes

\* Finishing with an item frees the hand.
LEMMA FreeTypes ==
    ASSUME TypeOK, hand' = Idle, left' \subseteq Items,
           UNCHANGED <<pc, plan, outcome, abort>>
    PROVE  TaskTypes'
BY IdleHand DEF TypeOK, TaskTypes

LEMMA InitTypes == Init => TypeOK
<1> SUFFICES ASSUME Init PROVE TypeOK
    OBVIOUS
<1>1. 1 \in Names
    BY RunAssumption DEF Names
<1>2. RowTypes
    BY <1>1 DEF Init, RowTypes
<1>3. DiskTypes
    BY <1>1 DEF Init, DiskTypes
<1>4. TaskTypes
    BY IdleHand DEF Init, TaskTypes
<1>5. used \in [Counters -> Nat]
    BY DEF Init, Counters
<1>6. QED
    BY <1>2, <1>3, <1>4, <1>5, TypeParts

LEMMA RenameTypes ==
    ASSUME TypeOK, NEW i \in Items, Rename(i)
    PROVE  TypeOK'
<1>1. 1 \in Names /\ {"moved", "refused"} \subseteq Places
    BY RunAssumption DEF Names, Places
<1>2. CASE RenameTop(i)
    <2>1. TaskTypes'
        BY <1>1, <1>2, TakeTypes DEF RenameTop
    <2>2. dst' \in [Files -> [Names -> {"none", "copy", "other"}]]
        BY <1>1, <1>2 DEF RenameTop, TypeOK
    <2>3. DiskTypes'
        BY <1>2, <2>2 DEF RenameTop, TypeOK, DiskTypes, past
    <2>4. RowTypes' /\ used' \in [Counters -> Nat]
        BY <1>2 DEF RenameTop, TypeOK, RowTypes, rows
    <2>5. QED
        BY <2>1, <2>3, <2>4, TypePartsPrimed
<1>3. CASE RefuseTop(i)
    <2>1. TaskTypes'
        BY <1>1, <1>3, TakeTypes DEF RefuseTop
    <2>2. used' \in [Counters -> Nat]
        BY <1>3, Spent DEF RefuseTop, TypeOK, Counters
    <2>3. RowTypes' /\ DiskTypes'
        BY <1>3 DEF RefuseTop, TypeOK, RowTypes, DiskTypes, rows, disks, past
    <2>4. QED
        BY <2>1, <2>2, <2>3, TypePartsPrimed
<1>4. CASE MarkTop(i)
    <2>1. left' \subseteq Items /\ hand' \in {Idle, hand} /\ UNCHANGED <<pc, plan, outcome, abort>>
        BY <1>4 DEF MarkTop, TypeOK
    <2>2. TaskTypes'
        BY <2>1, IdleHand DEF TypeOK, TaskTypes, Hands
    <2>3. status' \in [Items -> {"PENDING", "FAILED"} \cup Settled]
        BY <1>4 DEF MarkTop, TypeOK, Settled
    <2>4. RowTypes' /\ DiskTypes' /\ used' \in [Counters -> Nat]
        BY <1>4, <2>3 DEF MarkTop, TypeOK, RowTypes, DiskTypes, disks, past
    <2>5. QED
        BY <2>2, <2>4, TypePartsPrimed
<1>5. QED
    BY <1>2, <1>3, <1>4 DEF Rename

LEMMA FolderTypes ==
    ASSUME TypeOK, NEW d \in Dirs, Folder(d)
    PROVE  TypeOK'
<1>1. 1 \in Names /\ {"landed", "broken"} \subseteq Places /\ d \in Items
    BY RunAssumption DEF Names, Places
<1>2. CASE MakeDir(d)
    <2>1. TaskTypes'
        BY <1>1, <1>2, TakeTypes DEF MakeDir
    <2>2. made' \subseteq Dirs
        BY <1>1, <1>2, RunAssumption DEF MakeDir, TypeOK
    <2>3. RowTypes' /\ DiskTypes' /\ used' \in [Counters -> Nat]
        BY <1>2, <2>2 DEF MakeDir, TypeOK, RowTypes, DiskTypes, rows, past
    <2>4. QED
        BY <2>1, <2>3, TypePartsPrimed
<1>3. CASE MakeDirFails(d)
    <2>1. pc \notin {"off", "end"}
        BY <1>1, <1>3, InHand DEF MakeDirFails, Has
    <2>2. TaskTypes'
        BY <1>1, <1>3, <2>1, TakeTypes DEF MakeDirFails
    <2>3. used' \in [Counters -> Nat]
        BY <1>3, Spent DEF MakeDirFails, TypeOK, Counters
    <2>4. RowTypes' /\ DiskTypes'
        BY <1>3 DEF MakeDirFails, TypeOK, RowTypes, DiskTypes, rows, disks, past
    <2>5. QED
        BY <2>2, <2>3, <2>4, TypePartsPrimed
<1>4. CASE RemoveDir(d)
    <2>1. src' \subseteq Items /\ left' \subseteq Items /\ hand' = Idle
        BY <1>4 DEF RemoveDir, NextUp, TypeOK
    <2>2. TaskTypes'
        BY <1>4, <2>1, FreeTypes DEF RemoveDir
    <2>3. RowTypes' /\ DiskTypes' /\ used' \in [Counters -> Nat]
        BY <1>4, <2>1 DEF RemoveDir, TypeOK, RowTypes, DiskTypes, rows, past
    <2>4. QED
        BY <2>2, <2>3, TypePartsPrimed
<1>5. QED
    BY <1>2, <1>3, <1>4 DEF Folder

\* The `.part`s of a file are those of earlier attempts and the one being written.
Writing(f)   == IF Has(f, "bytes") THEN 1 ELSE 0
PartsCounted == \A f \in Files : parts[f] = strays[f] + Writing(f)

\* The one being written can be taken away.
OneLess(f) == [parts EXCEPT ![f] = @ - 1]

LEMMA OneLessTypes ==
    ASSUME TypeOK, PartsCounted, NEW f \in Files, Has(f, "bytes")
    PROVE  OneLess(f) \in [Files -> Nat]
<1>1. parts[f] = strays[f] + 1 /\ strays[f] \in Nat
    BY DEF PartsCounted, Writing, TypeOK
<1>2. parts[f] - 1 \in Nat
    BY <1>1
<1>3. QED
    BY <1>2 DEF OneLess, TypeOK

LEMMA FileTypes ==
    ASSUME TypeOK, PartsCounted, NEW f \in Files, File(f)
    PROVE  TypeOK'
<1>1. /\ 1 \in Names /\ f \in Items
      /\ {"nothing", "settled", "bytes", "landed", "broken", "verified"} \subseteq Places
    BY RunAssumption DEF Names, Places, Files
<1>2. /\ hand.item = f => pc \notin {"off", "end"} /\ hand.name \in Names
      /\ Has(f, "bytes") => OneLess(f) \in [Files -> Nat]
    BY <1>1, InHand, OneLessTypes
<1>3. CASE SettleName(f) \/ SettleBlind(f)
    <2>1. PICK at \in {"settled", "nothing"}, n \in Names : Take(f, at, n)
        BY <1>1, <1>3 DEF SettleName, SettleBlind, FirstFree
    <2>2. pc = "files" /\ UNCHANGED <<job, rows, disks, pc, plan, left, outcome, abort, past>>
        BY <1>3 DEF SettleName, SettleBlind
    <2>3. TaskTypes'
        BY <1>1, <2>1, <2>2, TakeTypes
    <2>4. used' \in [Counters -> Nat]
        BY <1>3, Spent DEF SettleName, SettleBlind, TypeOK, Counters
    <2>5. RowTypes' /\ DiskTypes'
        BY <2>2 DEF TypeOK, RowTypes, DiskTypes, rows, disks, past
    <2>6. QED
        BY <2>3, <2>4, <2>5, TypePartsPrimed
<1>4. CASE MarkSkipped(f)
    <2>1. /\ status' \in [Items -> {"PENDING", "FAILED"} \cup Settled]
          /\ left' \subseteq Items /\ hand' = Idle
          /\ UNCHANGED <<job, final, disks, pc, plan, outcome, abort, past, used>>
        BY <1>4 DEF MarkSkipped, TypeOK, Settled
    <2>2. TaskTypes'
        BY <2>1, FreeTypes
    <2>3. RowTypes' /\ DiskTypes' /\ used' \in [Counters -> Nat]
        BY <2>1 DEF TypeOK, RowTypes, DiskTypes, disks, past
    <2>4. QED
        BY <2>2, <2>3, TypePartsPrimed
<1>5. CASE Open(f)
    <2>1. /\ hand.item = f /\ Take(f, "bytes", hand.name) /\ parts' = [parts EXCEPT ![f] = @ + 1]
          /\ UNCHANGED <<job, rows, src, made, dst, pc, plan, left, outcome, abort, past, used>>
        BY <1>5 DEF Open, Has
    <2>2. TaskTypes'
        BY <1>1, <1>2, <2>1, TakeTypes
    <2>3. RowTypes' /\ DiskTypes' /\ used' \in [Counters -> Nat]
        BY <2>1 DEF TypeOK, RowTypes, DiskTypes, rows, past
    <2>4. QED
        BY <2>2, <2>3, TypePartsPrimed
<1>6. CASE Land(f)
    <2>1. /\ hand.item = f /\ Take(f, "landed", hand.name)
          /\ UNCHANGED <<job, rows, src, made, pc, plan, left, outcome, abort, past, used>>
          /\ parts' \in [Files -> Nat] /\ dst' = [dst EXCEPT ![f][hand.name] = "copy"]
        BY <1>2, <1>6 DEF Land, Has, OneLess
    <2>2. TaskTypes'
        BY <1>1, <1>2, <2>1, TakeTypes
    <2>3. dst' \in [Files -> [Names -> {"none", "copy", "other"}]]
        BY <1>2, <2>1 DEF TypeOK
    <2>4. RowTypes' /\ DiskTypes' /\ used' \in [Counters -> Nat]
        BY <2>1, <2>3 DEF TypeOK, RowTypes, DiskTypes, rows, past
    <2>5. QED
        BY <2>2, <2>4, TypePartsPrimed
<1>7. CASE CopyThrows(f) \/ CopyFails(f)
    <2>1. /\ Fails(f) /\ hand.item = f /\ Discard(f)
          /\ UNCHANGED <<job, rows, src, made, dst, plan, left, abort, late, lost>>
        BY <1>7 DEF CopyThrows, CopyFails, Fails
    <2>0. parts' \in [Files -> Nat] /\ strays' \in [Files -> Nat]
        BY <1>2, <2>1 DEF Discard, Has, OneLess, TypeOK
    <2>2. used' \in [Counters -> Nat]
        BY <2>1, Spent DEF Fails, TypeOK, Counters
    <2>3. TaskTypes'
        <3>1. CASE CopyThrows(f)
            BY <2>1, <3>1, ThrowTypes DEF CopyThrows
        <3>2. CASE CopyFails(f)
            BY <1>1, <1>2, <2>1, <3>2, TakeTypes DEF CopyFails
        <3>3. QED
            BY <1>7, <3>1, <3>2
    <2>4. RowTypes' /\ DiskTypes'
        BY <2>0, <2>1 DEF TypeOK, RowTypes, DiskTypes, rows
    <2>5. QED
        BY <2>2, <2>3, <2>4, TypePartsPrimed
<1>8. CASE Verify(f)
    <2>1. PICK at \in {"verified", "broken"} : Take(f, at, 1)
        BY <1>8 DEF Verify
    <2>2. TaskTypes'
        BY <1>1, <1>8, <2>1, TakeTypes DEF Verify, NextUp
    <2>3. RowTypes' /\ DiskTypes' /\ used' \in [Counters -> Nat]
        BY <1>8 DEF Verify, TypeOK, RowTypes, DiskTypes, rows, disks, past
    <2>4. QED
        BY <2>2, <2>3, TypePartsPrimed
<1>9. CASE Unlink(f)
    <2>1. src' \subseteq Items /\ left' \subseteq Items /\ hand' = Idle
        BY <1>9 DEF Unlink, TypeOK
    <2>2. TaskTypes'
        BY <1>9, <2>1, FreeTypes DEF Unlink
    <2>3. RowTypes' /\ DiskTypes' /\ used' \in [Counters -> Nat]
        BY <1>9, <2>1 DEF Unlink, TypeOK, RowTypes, DiskTypes, rows, past
    <2>4. QED
        BY <2>2, <2>3, TypePartsPrimed
<1>10. QED
    BY <1>3, <1>4, <1>5, <1>6, <1>7, <1>8, <1>9 DEF File

LEMMA MarkTypes ==
    ASSUME TypeOK, NEW i \in Items, Mark(i)
    PROVE  TypeOK'
<1>1. 1 \in Names /\ "broken" \in Places
    BY RunAssumption DEF Names, Places
<1>2. hand.item = i => pc \notin {"off", "end"} /\ hand.name \in Names
    BY InHand
<1>3. CASE MarkDone(i)
    <2>1. /\ status' = [status EXCEPT ![i] = "DONE"] /\ hand' = Idle /\ left' = left \ {i}
          /\ final' = IF i \in Files THEN [final EXCEPT ![i] = hand.name] ELSE final
          /\ UNCHANGED <<job, disks, pc, plan, outcome, abort, past, used>> /\ hand.item = i
        BY <1>3 DEF MarkDone, Has
    <2>2. TaskTypes'
        BY <2>1, FreeTypes DEF TypeOK
    <2>3. final' \in [Files -> Names]
        BY <1>2, <2>1 DEF TypeOK
    <2>4. RowTypes' /\ DiskTypes' /\ used' \in [Counters -> Nat]
        BY <2>1, <2>3 DEF TypeOK, RowTypes, DiskTypes, disks, past, Settled
    <2>5. QED
        BY <2>2, <2>4, TypePartsPrimed
<1>4. CASE MarkFailed(i)
    <2>1. /\ status' \in [Items -> {"PENDING", "FAILED"} \cup Settled]
          /\ left' \subseteq Items /\ hand' = Idle
          /\ UNCHANGED <<job, final, disks, pc, plan, outcome, abort, past, used>>
        BY <1>4 DEF MarkFailed, TypeOK, Settled
    <2>2. TaskTypes'
        BY <2>1, FreeTypes
    <2>3. RowTypes' /\ DiskTypes' /\ used' \in [Counters -> Nat]
        BY <2>1 DEF TypeOK, RowTypes, DiskTypes, disks, past
    <2>4. QED
        BY <2>2, <2>3, TypePartsPrimed
<1>5. CASE RemoveFails(i)
    <2>1. pc \notin {"off", "end"}
        BY <1>2, <1>5 DEF RemoveFails, NextUp, Has
    <2>2. TaskTypes'
        BY <1>1, <1>5, <2>1, TakeTypes DEF RemoveFails
    <2>3. used' \in [Counters -> Nat]
        BY <1>5, Spent DEF RemoveFails, TypeOK, Counters
    <2>4. RowTypes' /\ DiskTypes'
        BY <1>5 DEF RemoveFails, TypeOK, RowTypes, DiskTypes, rows, disks, past
    <2>5. QED
        BY <2>2, <2>3, <2>4, TypePartsPrimed
<1>6. QED
    BY <1>3, <1>4, <1>5 DEF Mark

\* A phase that begins or ends with nothing in hand.
LEMMA PhaseTask ==
    ASSUME TypeOK, hand = Idle, UNCHANGED <<hand, abort>>,
           pc' \in {"off", "mounts", "tops", "dirs", "files", "stamps", "sources", "end"},
           plan' \subseteq Items, left' \subseteq Items, outcome' \in {"RUNNING"} \cup Terminal
    PROVE  TaskTypes'
BY IdleHand DEF TypeOK, TaskTypes

\* Between runs, and once a run has nothing left to do, nothing is in hand.
LEMMA AtRest ==
    ASSUME TypeOK, pc \in {"off", "end"}
    PROVE  hand = Idle
BY DEF TypeOK

LEMMA PhaseTypes ==
    ASSUME TypeOK, Phase
    PROVE  TypeOK'
<1>1. CASE Load
    <2>1. TaskTypes'
        BY <1>1, AtRest, PhaseTask DEF Load, Terminal
    <2>2. RowTypes' /\ DiskTypes' /\ used' \in [Counters -> Nat]
        BY <1>1 DEF Load, TypeOK, RowTypes, DiskTypes, rows, disks, past
    <2>3. QED
        BY <2>1, <2>2, TypePartsPrimed
<1>2. CASE Refused \/ RowFails \/ Cancelled
    <2>1. /\ Throw /\ UNCHANGED <<job, rows, disks, plan, left, abort, past>>
          /\ (UNCHANGED used \/ Spend("faults", MaxFaults))
        BY <1>2 DEF Refused, RowFails, Cancelled
    <2>2. used' \in [Counters -> Nat]
        BY <2>1, Spent DEF TypeOK, Counters
    <2>3. TaskTypes'
        BY <2>1, ThrowTypes
    <2>4. RowTypes' /\ DiskTypes'
        BY <2>1 DEF TypeOK, RowTypes, DiskTypes, rows, disks, past
    <2>5. QED
        BY <2>2, <2>3, <2>4, TypePartsPrimed
<1>3. CASE Mounts
    <2>1. pc' \in {"tops", "dirs"} /\ (UNCHANGED used \/ Spend("faults", MaxFaults))
        BY <1>3 DEF Mounts
    <2>2. hand = Idle /\ UNCHANGED <<job, rows, disks, plan, left, hand, outcome, abort, past>>
        BY <1>3 DEF Mounts
    <2>3. TaskTypes'
        BY <2>1, <2>2, PhaseTask DEF TypeOK
    <2>4. used' \in [Counters -> Nat]
        BY <2>1, Spent DEF TypeOK, Counters
    <2>5. RowTypes' /\ DiskTypes'
        BY <2>2 DEF TypeOK, RowTypes, DiskTypes, rows, disks, past
    <2>6. QED
        BY <2>3, <2>4, <2>5, TypePartsPrimed
<1>4. CASE TopsDone \/ DirsDone \/ FilesDone \/ SourcesDone
    <2>1. /\ pc' \in {"end", "files", "stamps"} /\ hand = Idle
          /\ UNCHANGED <<job, rows, disks, plan, left, hand, outcome, abort, past, used>>
        BY <1>4 DEF TopsDone, DirsDone, FilesDone, SourcesDone
    <2>2. TaskTypes'
        BY <2>1, PhaseTask DEF TypeOK
    <2>3. RowTypes' /\ DiskTypes' /\ used' \in [Counters -> Nat]
        BY <2>1 DEF TypeOK, RowTypes, DiskTypes, rows, disks, past
    <2>4. QED
        BY <2>2, <2>3, TypePartsPrimed
<1>5. CASE Stamped
    <2>1. /\ pc' \in {"end", "sources"} /\ hand = Idle /\ left' \subseteq Items
          /\ UNCHANGED <<job, rows, disks, plan, hand, outcome, abort, past, used>>
        BY <1>5 DEF Stamped
    <2>2. TaskTypes'
        BY <2>1, PhaseTask DEF TypeOK
    <2>3. RowTypes' /\ DiskTypes' /\ used' \in [Counters -> Nat]
        BY <2>1 DEF TypeOK, RowTypes, DiskTypes, rows, disks, past
    <2>4. QED
        BY <2>2, <2>3, TypePartsPrimed
<1>6. CASE End
    <2>1. hand' = Idle
        BY <1>6, AtRest DEF End
    <2>2. TaskTypes'
        BY <1>6, <2>1, IdleHand DEF End, TaskTypes
    <2>3. job' \in {"QUEUED", "RUNNING"} \cup Terminal
        BY <1>6 DEF End, TypeOK, Terminal
    <2>4. RowTypes' /\ DiskTypes' /\ used' \in [Counters -> Nat]
        BY <1>6, <2>3 DEF End, TypeOK, RowTypes, DiskTypes, rows, disks, past
    <2>5. QED
        BY <2>2, <2>4, TypePartsPrimed
<1>7. QED
    BY <1>1, <1>2, <1>3, <1>4, <1>5, <1>6 DEF Phase

LEMMA WorldTypes ==
    ASSUME TypeOK, World
    PROVE  TypeOK'
<1>1. CASE Abort
    <2>1. TaskTypes'
        BY <1>1 DEF Abort, TypeOK, TaskTypes, task, Hands
    <2>2. used' \in [Counters -> Nat]
        BY <1>1, Spent DEF Abort, TypeOK, Counters
    <2>3. RowTypes' /\ DiskTypes'
        BY <1>1 DEF Abort, TypeOK, RowTypes, DiskTypes, rows, disks, past
    <2>4. QED
        BY <2>1, <2>2, <2>3, TypePartsPrimed
<1>2. CASE Crash
    <2>1. TaskTypes'
        BY <1>2, IdleHand DEF Crash, TaskTypes
    <2>2. used' \in [Counters -> Nat]
        BY <1>2, Spent DEF Crash, TypeOK, Counters
    <2>3. RowTypes' /\ DiskTypes'
        BY <1>2 DEF Crash, TypeOK, RowTypes, DiskTypes, rows, disks, past
    <2>4. QED
        BY <2>1, <2>2, <2>3, TypePartsPrimed
<1>3. CASE Retry
    <2>1. TaskTypes'
        BY <1>3 DEF Retry, TypeOK, TaskTypes, task, Hands
    <2>2. used' \in [Counters -> Nat]
        BY <1>3, Spent DEF Retry, TypeOK, Counters
    <2>3. RowTypes' /\ DiskTypes'
        BY <1>3 DEF Retry, TypeOK, RowTypes, DiskTypes, disks, past
    <2>4. QED
        BY <2>1, <2>2, <2>3, TypePartsPrimed
<1>4. CASE \E f \in Files : Vanish(f) \/ \E n \in Names : Meddle(f, n)
    <2>1. TaskTypes'
        BY <1>4 DEF Vanish, Meddle, TypeOK, TaskTypes, task, Hands
    <2>2. used' \in [Counters -> Nat]
        BY <1>4, Spent DEF Vanish, Meddle, TypeOK, Counters
    <2>3. src' \subseteq Items /\ late' \subseteq Files /\ lost' \subseteq Files
        BY <1>4 DEF Vanish, Meddle, TypeOK
    <2>4. dst' \in [Files -> [Names -> {"none", "copy", "other"}]]
        <3>1. dst \in [Files -> [Names -> {"none", "copy", "other"}]]
            BY DEF TypeOK
        <3>2. CASE dst' = dst
            BY <3>1, <3>2
        <3>3. ASSUME NEW f \in Files, NEW n \in Names, dst' = [dst EXCEPT ![f][n] = "other"]
              PROVE  dst' \in [Files -> [Names -> {"none", "copy", "other"}]]
            BY <3>1, <3>3
        <3>4. QED
            BY <1>4, <3>2, <3>3 DEF Vanish, Meddle
    <2>5. DiskTypes'
        <3>1. UNCHANGED <<made, parts, strays>>
            BY <1>4 DEF Vanish, Meddle
        <3>2. QED
            BY <2>3, <2>4, <3>1 DEF TypeOK, DiskTypes
    <2>6. RowTypes'
        BY <1>4 DEF Vanish, Meddle, TypeOK, RowTypes, rows
    <2>7. QED
        BY <2>1, <2>2, <2>5, <2>6, TypePartsPrimed
<1>5. QED
    BY <1>1, <1>2, <1>3, <1>4 DEF World

-----------------------------------------------------------------------------
(* Where a run is with its item, and what it has left.                     *)

\* Where a run may be with an item in hand.
AtWork ==
    \/ pc = "tops" /\ hand.at \in {"moved", "refused"}
    \/ pc = "dirs" /\ hand.at \in {"landed", "broken"} /\ hand.item \in left
    \/ /\ pc = "files" /\ hand.item \in left
       /\ hand.at \in {"nothing", "settled", "bytes", "landed", "broken"}
    \/ pc = "sources" /\ hand.at \in {"verified", "broken"}

\* What a run has left to rename or to copy is not settled.
OpenLeft ==
    pc \in {"mounts", "tops", "dirs", "files"} => \A i \in left : status[i] \notin Settled

WorkInv == (hand.item = NoItem \/ AtWork) /\ OpenLeft

\* A settled row changes only while sources are removed.
SettledKept == \A i \in Items : status[i] \in Settled /\ status'[i] # status[i] => pc = "sources"

\* An item is taken in hand.
LEMMA TakeWork ==
    ASSUME WorkInv, UNCHANGED <<pc, left, status>>, AtWork'
    PROVE  WorkInv' /\ SettledKept
BY DEF WorkInv, OpenLeft, SettledKept

\* The row of an item that was left is written, and the item left no longer.
LEMMA MarkWork ==
    ASSUME TypeOK, WorkInv, NEW i \in Items, NEW s, status' = [status EXCEPT ![i] = s],
           left' = left \ {i}, pc' = pc, hand' = Idle \/ (pc = "tops" /\ hand' = hand),
           (i \in left /\ pc \in {"tops", "dirs", "files"}) \/ pc = "sources"
    PROVE  WorkInv' /\ SettledKept
<1>1. \A j \in Items \ {i} : status'[j] = status[j]
    BY DEF TypeOK
<1>2. hand'.item = NoItem \/ AtWork'
    BY IdleHand DEF WorkInv, AtWork
<1>3. OpenLeft'
    BY <1>1 DEF WorkInv, OpenLeft, TypeOK
<1>4. SettledKept
    BY <1>1 DEF WorkInv, OpenLeft, SettledKept
<1>5. QED
    BY <1>2, <1>3, <1>4 DEF WorkInv

\* A phase begins or ends with nothing in hand and nothing settled to do.
LEMMA PhaseWork ==
    ASSUME hand' = Idle, UNCHANGED status, OpenLeft'
    PROVE  WorkInv' /\ SettledKept
BY IdleHand DEF WorkInv, SettledKept

LEMMA RenameWork ==
    ASSUME TypeOK, WorkInv, NEW i \in Items, Rename(i)
    PROVE  WorkInv' /\ SettledKept
<1>1. CASE RenameTop(i)
    BY <1>1, TakeWork DEF RenameTop, Take, AtWork, rows
<1>2. CASE RefuseTop(i)
    BY <1>2, TakeWork DEF RefuseTop, Take, AtWork, rows
<1>3. CASE MarkTop(i)
    <2>1. /\ pc = "tops" /\ i \in left /\ left' = left \ {i} /\ pc' = pc
          /\ hand' = Idle \/ hand' = hand
        BY <1>3 DEF MarkTop
    <2>2. PICK s : status' = [status EXCEPT ![i] = s]
        BY <1>3 DEF MarkTop
    <2>3. QED
        BY <2>1, <2>2, MarkWork
<1>4. QED
    BY <1>1, <1>2, <1>3 DEF Rename

LEMMA FolderWork ==
    ASSUME TypeOK, WorkInv, NEW d \in Dirs, Folder(d)
    PROVE  WorkInv' /\ SettledKept
<1>1. CASE MakeDir(d)
    BY <1>1, TakeWork DEF MakeDir, Take, AtWork, rows
<1>2. CASE MakeDirFails(d)
    <2>1. /\ Take(d, "broken", 1) /\ UNCHANGED <<status, pc, left>>
          /\ (pc = "dirs" /\ d \in left) \/ Has(d, "landed")
        BY <1>2 DEF MakeDirFails, rows
    <2>2. (pc = "dirs" \/ pc = "files") /\ d \in left
        BY <2>1, RunAssumption DEF WorkInv, AtWork, Has
    <2>3. AtWork'
        BY <2>1, <2>2 DEF Take, AtWork
    <2>4. QED
        BY <2>1, <2>3, TakeWork
<1>3. CASE RemoveDir(d)
    BY <1>3, PhaseWork DEF RemoveDir, NextUp, OpenLeft, rows
<1>4. QED
    BY <1>1, <1>2, <1>3 DEF Folder

LEMMA FileWork ==
    ASSUME TypeOK, WorkInv, NEW f \in Files, File(f)
    PROVE  WorkInv' /\ SettledKept
<1>1. f \in Items /\ f # NoItem
    BY RunAssumption DEF Files
<1>2. hand.item = f => AtWork
    BY <1>1 DEF WorkInv
<1>3. CASE SettleName(f) \/ SettleBlind(f)
    BY <1>3, TakeWork DEF SettleName, SettleBlind, Take, AtWork, rows
<1>4. CASE MarkSkipped(f)
    BY <1>1, <1>2, <1>4, MarkWork DEF MarkSkipped, Has, AtWork
<1>5. CASE Open(f) \/ Land(f)
    BY <1>2, <1>5, TakeWork DEF Open, Land, Has, Take, AtWork, rows
<1>6. CASE CopyThrows(f)
    BY <1>6, PhaseWork DEF CopyThrows, Throw, OpenLeft, rows
<1>7. CASE CopyFails(f)
    <2>1. /\ hand.item = f /\ hand.at \in {"nothing", "settled", "bytes", "landed"}
          /\ Take(f, "broken", 1) /\ UNCHANGED <<status, pc, left>>
        BY <1>7 DEF CopyFails, Fails, rows
    <2>2. AtWork'
        BY <1>2, <2>1 DEF Take, AtWork
    <2>3. QED
        BY <2>1, <2>2, TakeWork
<1>8. CASE Verify(f)
    BY <1>8, TakeWork DEF Verify, NextUp, Take, AtWork, rows, Has
<1>9. CASE Unlink(f)
    BY <1>2, <1>9, PhaseWork DEF Unlink, Has, AtWork, OpenLeft, rows
<1>10. QED
    BY <1>3, <1>4, <1>5, <1>6, <1>7, <1>8, <1>9 DEF File

LEMMA ItemWork ==
    ASSUME TypeOK, WorkInv, NEW i \in Items, Mark(i)
    PROVE  WorkInv' /\ SettledKept
<1>1. hand.item = i => AtWork
    BY RunAssumption DEF WorkInv
<1>2. CASE MarkDone(i)
    BY <1>1, <1>2, MarkWork DEF MarkDone, Has, AtWork
<1>3. CASE MarkFailed(i)
    BY <1>1, <1>3, MarkWork DEF MarkFailed, Has, AtWork
<1>4. CASE RemoveFails(i)
    BY <1>1, <1>4, TakeWork DEF RemoveFails, NextUp, Has, Take, AtWork, rows
<1>5. QED
    BY <1>2, <1>3, <1>4 DEF Mark

LEMMA PhasesWork ==
    ASSUME TypeOK, WorkInv, Phase
    PROVE  WorkInv' /\ SettledKept
<1>1. CASE Load
    BY <1>1, AtRest, PhaseWork DEF Load, OpenLeft, rows
<1>2. CASE Refused \/ RowFails \/ Cancelled
    BY <1>2, PhaseWork DEF Refused, RowFails, Cancelled, Throw, OpenLeft, rows
<1>3. CASE Mounts
    <2>1. hand' = Idle /\ UNCHANGED <<status, left>> /\ pc = "mounts"
        BY <1>3 DEF Mounts, rows
    <2>2. OpenLeft'
        BY <2>1 DEF WorkInv, OpenLeft
    <2>3. QED
        BY <2>1, <2>2, PhaseWork
<1>4. CASE TopsDone \/ FilesDone \/ SourcesDone
    BY <1>4, PhaseWork DEF TopsDone, FilesDone, SourcesDone, OpenLeft, rows
<1>5. CASE DirsDone
    BY <1>5, PhaseWork DEF DirsDone, WorkInv, OpenLeft, rows
<1>6. CASE Stamped
    BY <1>6, PhaseWork DEF Stamped, OpenLeft, rows
<1>7. CASE End
    BY <1>7, AtRest, PhaseWork DEF End, OpenLeft, rows
<1>8. QED
    BY <1>1, <1>2, <1>3, <1>4, <1>5, <1>6, <1>7 DEF Phase

LEMMA WorldWork ==
    ASSUME TypeOK, WorkInv, World
    PROVE  WorkInv' /\ SettledKept
<1>1. CASE Abort \/ \E f \in Files : Vanish(f) \/ \E n \in Names : Meddle(f, n)
    <2>1. UNCHANGED <<pc, left, hand, status>>
        BY <1>1 DEF Abort, Vanish, Meddle, task, rows
    <2>2. QED
        BY <2>1 DEF WorkInv, AtWork, OpenLeft, SettledKept
<1>2. CASE Crash
    BY <1>2, PhaseWork DEF Crash, OpenLeft, rows
<1>3. CASE Retry
    <2>1. hand = Idle /\ pc = "off" /\ UNCHANGED <<pc, hand>>
        BY <1>3, AtRest DEF Retry, task
    <2>2. SettledKept
        BY <1>3 DEF Retry, SettledKept, Settled
    <2>3. QED
        BY <2>1, <2>2, IdleHand DEF WorkInv, OpenLeft
<1>4. QED
    BY <1>1, <1>2, <1>3 DEF World

\* A `.part` is written, and taken away again, with its file in hand.
LEMMA CountParts ==
    ASSUME TypeOK, PartsCounted, NEW f \in Files,
           \/ /\ ~Has(f, "bytes") /\ Has(f, "bytes")' /\ UNCHANGED strays
              /\ parts' = [parts EXCEPT ![f] = @ + 1]
           \/ /\ Has(f, "bytes") /\ ~Has(f, "bytes")' /\ UNCHANGED strays
              /\ parts' = OneLess(f)
           \/ /\ Has(f, "bytes") /\ ~Has(f, "bytes")' /\ UNCHANGED parts
              /\ strays' = [strays EXCEPT ![f] = @ + 1],
           \A g \in Files \ {f} : ~Has(g, "bytes") /\ ~Has(g, "bytes")'
    PROVE  PartsCounted'
<1> SUFFICES ASSUME NEW g \in Files PROVE parts'[g] = strays'[g] + Writing(g)'
    BY DEF PartsCounted
<1>1. /\ parts \in [Files -> Nat] /\ strays \in [Files -> Nat]
      /\ parts[g] = strays[g] + Writing(g)
    BY DEF TypeOK, PartsCounted
<1>2. CASE g = f
    BY <1>1, <1>2 DEF Writing, OneLess
<1>3. CASE g # f
    BY <1>1, <1>3 DEF Writing, OneLess
<1>4. QED
    BY <1>2, <1>3

LEMMA StepParts ==
    ASSUME TypeOK, WorkInv, PartsCounted, [Next]_vars
    PROVE  PartsCounted'
<1>1. Idle.at # "bytes" /\ (hand.item = NoItem => hand = Idle)
    BY DEF Idle, TypeOK
<1>2. CASE UNCHANGED <<parts, strays, hand>>
    BY <1>2 DEF PartsCounted, Writing, Has
<1>3. CASE UNCHANGED <<parts, strays>> /\ hand.at # "bytes" /\ hand'.at # "bytes"
    BY <1>3 DEF PartsCounted, Writing, Has
<1>4. CASE Phase
    <2>1. /\ UNCHANGED <<parts, strays>>
          /\ hand' = hand \/ (hand.at # "bytes" /\ hand' = Idle)
        BY <1>1, <1>4
           DEF Phase, Load, Refused, Mounts, TopsDone, DirsDone, FilesDone, Stamped, SourcesDone,
               RowFails, Cancelled, End, Throw, disks, past
    <2>2. QED
        BY <1>1, <1>2, <1>3, <2>1
<1>5. ASSUME NEW i \in Items, Rename(i) \/ Mark(i) PROVE PartsCounted'
    <2>1. UNCHANGED <<parts, strays>> /\ hand.at # "bytes"
        BY <1>1, <1>5 DEF Rename, Mark, RenameTop, RefuseTop, MarkTop, MarkDone, MarkFailed,
                          RemoveFails, NextUp, Has, disks, past, WorkInv, AtWork
    <2>2. hand'.at # "bytes"
        BY <1>1, <1>5, <2>1 DEF Rename, Mark, RenameTop, RefuseTop, MarkTop, MarkDone,
                                MarkFailed, RemoveFails, Take
    <2>3. QED
        BY <1>3, <2>1, <2>2
<1>6. ASSUME NEW d \in Dirs, Folder(d) PROVE PartsCounted'
    <2>1. UNCHANGED <<parts, strays>> /\ hand.at # "bytes" /\ hand'.at # "bytes"
        BY <1>1, <1>6 DEF Folder, MakeDir, MakeDirFails, RemoveDir, NextUp, Has, Take, disks, past
    <2>2. QED
        BY <1>3, <2>1
<1>7. ASSUME NEW f \in Files, File(f) PROVE PartsCounted'
    <2>1. CASE SettleName(f) \/ SettleBlind(f) \/ MarkSkipped(f) \/ Verify(f) \/ Unlink(f)
        BY <1>1, <1>3, <2>1 DEF SettleName, SettleBlind, MarkSkipped, Verify, Unlink, NextUp,
                                Has, Take, disks, past
    <2>2. CASE Open(f)
        <3>1. /\ ~Has(f, "bytes") /\ Has(f, "bytes")' /\ UNCHANGED strays
              /\ parts' = [parts EXCEPT ![f] = @ + 1]
              /\ \A g \in Files \ {f} : ~Has(g, "bytes") /\ ~Has(g, "bytes")'
            BY <2>2 DEF Open, Has, Take, past
        <3>2. QED
            BY <3>1, CountParts
    <2>3. CASE Land(f)
        <3>1. /\ Has(f, "bytes") /\ ~Has(f, "bytes")' /\ UNCHANGED strays
              /\ parts' = OneLess(f)
              /\ \A g \in Files \ {f} : ~Has(g, "bytes") /\ ~Has(g, "bytes")'
            BY <2>3 DEF Land, Has, Take, OneLess, past
        <3>2. QED
            BY <3>1, CountParts
    <2>4. CASE CopyThrows(f) \/ CopyFails(f)
        <3>1. hand.item = f /\ Discard(f) /\ hand'.at # "bytes"
            BY <1>1, <2>4 DEF CopyThrows, CopyFails, Fails, Throw, Take
        <3>2. CASE hand.at # "bytes"
            BY <1>3, <3>1, <3>2 DEF Discard
        <3>3. CASE hand.at = "bytes"
            <4>1. /\ Has(f, "bytes") /\ ~Has(f, "bytes")'
                  /\ \A g \in Files \ {f} : ~Has(g, "bytes") /\ ~Has(g, "bytes")'
                BY <3>1, <3>3 DEF Has
            <4>2. \/ parts' = OneLess(f) /\ UNCHANGED strays
                  \/ strays' = [strays EXCEPT ![f] = @ + 1] /\ UNCHANGED parts
                BY <3>1, <3>3 DEF Discard, OneLess
            <4>3. QED
                BY <4>1, <4>2, CountParts
        <3>4. QED
            BY <3>2, <3>3
    <2>5. QED
        BY <1>7, <2>1, <2>2, <2>3, <2>4 DEF File
<1>8. CASE Crash
    <2>1. /\ UNCHANGED parts /\ hand'.at # "bytes"
          /\ strays' = [f \in Files |-> IF Has(f, "bytes") THEN strays[f] + 1 ELSE strays[f]]
        BY <1>1, <1>8 DEF Crash, disks
    <2>2. ASSUME NEW f \in Files PROVE parts'[f] = strays'[f] + Writing(f)'
        <3>1. parts[f] = strays[f] + Writing(f) /\ strays[f] \in Nat
            BY DEF PartsCounted, TypeOK
        <3>2. QED
            BY <2>1, <3>1 DEF Writing, Has
    <2>3. QED
        BY <2>2 DEF PartsCounted
<1>9. CASE Abort \/ Retry \/ (\E f \in Files : Vanish(f) \/ \E n \in Names : Meddle(f, n))
             \/ UNCHANGED vars
    BY <1>2, <1>9 DEF Abort, Retry, Vanish, Meddle, vars, disks, task, past
<1>10. QED
    BY <1>4, <1>5, <1>6, <1>7, <1>8, <1>9 DEF Next, Run, World

\* The three hold together: the type of `parts` needs the count, and the count
\* needs to know where a run is.
RunInv == TypeOK /\ WorkInv /\ PartsCounted

LEMMA StepRun ==
    ASSUME RunInv, [Next]_vars
    PROVE  RunInv' /\ [SettledKept]_status
<1> USE DEF RunInv
<1>1. PartsCounted'
    BY StepParts
<1>2. CASE UNCHANGED vars
    BY <1>1, <1>2 DEF vars, rows, disks, task, past, TypeOK, WorkInv, AtWork, OpenLeft
<1>3. CASE Run
    <2>1. TypeOK'
        BY <1>3, PhaseTypes, RenameTypes, MarkTypes, FolderTypes, FileTypes DEF Run
    <2>2. WorkInv' /\ SettledKept
        BY <1>3, PhasesWork, RenameWork, FolderWork, FileWork, ItemWork DEF Run
    <2>3. QED
        BY <1>1, <2>1, <2>2
<1>4. CASE World
    BY <1>1, <1>4, WorldTypes, WorldWork
<1>5. QED
    BY <1>2, <1>3, <1>4 DEF Next

LEMMA RunAlways == Spec => []RunInv /\ [][SettledKept]_status
<1>1. Init => RunInv
    <2>1. Init => WorkInv
        BY IdleHand DEF Init, WorkInv, OpenLeft
    <2>2. Init => PartsCounted
        BY DEF Init, PartsCounted, Writing, Has, Idle
    <2>3. QED
        BY <2>1, <2>2, InitTypes DEF RunInv
<1>2. RunInv /\ [Next]_vars => RunInv' /\ [SettledKept]_status
    BY StepRun
<1>3. QED
    BY <1>1, <1>2, PTL DEF Spec

\* Every variable of a transfer's run keeps its type, and nothing is in hand
\* once execute() has returned or thrown.
THEOREM RunTypeCorrect == Spec => []TypeOK
BY RunAlways, PTL DEF RunInv

\* Where a run is with its item, and what it has left, in every state.
THEOREM WorkAlways == Spec => []WorkInv
BY RunAlways, PTL DEF RunInv

-----------------------------------------------------------------------------
(* Nothing is lost.                                                        *)

HasCopy(f) == \E n \in Names : dst[f][n] = "copy"

\* What makes NothingLost inductive: a source about to be unlinked has a copy.
VerifiedHasCopy ==
    \A f \in Files : Has(f, "verified") => f \in lost \/ HasCopy(f)

SafeFiles == NothingLost /\ VerifiedHasCopy

\* A step that moves no file, and verifies none, is harmless.
LEMMA Harmless ==
    ASSUME SafeFiles, UNCHANGED <<src, dst, lost>>, hand' = hand \/ hand'.at # "verified"
    PROVE  SafeFiles'
BY DEF SafeFiles, NothingLost, VerifiedHasCopy, HasCopy, Has

\* What is in hand after these steps has not just been verified.
LEMMA NewHand ==
    /\ Idle.at # "verified"
    /\ \A i, n : Take(i, "moved", n) \/ Take(i, "refused", n) \/ Take(i, "landed", n)
                   \/ Take(i, "broken", n) \/ Take(i, "settled", n) \/ Take(i, "nothing", n)
                   \/ Take(i, "bytes", n) => hand'.at # "verified"
BY DEF Idle, Take

LEMMA RenameSafe ==
    ASSUME TypeOK, SafeFiles, NEW i \in Items, Rename(i)
    PROVE  SafeFiles'
<1>1. CASE RenameTop(i)
    <2>1. /\ src' = src \ Under(i) /\ UNCHANGED lost /\ Take(i, "moved", 1)
          /\ dst' = [f \in Files |-> IF f \in Under(i) \cap src
                                     THEN [dst[f] EXCEPT ![1] = "copy"] ELSE dst[f]]
        BY <1>1 DEF RenameTop, past
    <2>2. 1 \in Names
        BY RunAssumption DEF Names
    <2>3. ASSUME NEW f \in Files, f \notin src' PROVE f \in lost' \/ HasCopy(f)'
        <3>1. CASE f \in Under(i) \cap src
            <4>1. dst'[f] = [dst[f] EXCEPT ![1] = "copy"]
                BY <2>1, <3>1
            <4>2. dst[f] \in [Names -> {"none", "copy", "other"}]
                BY DEF TypeOK
            <4>3. dst'[f][1] = "copy"
                BY <2>2, <4>1, <4>2
            <4>4. QED
                BY <2>2, <4>3 DEF HasCopy
        <3>2. CASE f \notin Under(i) \cap src
            <4>1. f \notin src /\ dst'[f] = dst[f]
                BY <2>1, <2>3, <3>2
            <4>2. QED
                BY <2>1, <4>1 DEF SafeFiles, NothingLost, HasCopy
        <3>3. QED
            BY <3>1, <3>2
    <2>4. hand'.at # "verified"
        BY <2>1, NewHand
    <2>5. QED
        BY <2>3, <2>4 DEF SafeFiles, NothingLost, VerifiedHasCopy, HasCopy, Has
<1>2. CASE RefuseTop(i)
    BY <1>2, Harmless, NewHand DEF RefuseTop, disks, past
<1>3. CASE MarkTop(i)
    BY <1>3, Harmless, NewHand DEF MarkTop, disks, past
<1>4. QED
    BY <1>1, <1>2, <1>3 DEF Rename

LEMMA FolderSafe ==
    ASSUME TypeOK, SafeFiles, NEW d \in Dirs, Folder(d)
    PROVE  SafeFiles'
<1>1. CASE MakeDir(d) \/ MakeDirFails(d)
    BY <1>1, Harmless, NewHand DEF MakeDir, MakeDirFails, disks, past
<1>2. CASE RemoveDir(d)
    <2>1. src' = src \ {d} /\ UNCHANGED <<dst, lost, hand>>
        BY <1>2 DEF RemoveDir, past
    <2>2. QED
        BY <2>1 DEF SafeFiles, NothingLost, VerifiedHasCopy, HasCopy, Has, Files
<1>3. QED
    BY <1>1, <1>2 DEF Folder

LEMMA FileSafe ==
    ASSUME TypeOK, SafeFiles, NEW f \in Files, File(f)
    PROVE  SafeFiles'
<1>1. f \in Items /\ (hand.item = f => hand.name \in Names)
    BY InHand DEF Files
<1>2. CASE SettleName(f) \/ SettleBlind(f) \/ MarkSkipped(f) \/ Open(f)
    BY <1>2, Harmless, NewHand DEF SettleName, SettleBlind, MarkSkipped, Open, disks, past
<1>3. CASE CopyThrows(f) \/ CopyFails(f)
    BY <1>3, Harmless, NewHand DEF CopyThrows, CopyFails, Throw, past
<1>4. CASE Land(f)
    <2>1. /\ dst' = [dst EXCEPT ![f][hand.name] = "copy"] /\ UNCHANGED <<src, lost>>
          /\ hand.name \in Names /\ hand'.at # "verified"
        BY <1>1, <1>4, NewHand DEF Land, Has, past
    <2>2. \A g \in Files : HasCopy(g) => HasCopy(g)'
        BY <2>1 DEF HasCopy, TypeOK
    <2>3. QED
        BY <2>1, <2>2 DEF SafeFiles, NothingLost, VerifiedHasCopy, HasCopy, Has
<1>5. CASE Verify(f)
    <2>1. /\ UNCHANGED <<src, dst, lost>>
          /\ Take(f, IF dst[f][final[f]] = "copy" THEN "verified" ELSE "broken", 1)
        BY <1>5 DEF Verify, disks, past
    <2>2. CASE dst[f][final[f]] = "copy"
        <3>1. HasCopy(f)
            BY <2>2 DEF HasCopy, TypeOK
        <3>2. hand'.item = f
            BY <2>1 DEF Take
        <3>3. QED
            BY <2>1, <3>1, <3>2 DEF SafeFiles, NothingLost, VerifiedHasCopy, HasCopy, Has
    <2>3. CASE dst[f][final[f]] # "copy"
        BY <2>1, <2>3, Harmless, NewHand
    <2>4. QED
        BY <2>2, <2>3
<1>6. CASE Unlink(f)
    <2>1. src' = src \ {f} /\ UNCHANGED <<dst, lost>> /\ hand' = Idle /\ Has(f, "verified")
        BY <1>6 DEF Unlink, past
    <2>2. f \in lost \/ HasCopy(f)
        BY <2>1 DEF SafeFiles, VerifiedHasCopy
    <2>3. hand'.at # "verified"
        BY <2>1, NewHand
    <2>4. QED
        BY <2>1, <2>2, <2>3 DEF SafeFiles, NothingLost, VerifiedHasCopy, HasCopy, Has
<1>7. QED
    BY <1>2, <1>3, <1>4, <1>5, <1>6 DEF File

LEMMA OtherSafe ==
    ASSUME TypeOK, SafeFiles, Phase \/ (\E i \in Items : Mark(i)) \/ Abort \/ Crash \/ Retry
    PROVE  SafeFiles'
<1>1. CASE Phase
    <2>1. UNCHANGED <<src, dst, lost>>
        BY <1>1 DEF Phase, Load, Refused, Mounts, TopsDone, DirsDone, FilesDone, Stamped,
                    SourcesDone, RowFails, Cancelled, End, disks, past
    <2>2. hand' \in {hand, Idle}
        BY <1>1 DEF Phase, Load, Refused, Mounts, TopsDone, DirsDone, FilesDone, Stamped,
                    SourcesDone, RowFails, Cancelled, End, Throw
    <2>3. QED
        BY <2>1, <2>2, Harmless, NewHand
<1>2. CASE \E i \in Items : Mark(i)
    BY <1>2, Harmless, NewHand DEF Mark, MarkDone, MarkFailed, RemoveFails, disks, past
<1>3. CASE Abort \/ Crash \/ Retry
    BY <1>3, Harmless, NewHand DEF Abort, Crash, Retry, disks, task, past
<1>4. QED
    BY <1>1, <1>2, <1>3

LEMMA MeddleSafe ==
    ASSUME TypeOK, SafeFiles, NEW f \in Files, Vanish(f) \/ \E n \in Names : Meddle(f, n)
    PROVE  SafeFiles'
<1>1. CASE Vanish(f)
    <2>1. /\ src' = src \ {f} /\ UNCHANGED <<dst, hand>>
          /\ lost \subseteq lost' /\ (f \in lost' \/ HasCopy(f))
        BY <1>1 DEF Vanish, task, HasCopy
    <2>2. QED
        BY <2>1 DEF SafeFiles, NothingLost, VerifiedHasCopy, HasCopy, Has
<1>2. ASSUME NEW n \in Names, Meddle(f, n) PROVE SafeFiles'
    <2>1. /\ dst' = [dst EXCEPT ![f][n] = "other"] /\ UNCHANGED <<src, hand>>
          /\ lost \subseteq lost'
        BY <1>2 DEF Meddle, task
    <2>2. \A g \in Files \ {f} : dst'[g] = dst[g]
        BY <2>1 DEF TypeOK
    <2>3. HasCopy(f) /\ ~HasCopy(f)' /\ (f \notin src \/ Has(f, "verified")) => f \in lost'
        <3>1. \A m \in Names \ {n} : dst'[f][m] = dst[f][m]
            BY <2>1 DEF TypeOK
        <3>2. HasCopy(f) /\ ~HasCopy(f)'
                => dst[f][n] = "copy" /\ \A m \in Names \ {n} : dst[f][m] # "copy"
            BY <3>1 DEF HasCopy
        <3>3. QED
            BY <1>2, <3>2 DEF Meddle
    <2>4. QED
        BY <2>1, <2>2, <2>3 DEF SafeFiles, NothingLost, VerifiedHasCopy, HasCopy, Has
<1>3. QED
    BY <1>1, <1>2

\* The invariant holds in every state.
LEMMA SafeAlways == Spec => []SafeFiles
<1>1. Init => SafeFiles
    BY DEF Init, SafeFiles, NothingLost, VerifiedHasCopy, Has, Idle, Files
<1>2. TypeOK /\ SafeFiles /\ [Next]_vars => SafeFiles'
    <2> SUFFICES ASSUME TypeOK, SafeFiles, [Next]_vars PROVE SafeFiles'
        OBVIOUS
    <2>1. CASE UNCHANGED vars
        BY <2>1, Harmless DEF vars, disks, task, past
    <2>2. CASE Run
        BY <2>2, OtherSafe, RenameSafe, FolderSafe, FileSafe DEF Run
    <2>3. CASE World
        BY <2>3, OtherSafe, MeddleSafe DEF World
    <2>4. QED
        BY <2>1, <2>2, <2>3 DEF Next
<1>3. QED
    BY <1>1, <1>2, RunTypeCorrect, PTL DEF Spec

\* "A move never deletes before the destination is verified": for any tree and
\* any number of crashes, retries, failing calls and meddlers, a file is at
\* its source or at its destination unless somebody else destroyed it.
THEOREM NothingLostAlways == Spec => []NothingLost
<1>1. SafeFiles => NothingLost
    BY DEF SafeFiles
<1>2. QED
    BY <1>1, SafeAlways, PTL
-----------------------------------------------------------------------------
\* The item is the unit of failure: whatever fails, is retried or reclaimed, a
\* DONE or SKIPPED row is written again only by removeSources, which demotes it.
THEOREM SettledStays == Spec => DoneStays
BY RunAlways, PTL DEF DoneStays, SettledKept
-----------------------------------------------------------------------------
(* What was at the destination stays.                                      *)

\* A name a file is about to land under is not somebody else's, unless the
\* answer was to overwrite it or it was taken after the name was settled.
NameIsOurs ==
    \A f \in Files : hand.item = f /\ hand.at \in {"settled", "bytes"} =>
        dst[f][hand.name] # "other" \/ Decision[f] = "OVERWRITE" \/ f \in late

OthersStay ==
    \A f \in Files, n \in Names : dst[f][n] = "other" /\ dst'[f][n] # "other" =>
        \/ Decision[f] = "OVERWRITE" \/ f \in late \/ used.blind > 0
        \/ pc = "tops" /\ Replaces /\ Above[f] = {} /\ n = 1

\* A step that settles no name and writes no file.
LEMMA NoLanding ==
    ASSUME NameIsOurs, UNCHANGED <<dst, late>>,
           hand' = hand \/ hand'.at \notin {"settled", "bytes"}
    PROVE  NameIsOurs' /\ OthersStay
BY DEF NameIsOurs, OthersStay

LEMMA FreeHand ==
    /\ Idle.at \notin {"settled", "bytes"}
    /\ \A i, n : Take(i, "moved", n) \/ Take(i, "refused", n) \/ Take(i, "landed", n)
                   \/ Take(i, "broken", n) \/ Take(i, "verified", n) \/ Take(i, "nothing", n)
                   => hand'.at \notin {"settled", "bytes"}
BY DEF Idle, Take

LEMMA SettleOurs ==
    ASSUME TypeOK, NameIsOurs, NEW f \in Files, SettleName(f)
    PROVE  NameIsOurs' /\ OthersStay
<1>1. UNCHANGED <<dst, late>>
    BY DEF SettleName, disks, past
<1>2. CASE Take(f, "nothing", 1)
    BY <1>1, <1>2, NoLanding, FreeHand
<1>3. ASSUME NEW n \in Names, Take(f, "settled", n), Present(f, n) => Decision[f] = "OVERWRITE"
      PROVE  NameIsOurs' /\ OthersStay
    BY <1>1, <1>3 DEF Take, Present, NameIsOurs, OthersStay
<1>4. 1 \in Names
    BY RunAssumption DEF Names
<1>5. QED
    BY <1>2, <1>3, <1>4 DEF SettleName, FirstFree

LEMMA LandOurs ==
    ASSUME TypeOK, NameIsOurs, NEW f \in Files, Land(f)
    PROVE  NameIsOurs' /\ OthersStay
<1>1. f \in Items /\ hand.item = f /\ hand.at = "bytes"
    BY DEF Land, Has, Files
<1>2. hand.name \in Names
    BY <1>1, InHand
<1>3. /\ dst' = [dst EXCEPT ![f][hand.name] = "copy"] /\ UNCHANGED late
      /\ hand'.at \notin {"settled", "bytes"}
    BY FreeHand DEF Land, past
<1>4. \A g \in Files, n \in Names : g # f \/ n # hand.name => dst'[g][n] = dst[g][n]
    BY <1>3 DEF TypeOK
<1>5. dst[f][hand.name] = "other" => Decision[f] = "OVERWRITE" \/ f \in late
    BY <1>1 DEF NameIsOurs
<1>6. QED
    BY <1>3, <1>4, <1>5 DEF NameIsOurs, OthersStay

LEMMA MeddleOurs ==
    ASSUME TypeOK, NameIsOurs, NEW f \in Files, NEW n \in Names, Meddle(f, n)
    PROVE  NameIsOurs' /\ OthersStay
<1>1. /\ dst' = [dst EXCEPT ![f][n] = "other"] /\ UNCHANGED hand /\ dst[f][n] # "other"
      /\ late \subseteq late'
    BY DEF Meddle, task
<1>2. hand.item = f /\ hand.at \in {"settled", "bytes"} /\ hand.name = n => f \in late'
    BY DEF Meddle
<1>3. \A g \in Files, m \in Names : g # f \/ m # n => dst'[g][m] = dst[g][m]
    BY <1>1 DEF TypeOK
<1>4. hand.item = f => hand.name \in Names
    BY InHand DEF Files
<1>5. OthersStay
    BY <1>1, <1>3 DEF OthersStay
<1>6. ASSUME NEW g \in Files, hand'.item = g, hand'.at \in {"settled", "bytes"}
      PROVE  dst'[g][hand'.name] # "other" \/ Decision[g] = "OVERWRITE" \/ g \in late'
    <2>1. hand.name \in Names
        BY <1>1, <1>6, InHand DEF Files
    <2>2. CASE g = f /\ hand.name = n
        BY <1>1, <1>2, <1>6, <2>2
    <2>3. CASE g # f \/ hand.name # n
        BY <1>1, <1>3, <1>6, <2>1, <2>3 DEF NameIsOurs
    <2>4. QED
        BY <2>2, <2>3
<1>7. QED
    BY <1>5, <1>6 DEF NameIsOurs

\* What moves by rename takes the name of a file only if it is that file's, and
\* only a rename that replaces; what is in a directory is not replaced.
LEMMA RenameOurs ==
    ASSUME TypeOK, NameIsOurs, NEW i \in Items, RenameTop(i)
    PROVE  NameIsOurs' /\ OthersStay
<1>1. /\ pc = "tops" /\ i \in Tops /\ Take(i, "moved", 1)
      /\ dst' = [f \in Files |-> IF f \in Under(i) \cap src
                                 THEN [dst[f] EXCEPT ![1] = "copy"] ELSE dst[f]]
    BY DEF RenameTop
<1>2. NameIsOurs'
    BY <1>1, FreeHand DEF NameIsOurs
<1>3. ASSUME NEW f \in Files, NEW n \in Names, dst[f][n] = "other", dst'[f][n] # "other"
      PROVE  pc = "tops" /\ Replaces /\ Above[f] = {} /\ n = 1
    <2>1. f \in Under(i) /\ n = 1
        BY <1>1, <1>3 DEF TypeOK
    <2>2. CASE i \in Dirs
        BY <1>3, <2>1, <2>2 DEF RenameTop, Present, Files
    <2>3. CASE i \notin Dirs
        <3>1. f = i
            BY <2>1, <2>3, RunAssumption DEF Under, Files
        <3>2. QED
            BY <1>1, <1>3, <2>1, <2>3, <3>1 DEF RenameTop, Present, Tops
    <2>4. QED
        BY <2>2, <2>3
<1>4. QED
    BY <1>2, <1>3 DEF OthersStay

LEMMA StepOurs ==
    ASSUME used'.blind = used.blind, TypeOK, NameIsOurs, Next
    PROVE  NameIsOurs' /\ OthersStay
<1>1. CASE Phase
    <2>1. UNCHANGED <<dst, late>>
        BY <1>1 DEF Phase, Load, Refused, Mounts, TopsDone, DirsDone, FilesDone, Stamped,
                    SourcesDone, RowFails, Cancelled, End, disks, past
    <2>2. hand' \in {hand, Idle}
        BY <1>1 DEF Phase, Load, Refused, Mounts, TopsDone, DirsDone, FilesDone, Stamped,
                    SourcesDone, RowFails, Cancelled, End, Throw
    <2>3. QED
        BY <2>1, <2>2, NoLanding, FreeHand
<1>2. ASSUME NEW i \in Items, Rename(i) \/ Mark(i) PROVE NameIsOurs' /\ OthersStay
    <2>1. CASE Rename(i)
        <3>1. CASE RefuseTop(i) \/ MarkTop(i)
            BY <3>1, NoLanding, FreeHand DEF RefuseTop, MarkTop, disks, past
        <3>2. QED
            BY <2>1, <3>1, RenameOurs DEF Rename
    <2>2. CASE Mark(i)
        BY <2>2, NoLanding, FreeHand DEF Mark, MarkDone, MarkFailed, RemoveFails, disks, past
    <2>3. QED
        BY <1>2, <2>1, <2>2
<1>3. ASSUME NEW d \in Dirs, Folder(d) PROVE NameIsOurs' /\ OthersStay
    BY <1>3, NoLanding, FreeHand DEF Folder, MakeDir, MakeDirFails, RemoveDir, disks, past
<1>4. ASSUME NEW f \in Files, File(f) PROVE NameIsOurs' /\ OthersStay
    <2>1. ~SettleBlind(f)
        BY DEF SettleBlind, Spend, TypeOK, Counters
    <2>2. CASE MarkSkipped(f) \/ Verify(f) \/ Unlink(f)
        BY <2>2, NoLanding, FreeHand DEF MarkSkipped, Verify, Unlink, disks, past
    <2>3. CASE CopyThrows(f) \/ CopyFails(f)
        BY <2>3, NoLanding, FreeHand DEF CopyThrows, CopyFails, Throw, past
    <2>4. CASE Open(f)
        <3>1. /\ hand.item = f /\ hand.at = "settled" /\ UNCHANGED <<dst, late>>
              /\ hand' = [item |-> f, at |-> "bytes", name |-> hand.name]
            BY <2>4 DEF Open, Has, Take, past
        <3>2. QED
            BY <3>1 DEF NameIsOurs, OthersStay
    <2>5. QED
        BY <1>4, <2>1, <2>2, <2>3, <2>4, SettleOurs, LandOurs DEF File
<1>5. CASE World
    <2>1. CASE Abort \/ Crash \/ Retry \/ \E f \in Files : Vanish(f)
        BY <2>1, NoLanding, FreeHand DEF Abort, Crash, Retry, Vanish, disks, task, past
    <2>2. QED
        BY <1>5, <2>1, MeddleOurs DEF World
<1>6. QED
    BY <1>1, <1>2, <1>3, <1>4, <1>5 DEF Next, Run

\* Only a stat that fails counts as one, and it touches nothing.
LEMMA BlindSteps ==
    ASSUME TypeOK, Next
    PROVE  /\ used.blind \in Nat
           /\ used'.blind = used.blind \/ (used'.blind = used.blind + 1 /\ UNCHANGED dst)
<1>1. used \in [Counters -> Nat]
    BY DEF TypeOK
<1>2. CASE Phase
    BY <1>1, <1>2 DEF Phase, Load, Refused, Mounts, TopsDone, DirsDone, FilesDone, Stamped,
                SourcesDone, RowFails, Cancelled, End, past, Spend, Counters
<1>3. ASSUME NEW i \in Items, Rename(i) \/ Mark(i)
      PROVE  used'.blind = used.blind
    BY <1>1, <1>3 DEF Rename, RenameTop, RefuseTop, MarkTop, Mark, MarkDone, MarkFailed,
                RemoveFails, Spend, Counters
<1>4. ASSUME NEW d \in Dirs, Folder(d)
      PROVE  used'.blind = used.blind
    BY <1>1, <1>4 DEF Folder, MakeDir, MakeDirFails, RemoveDir, Spend, Counters
<1>5. ASSUME NEW f \in Files, File(f)
      PROVE  used'.blind = used.blind \/ (used'.blind = used.blind + 1 /\ UNCHANGED dst)
    <2>1. CASE SettleBlind(f)
        BY <1>1, <2>1 DEF SettleBlind, Spend, Counters, disks
    <2>2. CASE CopyThrows(f) \/ CopyFails(f)
        BY <1>1, <2>2 DEF CopyThrows, CopyFails, Fails, Spend, Counters
    <2>3. QED
        BY <1>5, <2>1, <2>2 DEF File, SettleName, MarkSkipped, Open, Land, Verify, Unlink
<1>6. CASE World
    BY <1>1, <1>6 DEF World, Abort, Crash, Retry, Vanish, Meddle, Spend, Counters
<1>7. QED
    BY <1>1, <1>2, <1>3, <1>4, <1>5, <1>6 DEF Next, Run, Counters

OursUnlessBlind == used.blind = 0 => NameIsOurs

LEMMA StepUnlessBlind ==
    ASSUME TypeOK, OursUnlessBlind, Next
    PROVE  OursUnlessBlind' /\ [OthersStay]_dst
<1>1. CASE used.blind > 0
    BY <1>1, BlindSteps DEF OursUnlessBlind, OthersStay
<1>2. CASE used.blind = 0 /\ used'.blind = 0
    BY <1>2, StepOurs DEF OursUnlessBlind
<1>3. CASE used.blind = 0 /\ used'.blind = 1
    BY <1>3, BlindSteps DEF OursUnlessBlind
<1>4. QED
    BY <1>1, <1>2, <1>3, BlindSteps

\* Whatever a run copies or renames, for any answers and any file that appears
\* meanwhile, it replaces only what it was told to, what took a name it had
\* settled, and what a rename that replaces finds under a selected file's name;
\* or what a `stat` that failed hid.
THEOREM RunKeepsOthers == Spec => OthersKept
<1>1. Init => OursUnlessBlind
    BY DEF Init, OursUnlessBlind, NameIsOurs, Idle
<1>2. TypeOK /\ OursUnlessBlind /\ [Next]_vars => OursUnlessBlind' /\ [OthersStay]_dst
    <2>1. UNCHANGED vars /\ OursUnlessBlind => OursUnlessBlind' /\ [OthersStay]_dst
        BY DEF vars, disks, task, past, OursUnlessBlind, NameIsOurs
    <2>2. QED
        BY <2>1, StepUnlessBlind
<1>3. Spec => [][OthersStay]_dst
    BY <1>1, <1>2, RunTypeCorrect, PTL DEF Spec
<1>4. QED
    BY <1>3, PTL DEF OthersKept, OthersStay
-----------------------------------------------------------------------------
(* What DONE says.                                                         *)

\* The steps by which somebody else spoils what a run counts on.
Meddling == \E f \in Files : Vanish(f) \/ \E n \in Names : Meddle(f, n)

Counts(c) == used' = [used EXCEPT ![c] = @ + 1]

\* A bound spent shows in its counter and in no other.
LEMMA Counted ==
    ASSUME TypeOK, NEW c \in Counters, Counts(c)
    PROVE  /\ used'[c] # 0
           /\ \A e \in Counters \ {c} : used'[e] = used[e]
<1>1. used \in [Counters -> Nat]
    BY DEF TypeOK
<1>2. used'[c] = used[c] + 1 /\ used[c] \in Nat
    BY <1>1 DEF Counts
<1>3. \A e \in Counters \ {c} : used'[e] = used[e]
    BY <1>1 DEF Counts
<1>4. QED
    BY <1>2, <1>3

\* Meddling shows in its counter, and no other step touches that.
LEMMA StepCounts ==
    ASSUME TypeOK, [Next]_vars, used'.meddles = 0
    PROVE  used.meddles = 0 /\ ~Meddling
<1>0. Counters = {"faults", "blind", "crashes", "aborts", "retries", "meddles"}
    BY DEF Counters
<1>1. ~Meddling
    <2>1. SUFFICES ASSUME Meddling PROVE FALSE
        OBVIOUS
    <2>2. Counts("meddles")
        BY <2>1 DEF Meddling, Vanish, Meddle, Spend, Counts
    <2>3. QED
        BY <1>0, <2>2, Counted
<1>2. used.meddles = 0
    <2>1. used' = used \/ \E c \in Counters \ {"meddles"} : Counts(c)
        <3>1. CASE Phase
            BY <3>1, <1>0 DEF Phase, Load, Refused, Mounts, TopsDone, DirsDone, FilesDone, Stamped,
                        SourcesDone, RowFails, Cancelled, End, Spend, Counts
        <3>2. CASE \E i \in Items : Rename(i) \/ Mark(i)
            BY <3>2, <1>0 DEF Rename, Mark, RenameTop, RefuseTop, MarkTop, MarkDone, MarkFailed,
                        RemoveFails, Spend, Counts
        <3>3. CASE \E d \in Dirs : Folder(d)
            BY <3>3, <1>0 DEF Folder, MakeDir, MakeDirFails, RemoveDir, Spend, Counts
        <3>4. CASE \E f \in Files : File(f)
            BY <3>4, <1>0 DEF File, SettleName, SettleBlind, MarkSkipped, Open, Land, CopyThrows,
                        CopyFails, Fails, Verify, Unlink, Spend, Counts
        <3>5. CASE Abort \/ Crash \/ Retry
            BY <3>5, <1>0 DEF Abort, Crash, Retry, Spend, Counts
        <3>6. CASE UNCHANGED vars
            BY <3>6 DEF vars
        <3>7. QED
            BY <1>1, <3>1, <3>2, <3>3, <3>4, <3>5, <3>6 DEF Next, Run, World, Meddling
    <2>2. used'.meddles = used.meddles
        BY <1>0, <2>1, Counted
    <2>3. QED
        BY <2>2
<1>3. QED
    BY <1>1, <1>2

\* An entry has its first name unless the answer was to keep both.
FirstNames ==
    \A f \in Files : Decision[f] # "RENAME" =>
        /\ final[f] = 1
        /\ \A n \in Names : dst[f][n] = "copy" => n = 1
        /\ hand.item = f => hand.name = 1

\* Renaming is for entries without an answer, and a move removes the source of
\* what its rows call DONE.
LeftFits ==
    /\ pc = "mounts" => left = plan
    /\ pc = "tops" => \A i \in left : Decision[i] = "ASK"
    /\ pc = "sources" => \A i \in left : status[i] = "DONE"

\* As long as nobody else touches the files: what is DONE, what is in hand as
\* done, and every directory gone from the source are at the destination.
There(i, n) == IF i \in Dirs THEN i \in made ELSE dst[i][n] = "copy"
NameOf(i)   == IF i \in Files THEN final[i] ELSE 1
AllArrived  ==
    used.meddles = 0 =>
        /\ \A i \in Items : status[i] = "DONE" => There(i, NameOf(i))
        /\ hand.at = "landed" => There(hand.item, hand.name)
        /\ hand.at = "moved" => \A i \in left \cap Under(hand.item) : There(i, 1)
        /\ \A d \in Dirs : d \in src \/ d \in made
        /\ lost = {}

\* The hand between items, and the first name.
LEMMA HandFacts ==
    ASSUME TypeOK
    PROVE  /\ 1 \in Names /\ NoItem \notin Items /\ Files \subseteq Items
           /\ (hand.item = NoItem => hand = Idle) /\ (hand = Idle => hand.item = NoItem)
           /\ Idle.item = NoItem /\ Idle.at = "idle" /\ Idle.name = 1
BY RunAssumption, IdleHand DEF TypeOK, Names, Files, Idle

LEMMA StepFirstNames ==
    ASSUME TypeOK, FirstNames, [Next]_vars
    PROVE  FirstNames'
<1> SUFFICES ASSUME NEW f \in Files, Decision[f] # "RENAME"
             PROVE  /\ final'[f] = 1
                    /\ \A n \in Names : dst'[f][n] = "copy" => n = 1
                    /\ hand'.item = f => hand'.name = 1
    BY DEF FirstNames
<1>0. /\ final[f] = 1
      /\ \A n \in Names : dst[f][n] = "copy" => n = 1
      /\ hand.item = f => hand.name = 1
    BY DEF FirstNames
<1>1. dst \in [Files -> [Names -> {"none", "copy", "other"}]] /\ final \in [Files -> Names]
    BY DEF TypeOK
<1>2. CASE UNCHANGED <<final, dst>> /\ (hand' = hand \/ hand'.item = NoItem \/ hand'.name = 1)
    BY <1>0, <1>2, HandFacts
<1>3. Idle.item = NoItem
    BY DEF Idle
<1>4. CASE Phase
    BY <1>2, <1>3, <1>4
       DEF Phase, Load, Refused, Mounts, TopsDone, DirsDone, FilesDone, Stamped, SourcesDone,
           RowFails, Cancelled, End, Throw, rows, disks
<1>5. ASSUME NEW i \in Items, Rename(i) \/ Mark(i)
      PROVE  /\ final'[f] = 1
             /\ \A n \in Names : dst'[f][n] = "copy" => n = 1
             /\ hand'.item = f => hand'.name = 1
    <2>1. CASE RenameTop(i)
        <3>1. /\ dst'[f] = dst[f] \/ dst'[f] = [dst[f] EXCEPT ![1] = "copy"]
              /\ final' = final /\ hand'.name = 1
            BY <2>1 DEF RenameTop, Take, rows
        <3>2. QED
            BY <1>0, <1>1, <3>1
    <2>2. CASE MarkDone(i)
        BY <1>0, <1>1, <1>3, <2>2, HandFacts DEF MarkDone, Has, disks
    <2>3. CASE MarkTop(i)
        BY <1>2, <1>3, <2>3 DEF MarkTop, disks
    <2>4. CASE MarkFailed(i)
        BY <1>2, <1>3, <2>4 DEF MarkFailed, disks
    <2>5. CASE RefuseTop(i) \/ RemoveFails(i)
        BY <1>2, <2>5 DEF RefuseTop, RemoveFails, Take, rows, disks
    <2>6. QED
        BY <1>5, <2>1, <2>2, <2>3, <2>4, <2>5 DEF Rename, Mark
<1>6. CASE \E d \in Dirs : Folder(d)
    BY <1>2, <1>6 DEF Folder, MakeDir, MakeDirFails, RemoveDir, Take, rows, disks
<1>7. ASSUME NEW g \in Files, File(g)
      PROVE  /\ final'[f] = 1
             /\ \A n \in Names : dst'[f][n] = "copy" => n = 1
             /\ hand'.item = f => hand'.name = 1
    <2>1. CASE SettleName(g) \/ SettleBlind(g)
        <3>1. /\ UNCHANGED <<final, dst>>
              /\ hand'.item = g /\ (hand'.name = 1 \/ Decision[g] = "RENAME")
            BY <2>1 DEF SettleName, SettleBlind, Take, rows, disks
        <3>2. QED
            BY <1>0, <3>1
    <2>2. CASE Open(g)
        BY <1>0, <2>2 DEF Open, Has, Take, rows
    <2>3. CASE Land(g)
        <3>1. /\ dst' = [dst EXCEPT ![g][hand.name] = "copy"]
              /\ hand.item = g /\ hand'.item = g /\ hand'.name = hand.name /\ final' = final
            BY <2>3 DEF Land, Has, Take, rows
        <3>2. \A n \in Names : dst'[f][n] = dst[f][n] \/ (g = f /\ n = hand.name)
            BY <1>1, <3>1
        <3>3. QED
            BY <1>0, <3>1, <3>2
    <2>4. CASE Verify(g)
        BY <1>2, <2>4 DEF Verify, Take, rows, disks
    <2>5. QED
        BY <1>2, <1>3, <1>7, <2>1, <2>2, <2>3, <2>4
           DEF File, MarkSkipped, CopyThrows, CopyFails, Unlink, Throw, Take, rows, disks
<1>8. ASSUME NEW g \in Files, NEW n \in Names, Meddle(g, n)
      PROVE  /\ final'[f] = 1
             /\ \A m \in Names : dst'[f][m] = "copy" => m = 1
             /\ hand'.item = f => hand'.name = 1
    <2>1. dst' = [dst EXCEPT ![g][n] = "other"] /\ UNCHANGED <<final, hand>>
        BY <1>8 DEF Meddle, rows, task
    <2>2. \A m \in Names : dst'[f][m] = dst[f][m] \/ dst'[f][m] = "other"
        BY <1>1, <2>1
    <2>3. QED
        BY <1>0, <2>1, <2>2
<1>9. CASE Abort \/ Crash \/ Retry \/ (\E g \in Files : Vanish(g)) \/ UNCHANGED vars
    BY <1>2, <1>3, <1>9 DEF Abort, Crash, Retry, Vanish, vars, rows, disks, task
<1>10. QED
    BY <1>4, <1>5, <1>6, <1>7, <1>8, <1>9 DEF Next, Run, World

LEMMA StepLeftFits ==
    ASSUME TypeOK, WorkInv, LeftFits, [Next]_vars
    PROVE  LeftFits'
<1> USE DEF LeftFits
<1>1. CASE UNCHANGED <<pc, plan, left, status>>
    BY <1>1
<1>2. CASE pc' \in {"off", "end"}
    BY <1>2
<1>3. CASE Phase
    <2>1. CASE Mounts
        BY <2>1 DEF Mounts, rows
    <2>2. QED
        BY <1>1, <1>2, <1>3, <2>1
           DEF Phase, Load, Refused, TopsDone, DirsDone, FilesDone, Stamped, SourcesDone,
               RowFails, Cancelled, End, Throw, rows
<1>4. ASSUME NEW i \in Items, Rename(i) \/ Mark(i)
      PROVE  LeftFits'
    <2>1. CASE MarkTop(i)
        BY <2>1 DEF MarkTop
    <2>2. CASE MarkDone(i) \/ MarkFailed(i)
        <3>1. /\ left' = left \ {i} /\ pc' = pc /\ hand.item = i
              /\ \E s : status' = [status EXCEPT ![i] = s]
            BY <2>2 DEF MarkDone, MarkFailed, Has
        <3>2. \A j \in Items \ {i} : status'[j] = status[j]
            BY <3>1 DEF TypeOK
        <3>3. pc # "mounts"
            BY <3>1, HandFacts DEF WorkInv, AtWork
        <3>4. QED
            BY <3>1, <3>2, <3>3 DEF TypeOK
    <2>3. QED
        BY <1>1, <1>4, <2>1, <2>2 DEF Rename, Mark, RenameTop, RefuseTop, RemoveFails, rows
<1>5. CASE \E d \in Dirs : Folder(d)
    BY <1>1, <1>5 DEF Folder, MakeDir, MakeDirFails, RemoveDir, NextUp, rows
<1>6. ASSUME NEW f \in Files, File(f)
      PROVE  LeftFits'
    <2>1. CASE MarkSkipped(f)
        <3>1. pc = "files" /\ pc' = pc
            BY <2>1, HandFacts DEF MarkSkipped, Has, WorkInv, AtWork
        <3>2. QED
            BY <3>1
    <2>2. CASE Unlink(f)
        BY <2>2, HandFacts DEF Unlink, Has, WorkInv, AtWork, rows
    <2>3. QED
        BY <1>1, <1>2, <1>6, <2>1, <2>2
           DEF File, SettleName, SettleBlind, Open, Land, CopyThrows, CopyFails, Throw, Verify, rows
<1>7. CASE World \/ UNCHANGED vars
    BY <1>1, <1>2, <1>7 DEF World, Abort, Crash, Retry, Vanish, Meddle, vars, rows, task
<1>8. QED
    BY <1>3, <1>4, <1>5, <1>6, <1>7 DEF Next, Run

\* Nothing that has arrived leaves, unless somebody else touches it.
LEMMA ThereStays ==
    ASSUME TypeOK, [Next]_vars, ~Meddling, NEW i \in Items, NEW n \in Names, There(i, n)
    PROVE  There(i, n)'
<1>0. /\ dst \in [Files -> [Names -> {"none", "copy", "other"}]]
      /\ (i \in Dirs \/ i \in Files) /\ 1 \in Names
    BY HandFacts DEF TypeOK, Files
<1>1. CASE UNCHANGED <<made, dst>>
    BY <1>1 DEF There
<1>2. CASE Phase
    BY <1>1, <1>2
       DEF Phase, Load, Refused, Mounts, TopsDone, DirsDone, FilesDone, Stamped, SourcesDone,
           RowFails, Cancelled, End, disks
<1>3. ASSUME NEW j \in Items, Rename(j) \/ Mark(j)
      PROVE  There(i, n)'
    <2>1. CASE RenameTop(j)
        <3>1. made \subseteq made' /\ \A f \in Files : dst'[f] = dst[f] \/ dst'[f] = [dst[f] EXCEPT ![1] = "copy"]
            BY <2>1 DEF RenameTop
        <3>2. QED
            BY <1>0, <3>1 DEF There
    <2>2. QED
        BY <1>1, <1>3, <2>1 DEF Rename, Mark, RefuseTop, MarkTop, MarkDone, MarkFailed,
                                RemoveFails, disks
<1>4. CASE \E d \in Dirs : Folder(d)
    BY <1>4 DEF There, Folder, MakeDir, MakeDirFails, RemoveDir, disks
<1>5. ASSUME NEW f \in Files, File(f)
      PROVE  There(i, n)'
    <2>1. CASE Land(f)
        BY <1>0, <2>1 DEF Land, There
    <2>2. QED
        BY <1>1, <1>5, <2>1 DEF File, SettleName, SettleBlind, MarkSkipped, Open, CopyThrows,
                                CopyFails, Verify, Unlink, disks
<1>6. CASE Abort \/ Crash \/ Retry \/ UNCHANGED vars
    BY <1>1, <1>6 DEF Abort, Crash, Retry, vars, disks
<1>7. QED
    BY <1>2, <1>3, <1>4, <1>5, <1>6 DEF Next, Run, World, Meddling

\* A row that a step neither makes DONE nor moves was DONE, under that name.
LEMMA DoneBefore ==
    ASSUME TypeOK, [Next]_vars, NEW i \in Items, ~MarkDone(i), ~MarkTop(i), status'[i] = "DONE"
    PROVE  status[i] = "DONE" /\ (i \in Files => final'[i] = final[i])
<1>0. /\ status \in [Items -> {"PENDING", "FAILED"} \cup Settled]
      /\ final \in [Files -> Names] /\ Files \subseteq Items
    BY HandFacts DEF TypeOK
<1>1. CASE UNCHANGED <<status, final>>
    BY <1>1
<1>2. CASE Phase
    BY <1>1, <1>2 DEF Phase, Load, Refused, Mounts, TopsDone, DirsDone, FilesDone, Stamped,
                      SourcesDone, RowFails, Cancelled, End, rows
<1>3. ASSUME NEW j \in Items, Rename(j) \/ Mark(j)
      PROVE  status[i] = "DONE" /\ (i \in Files => final'[i] = final[i])
    <2>1. CASE MarkFailed(j)
        <3>1. status' = [status EXCEPT ![j] = "FAILED"] /\ final' = final
            BY <2>1 DEF MarkFailed
        <3>2. QED
            BY <1>0, <3>1
    <2>2. CASE MarkTop(j)
        <3>1. j # i /\ final' = final
            BY <2>2 DEF MarkTop
        <3>2. \/ status' = [status EXCEPT ![j] = "DONE"]
              \/ status' = [status EXCEPT ![j] = "FAILED"]
            BY <2>2 DEF MarkTop
        <3>3. QED
            BY <1>0, <3>1, <3>2
    <2>3. CASE MarkDone(j)
        <3>1. j # i
            BY <2>3
        <3>2. QED
            BY <1>0, <2>3, <3>1 DEF MarkDone
    <2>4. QED
        BY <1>1, <1>3, <2>1, <2>2, <2>3
           DEF Rename, Mark, RenameTop, RefuseTop, RemoveFails, rows
<1>4. CASE \E d \in Dirs : Folder(d)
    BY <1>1, <1>4 DEF Folder, MakeDir, MakeDirFails, RemoveDir, rows
<1>5. ASSUME NEW f \in Files, File(f)
      PROVE  status[i] = "DONE" /\ (i \in Files => final'[i] = final[i])
    <2>1. CASE MarkSkipped(f)
        <3>1. status' = [status EXCEPT ![f] = "SKIPPED"] /\ final' = final
            BY <2>1 DEF MarkSkipped
        <3>2. QED
            BY <1>0, <3>1
    <2>2. QED
        BY <1>1, <1>5, <2>1 DEF File, SettleName, SettleBlind, Open, Land, CopyThrows,
                                CopyFails, Verify, Unlink, rows
<1>6. CASE Retry
    BY <1>0, <1>6 DEF Retry
<1>7. CASE Abort \/ Crash \/ Meddling \/ UNCHANGED vars
    BY <1>1, <1>7 DEF Abort, Crash, Meddling, Vanish, Meddle, vars, rows
<1>8. QED
    BY <1>2, <1>3, <1>4, <1>5, <1>6, <1>7 DEF Next, Run, World, Meddling

\* A row becomes DONE for something that is there.
LEMMA DoneIsThere ==
    ASSUME TypeOK, WorkInv, FirstNames, LeftFits, AllArrived, [Next]_vars, used'.meddles = 0,
           NEW i \in Items, status'[i] = "DONE"
    PROVE  There(i, NameOf(i))'
<1>0. /\ used.meddles = 0 /\ ~Meddling
      /\ status \in [Items -> {"PENDING", "FAILED"} \cup Settled]
      /\ final \in [Files -> Names] /\ hand.name \in Names
    BY StepCounts DEF TypeOK
<1>1. NameOf(i) \in Names
    BY <1>0, HandFacts DEF NameOf
<1>2. CASE status[i] = "DONE" /\ NameOf(i)' = NameOf(i)
    <2>1. There(i, NameOf(i))
        BY <1>0, <1>2 DEF AllArrived
    <2>2. PICK n \in Names : n = NameOf(i)
        BY <1>1
    <2>3. There(i, n)'
        BY <1>0, <2>1, <2>2, ThereStays
    <2>4. QED
        BY <1>2, <2>2, <2>3 DEF There
<1>3. CASE MarkDone(i)
    <2>1. There(i, hand.name)
        BY <1>0, <1>3 DEF MarkDone, Has, AllArrived
    <2>2. PICK n \in Names : n = hand.name
        BY <1>0
    <2>3. There(i, n)'
        BY <1>0, <2>1, <2>2, ThereStays
    <2>4. i \in Files => NameOf(i)' = n
        BY <1>0, <1>3, <2>2 DEF MarkDone, NameOf
    <2>5. QED
        BY <2>3, <2>4, HandFacts DEF There, Files
<1>4. CASE MarkTop(i)
    <2>1. hand.at = "moved" /\ i \in left \cap Under(hand.item) /\ pc = "tops" /\ final' = final
        BY <1>0, <1>4 DEF MarkTop
    <2>2. There(i, 1) /\ Decision[i] = "ASK"
        BY <1>0, <2>1 DEF AllArrived, LeftFits
    <2>3. There(i, 1)'
        BY <1>0, <2>2, HandFacts, ThereStays
    <2>4. NameOf(i)' = 1
        BY <2>1, <2>2 DEF NameOf, FirstNames
    <2>5. QED
        BY <2>3, <2>4 DEF There
<1>5. CASE ~MarkDone(i) /\ ~MarkTop(i)
    BY <1>2, <1>5, DoneBefore DEF NameOf
<1>6. QED
    BY <1>2, <1>3, <1>4, <1>5

\* What a rename of a selected entry leaves in hand has moved with it.
LEMMA MovedTogether ==
    ASSUME TypeOK, SafeFiles, FirstNames, LeftFits, AllArrived, used.meddles = 0,
           NEW t \in Items, RenameTop(t), NEW i \in left \cap Under(t)
    PROVE  There(i, 1)'
<1>0. /\ i \in Items /\ 1 \in Names /\ (i \in Dirs \/ i \in Files)
      /\ dst \in [Files -> [Names -> {"none", "copy", "other"}]]
      /\ lost = {} /\ Decision[i] = "ASK" /\ t \in src
      /\ \A d \in Dirs : d \in src \/ d \in made
    BY HandFacts DEF TypeOK, Files, AllArrived, LeftFits, RenameTop
<1>1. i \in src
    <2>1. CASE i = t
        BY <1>0, <2>1
    <2>2. CASE i # t
        <3>1. t \in Dirs
            BY <1>0, <2>2, RunAssumption DEF Under
        <3>2. i \notin made /\ (i \in Files => dst[i][1] = "none")
            BY <2>2, <3>1 DEF RenameTop, Present
        <3>3. i \in Files => ~HasCopy(i)
            BY <1>0, <3>2 DEF FirstNames, HasCopy
        <3>4. QED
            BY <1>0, <3>2, <3>3 DEF SafeFiles, NothingLost, HasCopy
    <2>3. QED
        BY <2>1, <2>2
<1>2. CASE i \in Dirs
    BY <1>1, <1>2 DEF RenameTop, There
<1>3. CASE i \in Files /\ i \notin Dirs
    <2>1. dst'[i] = [dst[i] EXCEPT ![1] = "copy"]
        BY <1>1, <1>3 DEF RenameTop
    <2>2. QED
        BY <1>0, <1>3, <2>1 DEF There
<1>4. QED
    BY <1>0, <1>2, <1>3 DEF Files

\* What is in hand as landed or as moved is there.
LEMMA HandIsThere ==
    ASSUME TypeOK, WorkInv, SafeFiles, FirstNames, LeftFits, AllArrived, [Next]_vars,
           used'.meddles = 0
    PROVE  /\ hand'.at = "landed" => There(hand.item, hand.name)'
           /\ hand'.at = "moved" => \A i \in left' \cap Under(hand'.item) : There(i, 1)'
<1>0. /\ used.meddles = 0 /\ ~Meddling /\ hand.name \in Names
      /\ left \subseteq Items
      /\ hand.at = "landed" => There(hand.item, hand.name)
      /\ hand.at = "moved" => \A i \in left \cap Under(hand.item) : There(i, 1)
      /\ hand.at \in {"landed", "moved"} => hand.item \in Items
    BY StepCounts, HandFacts DEF TypeOK, AllArrived
<1>1. CASE hand' = hand /\ left' \subseteq left
    <2>1. ASSUME hand.at = "landed" PROVE There(hand.item, hand.name)'
        <3>1. PICK i \in Items, n \in Names : i = hand.item /\ n = hand.name
            BY <1>0, <2>1
        <3>2. There(i, n)'
            BY <1>0, <2>1, <3>1, ThereStays
        <3>3. QED
            BY <1>1, <3>1, <3>2 DEF There
    <2>2. hand.at = "moved" => \A i \in left \cap Under(hand.item) : There(i, 1)'
        BY <1>0, HandFacts, ThereStays
    <2>3. QED
        BY <1>1, <2>1, <2>2
<1>2. CASE hand'.at \notin {"landed", "moved"}
    BY <1>2
<1>3. Idle.at = "idle"
    BY DEF Idle
<1>4. CASE Phase
    <2>1. CASE hand # Idle
        BY <1>2, <1>3, <1>4, <2>1, AtRest
           DEF Phase, Load, Refused, Mounts, TopsDone, DirsDone, FilesDone, Stamped, SourcesDone,
               RowFails, Cancelled, End, Throw
    <2>2. CASE hand = Idle
        BY <1>2, <1>3, <1>4, <2>2
           DEF Phase, Load, Refused, Mounts, TopsDone, DirsDone, FilesDone, Stamped, SourcesDone,
               RowFails, Cancelled, End, Throw
    <2>3. QED
        BY <2>1, <2>2
<1>5. CASE \E t \in Items : RenameTop(t)
    <2>1. PICK t \in Items : RenameTop(t)
        BY <1>5
    <2>2. hand'.item = t /\ hand'.at = "moved" /\ left' = left
        BY <2>1 DEF RenameTop, Take
    <2>3. QED
        BY <1>0, <2>1, <2>2, MovedTogether
<1>6. CASE \E i \in Items : RefuseTop(i) \/ MarkTop(i) \/ Mark(i)
    BY <1>1, <1>2, <1>3, <1>6
       DEF RefuseTop, MarkTop, Mark, MarkDone, MarkFailed, RemoveFails, Take
<1>7. CASE \E d \in Dirs : Folder(d)
    <2>1. PICK d \in Dirs : Folder(d)
        BY <1>7
    <2>2. CASE MakeDir(d)
        BY <2>2 DEF MakeDir, Take, There
    <2>3. CASE MakeDirFails(d)
        BY <1>2, <2>3 DEF MakeDirFails, Take
    <2>4. CASE RemoveDir(d)
        BY <1>1, <2>4 DEF RemoveDir
    <2>5. QED
        BY <2>1, <2>2, <2>3, <2>4 DEF Folder
<1>8. CASE \E f \in Files : File(f)
    <2>1. PICK f \in Files : File(f)
        BY <1>8
    <2>2. CASE Land(f)
        <3>1. /\ dst' = [dst EXCEPT ![f][hand.name] = "copy"]
              /\ hand'.item = f /\ hand'.name = hand.name /\ hand'.at = "landed"
            BY <2>2 DEF Land, Take
        <3>2. dst'[f][hand.name] = "copy"
            BY <1>0, <3>1 DEF TypeOK
        <3>3. QED
            BY <3>1, <3>2 DEF There, Files
    <2>3. hand'.at \notin {"landed", "moved"} \/ Land(f)
        <3>1. CASE SettleName(f) \/ SettleBlind(f) \/ Open(f) \/ CopyFails(f)
            BY <3>1 DEF SettleName, SettleBlind, Open, CopyFails, Take
        <3>2. CASE Verify(f)
            BY <3>2 DEF Verify, Take
        <3>3. QED
            BY <1>3, <2>1, <3>1, <3>2 DEF File, MarkSkipped, CopyThrows, Throw, Unlink
    <2>4. QED
        BY <1>2, <2>2, <2>3
<1>9. CASE Abort \/ Crash \/ Retry \/ UNCHANGED vars
    BY <1>1, <1>2, <1>3, <1>9 DEF Abort, Crash, Retry, vars, task
<1>10. QED
    BY <1>0, <1>4, <1>5, <1>6, <1>7, <1>8, <1>9 DEF Next, Run, World, Meddling, Rename

\* A directory leaves the source together with what renameInPlace moves, or by
\* removeSources once its row is DONE.
LEMMA DirsArrive ==
    ASSUME TypeOK, LeftFits, AllArrived, [Next]_vars, used'.meddles = 0
    PROVE  lost' = {} /\ \A d \in Dirs : d \in src' \/ d \in made'
<1>0. /\ used.meddles = 0 /\ ~Meddling /\ lost = {}
      /\ \A d \in Dirs : d \in src \/ d \in made
      /\ \A e \in Dirs : status[e] = "DONE" => e \in made
    <2>1. used.meddles = 0 /\ ~Meddling
        BY StepCounts
    <2>2. \A e \in Dirs : e \in Items
        BY RunAssumption
    <2>3. QED
        BY <2>1, <2>2 DEF AllArrived, There
<1>1. CASE UNCHANGED <<src, made, lost>>
    BY <1>0, <1>1
<1>2. CASE Phase
    BY <1>1, <1>2
       DEF Phase, Load, Refused, Mounts, TopsDone, DirsDone, FilesDone, Stamped, SourcesDone,
           RowFails, Cancelled, End, disks, past
<1>3. CASE \E i \in Items : Rename(i) \/ Mark(i)
    BY <1>0, <1>1, <1>3 DEF Rename, Mark, RenameTop, RefuseTop, MarkTop, MarkDone, MarkFailed,
                            RemoveFails, disks, past
<1>4. CASE \E e \in Dirs : Folder(e)
    BY <1>0, <1>4 DEF Folder, MakeDir, MakeDirFails, RemoveDir, NextUp, LeftFits, disks, past
<1>5. CASE \E f \in Files : File(f)
    BY <1>0, <1>1, <1>5 DEF File, SettleName, SettleBlind, MarkSkipped, Open, Land, CopyThrows,
                            CopyFails, Verify, Unlink, Files, disks, past
<1>6. CASE Abort \/ Crash \/ Retry \/ UNCHANGED vars
    BY <1>1, <1>6 DEF Abort, Crash, Retry, vars, disks, past
<1>7. QED
    BY <1>0, <1>2, <1>3, <1>4, <1>5, <1>6 DEF Next, Run, World, Meddling

\* copyOne and renameInPlace: whatever was decided, failed, crashed or was tried
\* again, an entry whose row is DONE is at the destination under the name the row
\* gives it, and a run that ended leaves no `.part` but those nothing can remove:
\* the one it wrote when its process died, and those whose discard failed.
THEOREM ArrivedAlways == Spec => [](DoneArrived /\ PartsDiscarded)
<1> DEFINE Inv == FirstNames /\ LeftFits /\ AllArrived
<1>1. Init => Inv
    <2> SUFFICES ASSUME Init PROVE Inv
        OBVIOUS
    <2>1. FirstNames
        BY RunAssumption, HandFacts, InitTypes DEF Init, FirstNames
    <2>2. LeftFits
        BY DEF Init, LeftFits
    <2>3. AllArrived
        BY RunAssumption DEF Init, AllArrived, Idle
    <2>4. QED
        BY <2>1, <2>2, <2>3
<1>2. TypeOK /\ WorkInv /\ SafeFiles /\ Inv /\ [Next]_vars => Inv'
    <2> SUFFICES ASSUME TypeOK, WorkInv, SafeFiles, Inv, [Next]_vars PROVE Inv'
        OBVIOUS
    <2>1. FirstNames' /\ LeftFits'
        BY StepFirstNames, StepLeftFits
    <2>2. AllArrived'
        <3> SUFFICES ASSUME used'.meddles = 0
                     PROVE  /\ \A i \in Items : status'[i] = "DONE" => There(i, NameOf(i))'
                            /\ hand'.at = "landed" => There(hand.item, hand.name)'
                            /\ hand'.at = "moved" => \A i \in left' \cap Under(hand'.item) : There(i, 1)'
                            /\ \A d \in Dirs : d \in src' \/ d \in made'
                            /\ lost' = {}
            BY DEF AllArrived
        <3>1. \A i \in Items : status'[i] = "DONE" => There(i, NameOf(i))'
            BY DoneIsThere
        <3>2. QED
            BY <3>1, DirsArrive, HandIsThere
    <2>3. QED
        BY <2>1, <2>2
<1>3. RunInv /\ Inv => DoneArrived /\ PartsDiscarded
    <2> SUFFICES ASSUME RunInv, Inv PROVE DoneArrived /\ PartsDiscarded
        OBVIOUS
    <2>1. DoneArrived
        BY RunAssumption DEF AllArrived, DoneArrived, There, NameOf, Files
    <2>2. ASSUME pc = "off" PROVE parts = strays
        <3>1. \A f \in Files : ~Has(f, "bytes")
            BY <2>2, AtRest DEF RunInv, Has, Idle
        <3>2. /\ parts \in [Files -> Nat] /\ strays \in [Files -> Nat]
              /\ \A f \in Files : parts[f] = strays[f]
            BY <3>1 DEF RunInv, TypeOK, PartsCounted, Writing
        <3>3. QED
            BY <3>2
    <2>3. QED
        BY <2>1, <2>2 DEF PartsDiscarded
<1>4. QED
    BY <1>1, <1>2, <1>3, SafeAlways, RunAlways, PTL DEF Spec, RunInv

-----------------------------------------------------------------------------
(* What a DONE job has done, when it is not a move on one host.            *)

Dealt(i) == status[i] \in Settled \cup {"FAILED"}

\* A run that gets to its end has dealt with every item, because what it has
\* not dealt with is left; a job's status is settled between runs only.
Covered ==
    /\ pc # "off" => job = "RUNNING"
    /\ pc \notin {"mounts", "tops"}
    /\ pc \in {"dirs", "files"} => \A i \in Items : Dealt(i) \/ i \in left
    /\ pc \in {"stamps", "sources"} \/ (pc = "end" /\ outcome = "DONE")
         => \A i \in Items : Dealt(i)
    /\ DoneCoversItems

\* And a move has removed what it calls DONE, or has it left to remove.
Removed ==
    IsMove =>
        /\ pc = "sources" => \A i \in Items : status[i] = "DONE" => i \in left \/ i \notin src
        /\ pc = "end" /\ outcome = "DONE" => \A i \in Items : status[i] = "DONE" => i \notin src
        /\ SourcesGone

\* A row written for the item in hand.
LEMMA MarkCovers ==
    ASSUME TypeOK, Covered, Removed, NEW i \in Items, NEW s \in Settled \cup {"FAILED"},
           status' = [status EXCEPT ![i] = s], left' = left \ {i},
           pc \in {"dirs", "files", "sources"}, pc = "sources" => s # "DONE",
           UNCHANGED <<pc, job, outcome, src>>
    PROVE  Covered' /\ Removed'
<1>1. \A j \in Items : status'[j] = IF j = i THEN s ELSE status[j]
    BY DEF TypeOK
<1>2. job = "RUNNING"
    BY DEF Covered
<1>3. Covered'
    BY <1>1, <1>2 DEF Covered, Dealt, DoneCoversItems
<1>4. Removed'
    BY <1>1, <1>2 DEF Removed, SourcesGone
<1>5. QED
    BY <1>3, <1>4

\* A step within a phase, and one that ends the run without success.
LEMMA StillCovers ==
    ASSUME Covered, Removed, UNCHANGED <<status, job>>,
           \/ UNCHANGED <<pc, left, outcome>> /\ src' \subseteq src
           \/ pc # "off" /\ pc' = "end" /\ outcome' # "DONE" /\ src' = src
           \/ pc # "off" /\ pc' = "off" /\ src' = src
    PROVE  Covered' /\ Removed'
<1>1. Covered'
    BY DEF Covered, Dealt, DoneCoversItems
<1>2. Removed'
    BY DEF Covered, Removed, SourcesGone
<1>3. QED
    BY <1>1, <1>2

LEMMA PhaseCovers ==
    ASSUME TypeOK, WorkInv, Covered, Removed, ~(IsMove /\ SameHost), Phase
    PROVE  Covered' /\ Removed'
<1> USE DEF rows, disks
<1>1. CASE Load
    <2>1. /\ pc' = "dirs" /\ job' = "RUNNING" /\ UNCHANGED <<status, src>>
          /\ left' = {i \in Items : status[i] \notin Settled}
        BY <1>1 DEF Load
    <2>2. QED
        BY <2>1 DEF Covered, Removed, Dealt, DoneCoversItems, SourcesGone
<1>2. CASE Refused \/ RowFails \/ Cancelled
    <2>1. /\ UNCHANGED <<status, job, src>> /\ pc' = "end"
          /\ outcome' # "DONE"
        BY <1>2 DEF Refused, RowFails, Cancelled, Throw, TypeOK
    <2>2. pc # "off"
        BY <1>2, AtRest DEF Refused, RowFails, Cancelled, Idle
    <2>3. QED
        BY <2>1, <2>2, StillCovers
<1>3. CASE Mounts \/ TopsDone
    BY <1>3 DEF Covered, Mounts, TopsDone
<1>4. CASE DirsDone
    BY <1>4 DEF DirsDone, Covered, Removed, Dealt, DoneCoversItems, SourcesGone
<1>5. CASE FilesDone
    BY <1>5 DEF FilesDone, Covered, Removed, Dealt, DoneCoversItems, SourcesGone
<1>6. CASE Stamped
    <2>1. /\ pc = "stamps" /\ UNCHANGED <<status, job, src, outcome>>
          /\ \/ IsMove /\ pc' = "sources" /\ left' = {i \in Items : status[i] = "DONE"}
             \/ ~IsMove /\ pc' = "end"
        BY <1>6 DEF Stamped
    <2>2. Covered'
        BY <2>1 DEF Covered, Dealt, DoneCoversItems
    <2>3. Removed'
        BY <2>1 DEF Covered, Removed, SourcesGone
    <2>4. QED
        BY <2>2, <2>3
<1>7. CASE SourcesDone
    BY <1>7 DEF SourcesDone, Covered, Removed, Dealt, DoneCoversItems, SourcesGone
<1>8. CASE End
    <2>1. /\ pc = "end" /\ pc' = "off" /\ UNCHANGED <<status, src>>
          /\ job' = "DONE" => outcome = "DONE" /\ \A i \in Items : status[i] # "FAILED"
        BY <1>8 DEF End
    <2>2. job' = "DONE" => \A i \in Items : status[i] \in Settled
        BY <2>1 DEF Covered, Dealt
    <2>3. job' = "DONE" /\ IsMove => \A i \in Items : status[i] = "DONE" => i \notin src
        BY <2>1 DEF Removed
    <2>4. Covered'
        BY <2>1, <2>2 DEF Covered, Dealt, DoneCoversItems
    <2>5. Removed'
        BY <2>1, <2>3 DEF Removed, SourcesGone
    <2>6. QED
        BY <2>4, <2>5
<1>9. QED
    BY <1>1, <1>2, <1>3, <1>4, <1>5, <1>6, <1>7, <1>8 DEF Phase

LEMMA FileCovers ==
    ASSUME TypeOK, WorkInv, Covered, Removed, NEW f \in Files, File(f)
    PROVE  Covered' /\ Removed'
<1> USE DEF rows, disks
<1>0. f \in Items /\ f # NoItem
    BY HandFacts
<1>1. CASE MarkSkipped(f)
    <2>1. pc = "files"
        BY <1>0, <1>1 DEF MarkSkipped, Has, WorkInv, AtWork
    <2>2. QED
        BY <1>0, <1>1, <2>1, MarkCovers DEF MarkSkipped, Settled
<1>2. CASE CopyThrows(f)
    <2>1. UNCHANGED <<status, job, src>> /\ pc' = "end" /\ outcome' # "DONE"
        BY <1>2 DEF CopyThrows, Throw, TypeOK
    <2>2. pc # "off"
        BY <1>0, <1>2, AtRest DEF CopyThrows, Fails, Idle
    <2>3. QED
        BY <2>1, <2>2, StillCovers
<1>3. CASE Unlink(f)
    <2>1. /\ pc = "sources" /\ pc' = pc /\ left' = left \ {f} /\ src' = src \ {f}
          /\ UNCHANGED <<status, job, outcome>>
        BY <1>0, <1>3 DEF Unlink, Has, WorkInv, AtWork
    <2>2. Covered'
        BY <2>1 DEF Covered, Dealt, DoneCoversItems
    <2>3. Removed'
        BY <2>1 DEF Removed, SourcesGone
    <2>4. QED
        BY <2>2, <2>3
<1>4. CASE SettleName(f) \/ SettleBlind(f) \/ Open(f) \/ Land(f) \/ CopyFails(f) \/ Verify(f)
    <2>1. UNCHANGED <<status, job, pc, left, outcome, src>>
        BY <1>4 DEF SettleName, SettleBlind, Open, Land, CopyFails, Verify
    <2>2. QED
        BY <2>1, StillCovers
<1>5. QED
    BY <1>1, <1>2, <1>3, <1>4 DEF File

LEMMA ItemCovers ==
    ASSUME TypeOK, WorkInv, Covered, Removed, NEW i \in Items, Rename(i) \/ Mark(i)
    PROVE  Covered' /\ Removed'
<1> USE DEF rows, disks
<1>0. i # NoItem
    BY HandFacts
<1>1. CASE Rename(i)
    BY <1>1 DEF Covered, Rename, RenameTop, RefuseTop, MarkTop
<1>2. CASE MarkDone(i)
    <2>1. pc \in {"dirs", "files"}
        BY <1>0, <1>2 DEF MarkDone, Has, WorkInv, AtWork
    <2>2. QED
        BY <1>2, <2>1, MarkCovers DEF MarkDone, Settled
<1>3. CASE MarkFailed(i)
    <2>1. pc \in {"dirs", "files", "sources"}
        BY <1>0, <1>3 DEF MarkFailed, Has, WorkInv, AtWork
    <2>2. QED
        BY <1>3, <2>1, MarkCovers DEF MarkFailed
<1>4. CASE RemoveFails(i)
    BY <1>4, StillCovers DEF RemoveFails
<1>5. QED
    BY <1>1, <1>2, <1>3, <1>4 DEF Mark

LEMMA FolderCovers ==
    ASSUME TypeOK, Covered, Removed, NEW d \in Dirs, Folder(d)
    PROVE  Covered' /\ Removed'
<1> USE DEF rows, disks
<1>1. CASE MakeDir(d) \/ MakeDirFails(d)
    BY <1>1, StillCovers DEF MakeDir, MakeDirFails
<1>2. CASE RemoveDir(d)
    <2>1. /\ pc = "sources" /\ pc' = pc /\ left' = left \ {d} /\ src' = src \ {d}
          /\ UNCHANGED <<status, job, outcome>>
        BY <1>2 DEF RemoveDir, NextUp
    <2>2. Covered'
        BY <2>1 DEF Covered, Dealt, DoneCoversItems
    <2>3. Removed'
        BY <2>1 DEF Removed, SourcesGone
    <2>4. QED
        BY <2>2, <2>3
<1>3. QED
    BY <1>1, <1>2 DEF Folder

LEMMA WorldCovers ==
    ASSUME TypeOK, Covered, Removed, World
    PROVE  Covered' /\ Removed'
<1> USE DEF rows, disks, task
<1>1. CASE Abort \/ Crash \/ Meddling
    <2>1. UNCHANGED <<status, job>> /\ src' \subseteq src
        BY <1>1 DEF Abort, Crash, Meddling, Vanish, Meddle
    <2>2. \/ UNCHANGED <<pc, left, outcome>>
          \/ pc # "off" /\ pc' = "off" /\ src' = src
        BY <1>1 DEF Abort, Crash, Meddling, Vanish, Meddle
    <2>3. QED
        BY <2>1, <2>2, StillCovers
<1>2. CASE Retry
    <2>1. pc = "off" /\ UNCHANGED <<pc, src>> /\ job' = "QUEUED"
        BY <1>2 DEF Retry
    <2>2. QED
        BY <2>1 DEF Covered, Removed, DoneCoversItems, SourcesGone
<1>3. QED
    BY <1>1, <1>2 DEF World, Meddling

\* run() and removeSources, for a copy and for a move between hosts: a job that
\* ends DONE has settled all of its items, whatever was retried or reclaimed, and
\* a move has removed the source of each it calls DONE.
THEOREM CoveredAlways ==
    ASSUME ~(IsMove /\ SameHost)
    PROVE  Spec => [](DoneCoversItems /\ SourcesGone)
<1>1. Init => Covered /\ Removed
    BY DEF Init, Covered, Removed, DoneCoversItems, SourcesGone
<1>2. TypeOK /\ WorkInv /\ Covered /\ Removed /\ [Next]_vars => (Covered /\ Removed)'
    <2> SUFFICES ASSUME TypeOK, WorkInv, Covered, Removed, [Next]_vars
                 PROVE  Covered' /\ Removed'
        OBVIOUS
    <2>1. CASE UNCHANGED vars
        BY <2>1, StillCovers DEF vars, rows, disks, task
    <2>2. CASE Run
        BY <2>2, PhaseCovers, ItemCovers, FolderCovers, FileCovers DEF Run
    <2>3. CASE World
        BY <2>3, WorldCovers
    <2>4. QED
        BY <2>1, <2>2, <2>3 DEF Next
<1>3. TypeOK /\ Covered /\ Removed => DoneCoversItems /\ SourcesGone
    BY DEF Covered, Removed, SourcesGone
<1>4. QED
    BY <1>1, <1>2, <1>3, RunTypeCorrect, WorkAlways, PTL DEF Spec

\* Together, for a job of its own that copies: what it calls DONE is complete.
THEOREM CompleteAlways ==
    ASSUME ~(IsMove /\ SameHost)
    PROVE  AloneSpec => []DoneIsComplete
<1>1. AloneSpec => Spec /\ [](kind = "move")
    <2>1. kind = "move" /\ [KindNext]_<<vars, kind>> => (kind = "move")' /\ [Next]_vars
        BY DEF KindNext
    <2>2. AloneSpec => kind = "move" /\ Init /\ [][KindNext]_<<vars, kind>>
        BY DEF AloneSpec
    <2>3. QED
        BY <2>1, <2>2, PTL DEF Spec
<1>2. kind = "move" /\ DoneArrived /\ PartsDiscarded /\ DoneCoversItems /\ SourcesGone
        => DoneIsComplete
    BY DEF DoneIsComplete, CopiedCoversItems, MovedSourcesGone
<1>3. Spec => [](DoneCoversItems /\ SourcesGone)
    BY CoveredAlways
<1>4. QED
    BY <1>1, <1>2, <1>3, ArrivedAlways, PTL
=============================================================================
