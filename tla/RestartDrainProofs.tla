-------------------------- MODULE RestartDrainProofs --------------------------
(***************************************************************************)
(* The fence around a restart holds for every number of supervisors and    *)
(* owner restarts, whichever of them dies between two steps, and however   *)
(* often the gateway does.                                                 *)
(*                                                                         *)
(* An operation of a prepared restart may be in flight while its           *)
(* supervisor waits for it, after the supervisor gave up on it, and after  *)
(* the supervisor was killed. The argument is that the receipt keeps the   *)
(* hold in each of the three, that no one but the supervisor of the        *)
(* receipt gives a hold of that id back, and that it does so only when     *)
(* nothing of its own is in flight.                                        *)
(***************************************************************************)
EXTENDS RestartDrain, TLAPS

USE RestartAssumption

(* A gateway that is down holds nothing, and nobody is connected to it.    *)
Down == ~up => own = "idle" /\ drain = 0 /\ owners = {} /\ ~sup.link

(* The hold an owner restart drains under is its own.                      *)
OwnerHas == own = "drains" => drain = Own

(* The supervisor that runs is the one of the receipt, and what it knows of*)
(* its hold and of its receipt at each of its steps.                       *)
Lease ==
  /\ receipt.id = 0 => receipt.st = "ok"
  /\ sup.pc # "off" => sup.id = receipt.id /\ sup.id \in Sup \ queued
  /\ sup.pc \in {"prepare", "asked", "prepared"} => ~sup.gwOk
  /\ sup.pc \in {"prepare", "asked"} => ~sup.held
  /\ sup.pc \in {"prepare", "asked", "prepared", "run", "command"} => receipt.st = "running"
  /\ sup.pc \in {"run", "command"} /\ sup.held => receipt.prep

(* Once the gateway was restarted, the new process holds for its           *)
(* supervisor: the commands after the gateway's are not confirmed again.   *)
Carried == sup.pc \in {"run", "command"} /\ sup.held /\ sup.gwOk /\ up => drain = sup.id

(* An operation in flight is the one its supervisor waits for, or one given*)
(* up as indeterminate, or of a supervisor that ended. While the receipt is*)
(* of its restart, the receipt keeps the hold and the gateway has it.      *)
Flight ==
  /\ sup.pc = "command" => op.kind # "none" /\ op.id = sup.id /\ op.held = sup.held
  /\ op.kind # "none" =>
      /\ op.id \in Sup \ queued
      /\ op.id = sup.id /\ sup.pc # "off" =>
           sup.pc = "command" \/ (sup.pc = "release" /\ receipt.st = "indeterminate")
      /\ op.held /\ op.id = receipt.id =>
           /\ receipt.st = "indeterminate" \/ (receipt.st = "running" /\ receipt.prep)
           /\ up => drain = op.id

IInv == TypeOK /\ Down /\ OwnerHas /\ Lease /\ Carried /\ Flight /\ OpenNoticeIsHeld

-----------------------------------------------------------------------------
(* Taking and giving back a hold moves announcements of known ids.         *)
LEMMA HoldTyped ==
  ASSUME TypeOK, NEW i \in Ids, Hold(i)
  PROVE  drain' \in Ids \cup {0} /\ note' \in [Ids -> Nat]
BY DEF TypeOK, Hold, Announced

LEMMA ReleaseTyped ==
  ASSUME TypeOK, NEW i \in Ids, ReleaseOrTransfer(i)
  PROVE  drain' \in Ids \cup {0} /\ note' \in [Ids -> Nat]
<1>1. Own \in Ids
  BY DEF Ids
<1>2. note \in [Ids -> Nat] /\ drain \in Ids \cup {0}
  BY DEF TypeOK
<1>3. Closed(i) \in [Ids -> Nat]
  BY <1>2 DEF Closed
<1>4. Moved(i, Own) \in [Ids -> Nat]
  BY <1>1, <1>2 DEF Moved
<1> QED
  BY <1>1, <1>2, <1>3, <1>4 DEF ReleaseOrTransfer

LEMMA CloseTyped ==
  ASSUME TypeOK, NEW i \in Sup, Close(i)
  PROVE  drain' \in Ids \cup {0} /\ note' \in [Ids -> Nat] /\ owners' \subseteq Sup
BY ReleaseTyped DEF Close, TypeOK, Ids

LEMMA InitLemma == Init => IInv
<1> SUFFICES ASSUME Init PROVE IInv
  OBVIOUS
<1>1. sup \in Supervisors /\ op \in Operations
  BY DEF Init, Off, NoOp, Pcs, Steps, Supervisors, Operations
<1>2. receipt \in Receipts
  BY DEF Init, Receipts
<1>3. TypeOK
  BY <1>1, <1>2 DEF Init, TypeOK, Ids
<1> QED
  BY <1>3 DEF Init, Off, NoOp, Ids, IInv, Down, OwnerHas, Lease, Carried, Flight, OpenNoticeIsHeld

LEMMA TypeStep ==
  ASSUME IInv, [Next]_vars PROVE TypeOK'
<1>1. ASSUME NEW i \in Sup, Launch(i) PROVE TypeOK'
  BY <1>1
  DEF IInv, TypeOK, Ids, Pcs, Receipts, Supervisors, Operations, Launch,
     NoGateway, Kept, gateway
<1>2. ASSUME NEW i \in Sup, Start(i) PROVE TypeOK'
  <2>1. sup' \in Supervisors
    BY <1>2
    DEF IInv, TypeOK, Supervisors, Pcs, Steps, Start, NoGateway, Kept, gateway,
       Off
  <2>2. receipt' \in Receipts /\ op' \in Operations
    BY <1>2
    DEF IInv, TypeOK, Receipts, Supervisors, Operations, Start, NoGateway,
       Kept, gateway, Off
  <2>3. drain' \in Ids \cup {0} /\ note' \in [Ids -> Nat] /\ owners' \subseteq Sup
    BY <1>2
    DEF IInv, TypeOK, Supervisors, Receipts, Ids, Start, NoGateway, Kept,
       gateway, Off
  <2> QED
    BY <1>2, <2>1, <2>2, <2>3
    DEF IInv, TypeOK, Start, NoGateway, Kept, gateway, Off
<1>3. CASE PrepareAlone
  BY <1>3
  DEF IInv, TypeOK, Ids, Pcs, Receipts, Supervisors, Operations, PrepareAlone,
     Goto, NoGateway, Kept, gateway
<1>4. CASE PrepareRefused
  <2>1. sup' \in Supervisors
    BY <1>4
    DEF IInv, TypeOK, Supervisors, Pcs, Steps, PrepareRefused, Prepared,
       Finish, Off, NoGateway, Kept, gateway
  <2>2. receipt' \in Receipts /\ op' \in Operations
    BY <1>4
    DEF IInv, TypeOK, Receipts, Supervisors, Operations, PrepareRefused,
       Prepared, Finish, Off, NoGateway, Kept, gateway
  <2>3. drain' \in Ids \cup {0} /\ note' \in [Ids -> Nat] /\ owners' \subseteq Sup
    BY <1>4
    DEF IInv, TypeOK, Supervisors, Receipts, Ids, PrepareRefused, Prepared,
       Finish, Off, NoGateway, Kept, gateway
  <2> QED
    BY <1>4, <2>1, <2>2, <2>3
    DEF IInv, TypeOK, PrepareRefused, Prepared, Finish, Off, NoGateway, Kept,
       gateway
<1>5. CASE PrepareAsks
  <2>1. sup' \in Supervisors
    BY <1>5
    DEF IInv, TypeOK, Supervisors, Pcs, Steps, PrepareAsks, Prepared, Hold,
       Announced, Kept, gateway
  <2>2. receipt' \in Receipts /\ op' \in Operations
    BY <1>5
    DEF IInv, TypeOK, Receipts, Supervisors, Operations, PrepareAsks, Prepared,
       Hold, Announced, Kept, gateway
  <2>3. drain' \in Ids \cup {0} /\ note' \in [Ids -> Nat] /\ owners' \subseteq Sup
    BY <1>5, HoldTyped, ReleaseTyped, CloseTyped
    DEF IInv, Lease, TypeOK, Supervisors, Receipts, Ids, Ending, Reattaches,
       PrepareAsks, Kept, gateway, NoGateway
  <2> QED
    BY <1>5, <2>1, <2>2, <2>3
    DEF IInv, TypeOK, PrepareAsks, Prepared, Hold, Announced, Kept, gateway
<1>6. CASE PrepareDrained
  <2>1. sup' \in Supervisors
    BY <1>6
    DEF IInv, TypeOK, Supervisors, Pcs, Steps, PrepareDrained, NoGateway, Kept,
       gateway
  <2>2. receipt' \in Receipts /\ op' \in Operations
    BY <1>6
    DEF IInv, TypeOK, Receipts, Supervisors, Operations, PrepareDrained,
       NoGateway, Kept, gateway
  <2>3. drain' \in Ids \cup {0} /\ note' \in [Ids -> Nat] /\ owners' \subseteq Sup
    BY <1>6
    DEF IInv, TypeOK, Supervisors, Receipts, Ids, PrepareDrained, NoGateway,
       Kept, gateway
  <2> QED
    BY <1>6, <2>1, <2>2, <2>3
    DEF IInv, TypeOK, PrepareDrained, NoGateway, Kept, gateway
<1>7. CASE PrepareFails
  <2>1. sup' \in Supervisors
    BY <1>7
    DEF IInv, TypeOK, Supervisors, Pcs, Steps, PrepareFails, Finish, Off,
       ReleaseOrTransfer, Moved, Closed, Kept, gateway
  <2>2. receipt' \in Receipts /\ op' \in Operations
    BY <1>7
    DEF IInv, TypeOK, Receipts, Supervisors, Operations, PrepareFails, Finish,
       Off, ReleaseOrTransfer, Moved, Closed, Kept, gateway
  <2>3. drain' \in Ids \cup {0} /\ note' \in [Ids -> Nat] /\ owners' \subseteq Sup
    BY <1>7, HoldTyped, ReleaseTyped, CloseTyped
    DEF IInv, Lease, TypeOK, Supervisors, Receipts, Ids, Ending, Reattaches,
       PrepareFails, Kept, gateway, NoGateway
  <2> QED
    BY <1>7, <2>1, <2>2, <2>3
    DEF IInv, TypeOK, PrepareFails, Finish, Off, ReleaseOrTransfer, Moved,
       Closed, Kept, gateway
<1>8. CASE MarkPrepared
  <2>1. sup' \in Supervisors
    BY <1>8 DEF IInv, TypeOK, Supervisors, Pcs, MarkPrepared, Goto
  <2>2. receipt' \in Receipts
    BY <1>8 DEF IInv, TypeOK, Receipts, MarkPrepared
  <2> QED
    BY <1>8, <2>1, <2>2 DEF IInv, TypeOK, MarkPrepared, NoGateway, Kept, gateway
<1>9. CASE Skip
  BY <1>9
  DEF IInv, TypeOK, Ids, Pcs, Receipts, Supervisors, Operations, Skip, After,
     Steps, NoGateway, Kept, gateway
<1>10. CASE Issue
  BY <1>10
  DEF IInv, TypeOK, Ids, Pcs, Receipts, Supervisors, Operations, Issue,
     StillHeld, Prepared, NoOp, Goto, NoGateway, Kept, gateway
<1>11. CASE NotIssued
  BY <1>11
  DEF IInv, TypeOK, Ids, Pcs, Receipts, Supervisors, Operations, NotIssued,
     Failed, Goto, NoGateway, Kept, gateway
<1>12. CASE CommandOk
  <2>1. sup' \in Supervisors
    BY <1>12
    DEF IInv, TypeOK, Supervisors, Pcs, Steps, CommandOk, NoOp, After, Steps,
       NoGateway, Kept, gateway
  <2>2. receipt' \in Receipts /\ op' \in Operations
    BY <1>12
    DEF IInv, TypeOK, Receipts, Supervisors, Operations, CommandOk, NoOp,
       After, Steps, NoGateway, Kept, gateway
  <2>3. drain' \in Ids \cup {0} /\ note' \in [Ids -> Nat] /\ owners' \subseteq Sup
    BY <1>12
    DEF IInv, TypeOK, Supervisors, Receipts, Ids, CommandOk, NoOp, After,
       Steps, NoGateway, Kept, gateway
  <2> QED
    BY <1>12, <2>1, <2>2, <2>3
    DEF IInv, TypeOK, CommandOk, NoOp, After, Steps, NoGateway, Kept, gateway
<1>13. CASE CommandFails
  BY <1>13
  DEF IInv, TypeOK, Ids, Pcs, Receipts, Supervisors, Operations, CommandFails,
     NoOp, Failed, Goto, NoGateway, Kept, gateway
<1>14. CASE CommandTimesOut
  BY <1>14
  DEF IInv, TypeOK, Ids, Pcs, Receipts, Supervisors, Operations,
     CommandTimesOut, Goto, NoGateway, Kept, gateway
<1>15. CASE ReleaseKeeps
  <2>1. sup' \in Supervisors
    BY <1>15
    DEF IInv, TypeOK, Supervisors, Pcs, Steps, ReleaseKeeps, Ending, Finish,
       Final, Off, Close, ReleaseOrTransfer, KeepsDrain, Moved, Closed, Kept,
       gateway
  <2>2. receipt' \in Receipts /\ op' \in Operations
    BY <1>15
    DEF IInv, TypeOK, Receipts, Supervisors, Operations, ReleaseKeeps, Ending,
       Finish, Final, Off, Close, ReleaseOrTransfer, KeepsDrain, Moved, Closed,
       Kept, gateway
  <2>3. drain' \in Ids \cup {0} /\ note' \in [Ids -> Nat] /\ owners' \subseteq Sup
    BY <1>15, HoldTyped, ReleaseTyped, CloseTyped
    DEF IInv, Lease, TypeOK, Supervisors, Receipts, Ids, Ending, Reattaches,
       ReleaseKeeps, Kept, gateway, NoGateway
  <2> QED
    BY <1>15, <2>1, <2>2, <2>3
    DEF IInv, TypeOK, ReleaseKeeps, Ending, Finish, Final, Off, Close,
       ReleaseOrTransfer, KeepsDrain, Moved, Closed, Kept, gateway
<1>16. CASE ReleaseCancels
  <2>1. sup' \in Supervisors
    BY <1>16
    DEF IInv, TypeOK, Supervisors, Pcs, Steps, ReleaseCancels, Ending, Finish,
       Final, Off, Confirmed, Reattaches, ReleaseOrTransfer, Moved, Closed,
       Kept, gateway
  <2>2. receipt' \in Receipts /\ op' \in Operations
    BY <1>16
    DEF IInv, TypeOK, Receipts, Supervisors, Operations, ReleaseCancels,
       Ending, Finish, Final, Off, Confirmed, Reattaches, ReleaseOrTransfer,
       Moved, Closed, Kept, gateway
  <2>3. drain' \in Ids \cup {0} /\ note' \in [Ids -> Nat] /\ owners' \subseteq Sup
    BY <1>16, HoldTyped, ReleaseTyped, CloseTyped
    DEF IInv, Lease, TypeOK, Supervisors, Receipts, Ids, Ending, Reattaches,
       ReleaseCancels, Kept, gateway, NoGateway
  <2> QED
    BY <1>16, <2>1, <2>2, <2>3
    DEF IInv, TypeOK, ReleaseCancels, Ending, Finish, Final, Off, Confirmed,
       Reattaches, ReleaseOrTransfer, Moved, Closed, Kept, gateway
<1>17. CASE ReattachAsks
  <2>1. sup' \in Supervisors
    BY <1>17
    DEF IInv, TypeOK, Supervisors, Pcs, Steps, ReattachAsks, Ending,
       Reattaches, Prepared, Hold, Announced, Kept, gateway
  <2>2. receipt' \in Receipts /\ op' \in Operations
    BY <1>17
    DEF IInv, TypeOK, Receipts, Supervisors, Operations, ReattachAsks, Ending,
       Reattaches, Prepared, Hold, Announced, Kept, gateway
  <2>3. drain' \in Ids \cup {0} /\ note' \in [Ids -> Nat] /\ owners' \subseteq Sup
    BY <1>17, HoldTyped, ReleaseTyped, CloseTyped
    DEF IInv, Lease, TypeOK, Supervisors, Receipts, Ids, Ending, Reattaches,
       ReattachAsks, Kept, gateway, NoGateway
  <2> QED
    BY <1>17, <2>1, <2>2, <2>3
    DEF IInv, TypeOK, ReattachAsks, Ending, Reattaches, Prepared, Hold,
       Announced, Kept, gateway
<1>18. CASE ReattachRefused
  <2>1. sup' \in Supervisors
    BY <1>18
    DEF IInv, TypeOK, Supervisors, Pcs, Steps, ReattachRefused, Ending,
       Reattaches, Finish, Off, NoGateway, Kept, gateway
  <2>2. receipt' \in Receipts /\ op' \in Operations
    BY <1>18
    DEF IInv, TypeOK, Receipts, Supervisors, Operations, ReattachRefused,
       Ending, Reattaches, Finish, Off, NoGateway, Kept, gateway
  <2>3. drain' \in Ids \cup {0} /\ note' \in [Ids -> Nat] /\ owners' \subseteq Sup
    BY <1>18
    DEF IInv, TypeOK, Supervisors, Receipts, Ids, ReattachRefused, Ending,
       Reattaches, Finish, Off, NoGateway, Kept, gateway
  <2> QED
    BY <1>18, <2>1, <2>2, <2>3
    DEF IInv, TypeOK, ReattachRefused, Ending, Reattaches, Finish, Off,
       NoGateway, Kept, gateway
<1>19. CASE ReattachDrained
  <2>1. sup' \in Supervisors
    BY <1>19
    DEF IInv, TypeOK, Supervisors, Pcs, Steps, ReattachDrained, Finish, Final,
       Off, Confirmed, ReleaseOrTransfer, Moved, Closed, Kept, gateway
  <2>2. receipt' \in Receipts /\ op' \in Operations
    BY <1>19
    DEF IInv, TypeOK, Receipts, Supervisors, Operations, ReattachDrained,
       Finish, Final, Off, Confirmed, ReleaseOrTransfer, Moved, Closed, Kept,
       gateway
  <2>3. drain' \in Ids \cup {0} /\ note' \in [Ids -> Nat] /\ owners' \subseteq Sup
    BY <1>19, HoldTyped, ReleaseTyped, CloseTyped
    DEF IInv, Lease, TypeOK, Supervisors, Receipts, Ids, Ending, Reattaches,
       ReattachDrained, Kept, gateway, NoGateway
  <2> QED
    BY <1>19, <2>1, <2>2, <2>3
    DEF IInv, TypeOK, ReattachDrained, Finish, Final, Off, Confirmed,
       ReleaseOrTransfer, Moved, Closed, Kept, gateway
<1>20. CASE ReattachFails
  <2>1. sup' \in Supervisors
    BY <1>20
    DEF IInv, TypeOK, Supervisors, Pcs, Steps, ReattachFails, Finish, Off,
       Kept, gateway
  <2>2. receipt' \in Receipts /\ op' \in Operations
    BY <1>20
    DEF IInv, TypeOK, Receipts, Supervisors, Operations, ReattachFails, Finish,
       Off, Kept, gateway
  <2>3. drain' \in Ids \cup {0} /\ note' \in [Ids -> Nat] /\ owners' \subseteq Sup
    BY <1>20
    DEF IInv, TypeOK, Supervisors, Receipts, Ids, ReattachFails, Finish, Off,
       Kept, gateway
  <2> QED
    BY <1>20, <2>1, <2>2, <2>3
    DEF IInv, TypeOK, ReattachFails, Finish, Off, Kept, gateway
<1>21. CASE SupervisorDies
  <2>1. sup' \in Supervisors
    BY <1>21
    DEF IInv, TypeOK, Supervisors, Pcs, Steps, SupervisorDies, Off, Close,
       ReleaseOrTransfer, KeepsDrain, Moved, Closed, Kept, gateway
  <2>2. receipt' \in Receipts /\ op' \in Operations
    BY <1>21
    DEF IInv, TypeOK, Receipts, Supervisors, Operations, SupervisorDies, Off,
       Close, ReleaseOrTransfer, KeepsDrain, Moved, Closed, Kept, gateway
  <2>3. drain' \in Ids \cup {0} /\ note' \in [Ids -> Nat] /\ owners' \subseteq Sup
    BY <1>21, HoldTyped, ReleaseTyped, CloseTyped
    DEF IInv, Lease, TypeOK, Supervisors, Receipts, Ids, Ending, Reattaches,
       SupervisorDies, Kept, gateway, NoGateway
  <2> QED
    BY <1>21, <2>1, <2>2, <2>3
    DEF IInv, TypeOK, SupervisorDies, Off, Close, ReleaseOrTransfer,
       KeepsDrain, Moved, Closed, Kept, gateway
<1>22. CASE OwnerAsks
  BY <1>22
  DEF IInv, TypeOK, Ids, Pcs, Receipts, Supervisors, Operations, OwnerAsks,
     NoSupervisor
<1>23. CASE OwnerSupersedes
  <2>1. sup' \in Supervisors
    BY <1>23 DEF IInv, TypeOK, Supervisors, OwnerSupersedes
  <2> QED
    BY <1>23, <2>1 DEF IInv, TypeOK, OwnerSupersedes, NoSupervisor, Kept, gateway
<1>24. CASE OwnerHolds
  BY <1>24
  DEF IInv, TypeOK, Ids, Pcs, Receipts, Supervisors, Operations, OwnerHolds,
     Hold, Announced, NoSupervisor, Kept, gateway
<1>25. CASE OwnerGivesUp
  BY <1>25
  DEF IInv, TypeOK, Ids, Pcs, Receipts, Supervisors, Operations, OwnerGivesUp,
     NoSupervisor, Kept, gateway
<1>26. CASE OwnerTimesOut
  BY <1>26
  DEF IInv, TypeOK, Ids, Pcs, Receipts, Supervisors, Operations, OwnerTimesOut,
     Closed, NoSupervisor, Kept, gateway
<1>27. CASE Stop
  BY <1>27 DEF IInv, TypeOK, Ids, Pcs, Receipts, Supervisors, Operations, Stop
<1>28. CASE Boot
  BY <1>28
  DEF IInv, TypeOK, Ids, Pcs, Receipts, Supervisors, Operations, Boot,
     PersistedDrain, NoteBoot
<1>29. CASE SettlesLate
  BY <1>29
  DEF IInv, TypeOK, Ids, Pcs, Receipts, Supervisors, Operations, SettlesLate,
     NoOp, NoGateway, Kept, gateway
<1>30. CASE Dispatch
  BY <1>30
  DEF IInv, TypeOK, Ids, Pcs, Receipts, Supervisors, Operations, Dispatch,
     Kept, gateway
<1>31. CASE Settled
  <2>1. sup' \in Supervisors
    BY <1>31 DEF IInv, TypeOK, Supervisors, Pcs, Steps, Settled, Kept, gateway
  <2>2. receipt' \in Receipts /\ op' \in Operations
    BY <1>31
    DEF IInv, TypeOK, Receipts, Supervisors, Operations, Settled, Kept, gateway
  <2>3. drain' \in Ids \cup {0} /\ note' \in [Ids -> Nat] /\ owners' \subseteq Sup
    BY <1>31
    DEF IInv, TypeOK, Supervisors, Receipts, Ids, Settled, Kept, gateway
  <2> QED
    BY <1>31, <2>1, <2>2, <2>3 DEF IInv, TypeOK, Settled, Kept, gateway
<1>32. CASE Recover
  <2>1. sup' \in Supervisors
    BY <1>32
    DEF IInv, TypeOK, Supervisors, Pcs, Steps, Recover, NoOp,
       ReleaseOrTransfer, Moved, Closed, Kept, gateway
  <2>2. receipt' \in Receipts /\ op' \in Operations
    BY <1>32
    DEF IInv, TypeOK, Receipts, Supervisors, Operations, Recover, NoOp,
       ReleaseOrTransfer, Moved, Closed, Kept, gateway
  <2>3. drain' \in Ids \cup {0} /\ note' \in [Ids -> Nat] /\ owners' \subseteq Sup
    BY <1>32, HoldTyped, ReleaseTyped, CloseTyped
    DEF IInv, Lease, TypeOK, Supervisors, Receipts, Ids, Ending, Reattaches,
       Recover, Kept, gateway, NoGateway
  <2> QED
    BY <1>32, <2>1, <2>2, <2>3
    DEF IInv, TypeOK, Recover, NoOp, ReleaseOrTransfer, Moved, Closed, Kept,
       gateway
<1>33. CASE UNCHANGED vars
  BY <1>33 DEF IInv, TypeOK, Ids, Pcs, Receipts, Supervisors, Operations, vars
<1> QED
  BY <1>1, <1>2, <1>3, <1>4, <1>5, <1>6, <1>7, <1>8, <1>9, <1>10, <1>11, <1>12,
     <1>13, <1>14, <1>15, <1>16, <1>17, <1>18, <1>19, <1>20, <1>21, <1>22,
     <1>23, <1>24, <1>25, <1>26, <1>27, <1>28, <1>29, <1>30, <1>31, <1>32,
     <1>33
  DEF Next, Supervisor, Owner

(* A process that ends takes its hold and its connections with it, and     *)
(* nothing is taken from a process that is down.                           *)
LEMMA DownStep ==
  ASSUME IInv, [Next]_vars PROVE Down'
<1>1. ASSUME NEW i \in Sup, Launch(i) PROVE Down'
  BY <1>1
  DEF IInv, Down, TypeOK, Ids, Pcs, Receipts, Supervisors, Operations, Launch,
     NoGateway, Kept, gateway
<1>2. ASSUME NEW i \in Sup, Start(i) PROVE Down'
  BY <1>2
  DEF IInv, Down, TypeOK, Ids, Pcs, Receipts, Supervisors, Operations, Start,
     NoGateway, Kept, gateway, Off
<1>3. CASE PrepareAlone
  BY <1>3
  DEF IInv, Down, TypeOK, Ids, Pcs, Receipts, Supervisors, Operations,
     PrepareAlone, Goto, NoGateway, Kept, gateway
<1>4. CASE PrepareRefused
  BY <1>4
  DEF IInv, Down, TypeOK, Ids, Pcs, Receipts, Supervisors, Operations,
     PrepareRefused, Prepared, Finish, Off, NoGateway, Kept, gateway
<1>5. CASE PrepareAsks
  BY <1>5
  DEF IInv, Down, TypeOK, Ids, Pcs, Receipts, Supervisors, Operations,
     PrepareAsks, Prepared, Hold, Announced, Kept, gateway
<1>6. CASE PrepareDrained
  BY <1>6
  DEF IInv, Down, TypeOK, Ids, Pcs, Receipts, Supervisors, Operations,
     PrepareDrained, NoGateway, Kept, gateway
<1>7. CASE PrepareFails
  BY <1>7
  DEF IInv, Down, TypeOK, Ids, Pcs, Receipts, Supervisors, Operations,
     PrepareFails, Finish, Off, ReleaseOrTransfer, Moved, Closed, Kept, gateway
<1>8. CASE MarkPrepared
  BY <1>8
  DEF IInv, Down, TypeOK, Ids, Pcs, Receipts, Supervisors, Operations,
     MarkPrepared, Goto, NoGateway, Kept, gateway
<1>9. CASE Skip
  BY <1>9
  DEF IInv, Down, TypeOK, Ids, Pcs, Receipts, Supervisors, Operations, Skip,
     After, Steps, NoGateway, Kept, gateway
<1>10. CASE Issue
  BY <1>10
  DEF IInv, Down, TypeOK, Ids, Pcs, Receipts, Supervisors, Operations, Issue,
     StillHeld, Prepared, NoOp, Goto, NoGateway, Kept, gateway
<1>11. CASE NotIssued
  BY <1>11
  DEF IInv, Down, TypeOK, Ids, Pcs, Receipts, Supervisors, Operations,
     NotIssued, Failed, Goto, NoGateway, Kept, gateway
<1>12. CASE CommandOk
  BY <1>12
  DEF IInv, Down, TypeOK, Ids, Pcs, Receipts, Supervisors, Operations,
     CommandOk, NoOp, After, Steps, NoGateway, Kept, gateway
<1>13. CASE CommandFails
  BY <1>13
  DEF IInv, Down, TypeOK, Ids, Pcs, Receipts, Supervisors, Operations,
     CommandFails, NoOp, Failed, Goto, NoGateway, Kept, gateway
<1>14. CASE CommandTimesOut
  BY <1>14
  DEF IInv, Down, TypeOK, Ids, Pcs, Receipts, Supervisors, Operations,
     CommandTimesOut, Goto, NoGateway, Kept, gateway
<1>15. CASE ReleaseKeeps
  BY <1>15
  DEF IInv, Down, TypeOK, Ids, Pcs, Receipts, Supervisors, Operations,
     ReleaseKeeps, Ending, Finish, Final, Off, Close, ReleaseOrTransfer,
     KeepsDrain, Moved, Closed, Kept, gateway
<1>16. CASE ReleaseCancels
  BY <1>16
  DEF IInv, Down, TypeOK, Ids, Pcs, Receipts, Supervisors, Operations,
     ReleaseCancels, Ending, Finish, Final, Off, Confirmed, Reattaches,
     ReleaseOrTransfer, Moved, Closed, Kept, gateway
<1>17. CASE ReattachAsks
  BY <1>17
  DEF IInv, Down, TypeOK, Ids, Pcs, Receipts, Supervisors, Operations,
     ReattachAsks, Ending, Reattaches, Prepared, Hold, Announced, Kept, gateway
<1>18. CASE ReattachRefused
  BY <1>18
  DEF IInv, Down, TypeOK, Ids, Pcs, Receipts, Supervisors, Operations,
     ReattachRefused, Ending, Reattaches, Finish, Off, NoGateway, Kept, gateway
<1>19. CASE ReattachDrained
  BY <1>19
  DEF IInv, Down, TypeOK, Ids, Pcs, Receipts, Supervisors, Operations,
     ReattachDrained, Finish, Final, Off, Confirmed, ReleaseOrTransfer, Moved,
     Closed, Kept, gateway
<1>20. CASE ReattachFails
  BY <1>20
  DEF IInv, Down, TypeOK, Ids, Pcs, Receipts, Supervisors, Operations,
     ReattachFails, Finish, Off, Kept, gateway
<1>21. CASE SupervisorDies
  BY <1>21
  DEF IInv, Down, TypeOK, Ids, Pcs, Receipts, Supervisors, Operations,
     SupervisorDies, Off, Close, ReleaseOrTransfer, KeepsDrain, Moved, Closed,
     Kept, gateway
<1>22. CASE OwnerAsks
  BY <1>22
  DEF IInv, Down, TypeOK, Ids, Pcs, Receipts, Supervisors, Operations,
     OwnerAsks, NoSupervisor
<1>23. CASE OwnerSupersedes
  BY <1>23
  DEF IInv, Down, TypeOK, Ids, Pcs, Receipts, Supervisors, Operations,
     OwnerSupersedes, NoSupervisor, Kept, gateway
<1>24. CASE OwnerHolds
  BY <1>24
  DEF IInv, Down, TypeOK, Ids, Pcs, Receipts, Supervisors, Operations,
     OwnerHolds, Hold, Announced, NoSupervisor, Kept, gateway
<1>25. CASE OwnerGivesUp
  BY <1>25
  DEF IInv, Down, TypeOK, Ids, Pcs, Receipts, Supervisors, Operations,
     OwnerGivesUp, NoSupervisor, Kept, gateway
<1>26. CASE OwnerTimesOut
  BY <1>26
  DEF IInv, Down, TypeOK, Ids, Pcs, Receipts, Supervisors, Operations,
     OwnerTimesOut, Closed, NoSupervisor, Kept, gateway
<1>27. CASE Stop
  BY <1>27
  DEF IInv, Down, TypeOK, Ids, Pcs, Receipts, Supervisors, Operations, Stop
<1>28. CASE Boot
  BY <1>28
  DEF IInv, Down, TypeOK, Ids, Pcs, Receipts, Supervisors, Operations, Boot,
     PersistedDrain, NoteBoot
<1>29. CASE SettlesLate
  BY <1>29
  DEF IInv, Down, TypeOK, Ids, Pcs, Receipts, Supervisors, Operations,
     SettlesLate, NoOp, NoGateway, Kept, gateway
<1>30. CASE Dispatch
  BY <1>30
  DEF IInv, Down, TypeOK, Ids, Pcs, Receipts, Supervisors, Operations,
     Dispatch, Kept, gateway
<1>31. CASE Settled
  BY <1>31
  DEF IInv, Down, TypeOK, Ids, Pcs, Receipts, Supervisors, Operations, Settled,
     Kept, gateway
<1>32. CASE Recover
  BY <1>32
  DEF IInv, Down, TypeOK, Ids, Pcs, Receipts, Supervisors, Operations, Recover,
     NoOp, ReleaseOrTransfer, Moved, Closed, Kept, gateway
<1>33. CASE UNCHANGED vars
  BY <1>33
  DEF IInv, Down, TypeOK, Ids, Pcs, Receipts, Supervisors, Operations, vars
<1> QED
  BY <1>1, <1>2, <1>3, <1>4, <1>5, <1>6, <1>7, <1>8, <1>9, <1>10, <1>11, <1>12,
     <1>13, <1>14, <1>15, <1>16, <1>17, <1>18, <1>19, <1>20, <1>21, <1>22,
     <1>23, <1>24, <1>25, <1>26, <1>27, <1>28, <1>29, <1>30, <1>31, <1>32,
     <1>33
  DEF Next, Supervisor, Owner

(* While an owner restart drains no one else may take or release a hold.   *)
LEMMA OwnerStep ==
  ASSUME IInv, [Next]_vars PROVE OwnerHas'
<1>1. CASE NoGateway
  BY <1>1
  DEF IInv, Down, OwnerHas, TypeOK, Ids, Receipts, Supervisors, NoGateway,
     Kept, gateway
<1>2. CASE PrepareAsks
  BY <1>2
  DEF IInv, Down, OwnerHas, TypeOK, Ids, Receipts, Supervisors, PrepareAsks,
     Prepared, Hold, Announced, Kept, gateway
<1>3. CASE PrepareFails
  BY <1>3
  DEF IInv, Down, OwnerHas, TypeOK, Ids, Receipts, Supervisors, PrepareFails,
     Finish, Off, ReleaseOrTransfer, Moved, Closed, Kept, gateway
<1>4. CASE ReleaseKeeps
  BY <1>4
  DEF IInv, Down, OwnerHas, TypeOK, Ids, Receipts, Supervisors, ReleaseKeeps,
     Ending, Finish, Final, Off, Close, ReleaseOrTransfer, KeepsDrain, Moved,
     Closed, Kept, gateway
<1>5. CASE ReleaseCancels
  BY <1>5
  DEF IInv, Down, OwnerHas, TypeOK, Ids, Receipts, Supervisors, ReleaseCancels,
     Ending, Finish, Final, Off, Confirmed, Reattaches, ReleaseOrTransfer,
     Moved, Closed, Kept, gateway
<1>6. CASE ReattachAsks
  BY <1>6
  DEF IInv, Down, OwnerHas, TypeOK, Ids, Receipts, Supervisors, ReattachAsks,
     Ending, Reattaches, Prepared, Hold, Announced, Kept, gateway
<1>7. CASE ReattachDrained
  BY <1>7
  DEF IInv, Down, OwnerHas, TypeOK, Ids, Receipts, Supervisors,
     ReattachDrained, Finish, Final, Off, Confirmed, ReleaseOrTransfer, Moved,
     Closed, Kept, gateway
<1>8. CASE ReattachFails
  BY <1>8
  DEF IInv, Down, OwnerHas, TypeOK, Ids, Receipts, Supervisors, ReattachFails,
     Finish, Off, Kept, gateway
<1>9. CASE SupervisorDies
  BY <1>9
  DEF IInv, Down, OwnerHas, TypeOK, Ids, Receipts, Supervisors, SupervisorDies,
     Off, Close, ReleaseOrTransfer, KeepsDrain, Moved, Closed, Kept, gateway
<1>10. CASE OwnerAsks
  BY <1>10
  DEF IInv, Down, OwnerHas, TypeOK, Ids, Receipts, Supervisors, OwnerAsks,
     NoSupervisor
<1>11. CASE OwnerSupersedes
  BY <1>11
  DEF IInv, Down, OwnerHas, TypeOK, Ids, Receipts, Supervisors,
     OwnerSupersedes, NoSupervisor, Kept, gateway
<1>12. CASE OwnerHolds
  BY <1>12
  DEF IInv, Down, OwnerHas, TypeOK, Ids, Receipts, Supervisors, OwnerHolds,
     Hold, Announced, NoSupervisor, Kept, gateway
<1>13. CASE OwnerGivesUp
  BY <1>13
  DEF IInv, Down, OwnerHas, TypeOK, Ids, Receipts, Supervisors, OwnerGivesUp,
     NoSupervisor, Kept, gateway
<1>14. CASE OwnerTimesOut
  BY <1>14
  DEF IInv, Down, OwnerHas, TypeOK, Ids, Receipts, Supervisors, OwnerTimesOut,
     Closed, NoSupervisor, Kept, gateway
<1>15. CASE Stop
  BY <1>15 DEF IInv, Down, OwnerHas, TypeOK, Ids, Receipts, Supervisors, Stop
<1>16. CASE Boot
  BY <1>16
  DEF IInv, Down, OwnerHas, TypeOK, Ids, Receipts, Supervisors, Boot,
     PersistedDrain, NoteBoot
<1>17. CASE Dispatch
  BY <1>17
  DEF IInv, Down, OwnerHas, TypeOK, Ids, Receipts, Supervisors, Dispatch, Kept,
     gateway
<1>18. CASE Settled
  BY <1>18
  DEF IInv, Down, OwnerHas, TypeOK, Ids, Receipts, Supervisors, Settled, Kept,
     gateway
<1>19. CASE Recover
  BY <1>19
  DEF IInv, Down, OwnerHas, TypeOK, Ids, Receipts, Supervisors, Recover, NoOp,
     ReleaseOrTransfer, Moved, Closed, Kept, gateway
<1>20. CASE UNCHANGED vars
  BY <1>20 DEF IInv, Down, OwnerHas, TypeOK, Ids, Receipts, Supervisors, vars
<1> QED
  BY <1>1, <1>2, <1>3, <1>4, <1>5, <1>6, <1>7, <1>8, <1>9, <1>10, <1>11, <1>12,
     <1>13, <1>14, <1>15, <1>16, <1>17, <1>18, <1>19, <1>20
  DEF Next, Supervisor, Owner, Launch, Start, PrepareAlone, PrepareRefused,
     PrepareDrained, MarkPrepared, Skip, Issue, NotIssued, CommandOk,
     CommandFails, CommandTimesOut, ReattachRefused, SettlesLate

(* Only one worker has the update lease, and it writes the receipt first.  *)
LEMMA LeaseStep ==
  ASSUME IInv, [Next]_vars PROVE Lease'
<1>1. ASSUME NEW i \in Sup, Launch(i) PROVE Lease'
  BY <1>1
  DEF IInv, Lease, TypeOK, Ids, Pcs, Receipts, Supervisors, Operations, Launch,
     NoGateway, Kept, gateway
<1>2. ASSUME NEW i \in Sup, Start(i) PROVE Lease'
  BY <1>2
  DEF IInv, Lease, TypeOK, Ids, Pcs, Receipts, Supervisors, Operations, Start,
     NoGateway, Kept, gateway, Off
<1>3. CASE PrepareAlone
  BY <1>3
  DEF IInv, Lease, TypeOK, Ids, Pcs, Receipts, Supervisors, Operations,
     PrepareAlone, Goto, NoGateway, Kept, gateway
<1>4. CASE PrepareRefused
  BY <1>4
  DEF IInv, Lease, TypeOK, Ids, Pcs, Receipts, Supervisors, Operations,
     PrepareRefused, Prepared, Finish, Off, NoGateway, Kept, gateway
<1>5. CASE PrepareAsks
  BY <1>5
  DEF IInv, Lease, TypeOK, Ids, Pcs, Receipts, Supervisors, Operations,
     PrepareAsks, Prepared, Hold, Announced, Kept, gateway
<1>6. CASE PrepareDrained
  BY <1>6
  DEF IInv, Lease, TypeOK, Ids, Pcs, Receipts, Supervisors, Operations,
     PrepareDrained, NoGateway, Kept, gateway
<1>7. CASE PrepareFails
  BY <1>7
  DEF IInv, Lease, TypeOK, Ids, Pcs, Receipts, Supervisors, Operations,
     PrepareFails, Finish, Off, ReleaseOrTransfer, Moved, Closed, Kept, gateway
<1>8. CASE MarkPrepared
  BY <1>8
  DEF IInv, Lease, TypeOK, Ids, Pcs, Receipts, Supervisors, Operations,
     MarkPrepared, Goto, NoGateway, Kept, gateway
<1>9. CASE Skip
  BY <1>9
  DEF IInv, Lease, TypeOK, Ids, Pcs, Receipts, Supervisors, Operations, Skip,
     After, Steps, NoGateway, Kept, gateway
<1>10. CASE Issue
  BY <1>10
  DEF IInv, Lease, TypeOK, Ids, Pcs, Receipts, Supervisors, Operations, Issue,
     StillHeld, Prepared, NoOp, Goto, NoGateway, Kept, gateway
<1>11. CASE NotIssued
  BY <1>11
  DEF IInv, Lease, TypeOK, Ids, Pcs, Receipts, Supervisors, Operations,
     NotIssued, Failed, Goto, NoGateway, Kept, gateway
<1>12. CASE CommandOk
  BY <1>12
  DEF IInv, Lease, TypeOK, Ids, Pcs, Receipts, Supervisors, Operations,
     CommandOk, NoOp, After, Steps, NoGateway, Kept, gateway
<1>13. CASE CommandFails
  BY <1>13
  DEF IInv, Lease, TypeOK, Ids, Pcs, Receipts, Supervisors, Operations,
     CommandFails, NoOp, Failed, Goto, NoGateway, Kept, gateway
<1>14. CASE CommandTimesOut
  BY <1>14
  DEF IInv, Lease, TypeOK, Ids, Pcs, Receipts, Supervisors, Operations,
     CommandTimesOut, Goto, NoGateway, Kept, gateway
<1>15. CASE ReleaseKeeps
  BY <1>15
  DEF IInv, Lease, TypeOK, Ids, Pcs, Receipts, Supervisors, Operations,
     ReleaseKeeps, Ending, Finish, Final, Off, Close, ReleaseOrTransfer,
     KeepsDrain, Moved, Closed, Kept, gateway
<1>16. CASE ReleaseCancels
  BY <1>16
  DEF IInv, Lease, TypeOK, Ids, Pcs, Receipts, Supervisors, Operations,
     ReleaseCancels, Ending, Finish, Final, Off, Confirmed, Reattaches,
     ReleaseOrTransfer, Moved, Closed, Kept, gateway
<1>17. CASE ReattachAsks
  BY <1>17
  DEF IInv, Lease, TypeOK, Ids, Pcs, Receipts, Supervisors, Operations,
     ReattachAsks, Ending, Reattaches, Prepared, Hold, Announced, Kept, gateway
<1>18. CASE ReattachRefused
  BY <1>18
  DEF IInv, Lease, TypeOK, Ids, Pcs, Receipts, Supervisors, Operations,
     ReattachRefused, Ending, Reattaches, Finish, Off, NoGateway, Kept, gateway
<1>19. CASE ReattachDrained
  BY <1>19
  DEF IInv, Lease, TypeOK, Ids, Pcs, Receipts, Supervisors, Operations,
     ReattachDrained, Finish, Final, Off, Confirmed, ReleaseOrTransfer, Moved,
     Closed, Kept, gateway
<1>20. CASE ReattachFails
  BY <1>20
  DEF IInv, Lease, TypeOK, Ids, Pcs, Receipts, Supervisors, Operations,
     ReattachFails, Finish, Off, Kept, gateway
<1>21. CASE SupervisorDies
  BY <1>21
  DEF IInv, Lease, TypeOK, Ids, Pcs, Receipts, Supervisors, Operations,
     SupervisorDies, Off, Close, ReleaseOrTransfer, KeepsDrain, Moved, Closed,
     Kept, gateway
<1>22. CASE OwnerAsks
  BY <1>22
  DEF IInv, Lease, TypeOK, Ids, Pcs, Receipts, Supervisors, Operations,
     OwnerAsks, NoSupervisor
<1>23. CASE OwnerSupersedes
  BY <1>23
  DEF IInv, Lease, TypeOK, Ids, Pcs, Receipts, Supervisors, Operations,
     OwnerSupersedes, NoSupervisor, Kept, gateway
<1>24. CASE OwnerHolds
  BY <1>24
  DEF IInv, Lease, TypeOK, Ids, Pcs, Receipts, Supervisors, Operations,
     OwnerHolds, Hold, Announced, NoSupervisor, Kept, gateway
<1>25. CASE OwnerGivesUp
  BY <1>25
  DEF IInv, Lease, TypeOK, Ids, Pcs, Receipts, Supervisors, Operations,
     OwnerGivesUp, NoSupervisor, Kept, gateway
<1>26. CASE OwnerTimesOut
  BY <1>26
  DEF IInv, Lease, TypeOK, Ids, Pcs, Receipts, Supervisors, Operations,
     OwnerTimesOut, Closed, NoSupervisor, Kept, gateway
<1>27. CASE Stop
  BY <1>27
  DEF IInv, Lease, TypeOK, Ids, Pcs, Receipts, Supervisors, Operations, Stop
<1>28. CASE Boot
  BY <1>28
  DEF IInv, Lease, TypeOK, Ids, Pcs, Receipts, Supervisors, Operations, Boot,
     PersistedDrain, NoteBoot
<1>29. CASE SettlesLate
  BY <1>29
  DEF IInv, Lease, TypeOK, Ids, Pcs, Receipts, Supervisors, Operations,
     SettlesLate, NoOp, NoGateway, Kept, gateway
<1>30. CASE Dispatch
  BY <1>30
  DEF IInv, Lease, TypeOK, Ids, Pcs, Receipts, Supervisors, Operations,
     Dispatch, Kept, gateway
<1>31. CASE Settled
  BY <1>31
  DEF IInv, Lease, TypeOK, Ids, Pcs, Receipts, Supervisors, Operations,
     Settled, Kept, gateway
<1>32. CASE Recover
  BY <1>32
  DEF IInv, Lease, TypeOK, Ids, Pcs, Receipts, Supervisors, Operations,
     Recover, NoOp, ReleaseOrTransfer, Moved, Closed, Kept, gateway
<1>33. CASE UNCHANGED vars
  BY <1>33
  DEF IInv, Lease, TypeOK, Ids, Pcs, Receipts, Supervisors, Operations, vars
<1> QED
  BY <1>1, <1>2, <1>3, <1>4, <1>5, <1>6, <1>7, <1>8, <1>9, <1>10, <1>11, <1>12,
     <1>13, <1>14, <1>15, <1>16, <1>17, <1>18, <1>19, <1>20, <1>21, <1>22,
     <1>23, <1>24, <1>25, <1>26, <1>27, <1>28, <1>29, <1>30, <1>31, <1>32,
     <1>33
  DEF Next, Supervisor, Owner

(* The next process inherits the hold of a receipt that is running and     *)
(* prepared; no connection closes on it before the supervisor ends.        *)
LEMMA CarriedStep ==
  ASSUME IInv, [Next]_vars PROVE Carried'
<1>1. ASSUME NEW i \in Sup, Launch(i) PROVE Carried'
  BY <1>1
  DEF IInv, Down, OwnerHas, Lease, Carried, Flight, TypeOK, Ids, Pcs, Receipts,
     Supervisors, Operations, Launch, NoGateway, Kept, gateway
<1>2. ASSUME NEW i \in Sup, Start(i) PROVE Carried'
  BY <1>2
  DEF IInv, Down, OwnerHas, Lease, Carried, Flight, TypeOK, Ids, Pcs, Receipts,
     Supervisors, Operations, Start, NoGateway, Kept, gateway, Off
<1>3. CASE PrepareAlone
  BY <1>3
  DEF IInv, Down, OwnerHas, Lease, Carried, Flight, TypeOK, Ids, Pcs, Receipts,
     Supervisors, Operations, PrepareAlone, Goto, NoGateway, Kept, gateway
<1>4. CASE PrepareRefused
  BY <1>4
  DEF IInv, Down, OwnerHas, Lease, Carried, Flight, TypeOK, Ids, Pcs, Receipts,
     Supervisors, Operations, PrepareRefused, Prepared, Finish, Off, NoGateway,
     Kept, gateway
<1>5. CASE PrepareAsks
  BY <1>5
  DEF IInv, Down, OwnerHas, Lease, Carried, Flight, TypeOK, Ids, Pcs, Receipts,
     Supervisors, Operations, PrepareAsks, Prepared, Hold, Announced, Kept,
     gateway
<1>6. CASE PrepareDrained
  BY <1>6
  DEF IInv, Down, OwnerHas, Lease, Carried, Flight, TypeOK, Ids, Pcs, Receipts,
     Supervisors, Operations, PrepareDrained, NoGateway, Kept, gateway
<1>7. CASE PrepareFails
  BY <1>7
  DEF IInv, Down, OwnerHas, Lease, Carried, Flight, TypeOK, Ids, Pcs, Receipts,
     Supervisors, Operations, PrepareFails, Finish, Off, ReleaseOrTransfer,
     Moved, Closed, Kept, gateway
<1>8. CASE MarkPrepared
  BY <1>8
  DEF IInv, Down, OwnerHas, Lease, Carried, Flight, TypeOK, Ids, Pcs, Receipts,
     Supervisors, Operations, MarkPrepared, Goto, NoGateway, Kept, gateway
<1>9. CASE Skip
  BY <1>9
  DEF IInv, Down, OwnerHas, Lease, Carried, Flight, TypeOK, Ids, Pcs, Receipts,
     Supervisors, Operations, Skip, After, Steps, NoGateway, Kept, gateway
<1>10. CASE Issue
  BY <1>10
  DEF IInv, Down, OwnerHas, Lease, Carried, Flight, TypeOK, Ids, Pcs, Receipts,
     Supervisors, Operations, Issue, StillHeld, Prepared, NoOp, Goto,
     NoGateway, Kept, gateway
<1>11. CASE NotIssued
  BY <1>11
  DEF IInv, Down, OwnerHas, Lease, Carried, Flight, TypeOK, Ids, Pcs, Receipts,
     Supervisors, Operations, NotIssued, Failed, Goto, NoGateway, Kept, gateway
<1>12. CASE CommandOk
  BY <1>12
  DEF IInv, Down, OwnerHas, Lease, Carried, Flight, TypeOK, Ids, Pcs, Receipts,
     Supervisors, Operations, CommandOk, NoOp, After, Steps, NoGateway, Kept,
     gateway
<1>13. CASE CommandFails
  BY <1>13
  DEF IInv, Down, OwnerHas, Lease, Carried, Flight, TypeOK, Ids, Pcs, Receipts,
     Supervisors, Operations, CommandFails, NoOp, Failed, Goto, NoGateway,
     Kept, gateway
<1>14. CASE CommandTimesOut
  BY <1>14
  DEF IInv, Down, OwnerHas, Lease, Carried, Flight, TypeOK, Ids, Pcs, Receipts,
     Supervisors, Operations, CommandTimesOut, Goto, NoGateway, Kept, gateway
<1>15. CASE ReleaseKeeps
  BY <1>15
  DEF IInv, Down, OwnerHas, Lease, Carried, Flight, TypeOK, Ids, Pcs, Receipts,
     Supervisors, Operations, ReleaseKeeps, Ending, Finish, Final, Off, Close,
     ReleaseOrTransfer, KeepsDrain, Moved, Closed, Kept, gateway
<1>16. CASE ReleaseCancels
  BY <1>16
  DEF IInv, Down, OwnerHas, Lease, Carried, Flight, TypeOK, Ids, Pcs, Receipts,
     Supervisors, Operations, ReleaseCancels, Ending, Finish, Final, Off,
     Confirmed, Reattaches, ReleaseOrTransfer, Moved, Closed, Kept, gateway
<1>17. CASE ReattachAsks
  BY <1>17
  DEF IInv, Down, OwnerHas, Lease, Carried, Flight, TypeOK, Ids, Pcs, Receipts,
     Supervisors, Operations, ReattachAsks, Ending, Reattaches, Prepared, Hold,
     Announced, Kept, gateway
<1>18. CASE ReattachRefused
  BY <1>18
  DEF IInv, Down, OwnerHas, Lease, Carried, Flight, TypeOK, Ids, Pcs, Receipts,
     Supervisors, Operations, ReattachRefused, Ending, Reattaches, Finish, Off,
     NoGateway, Kept, gateway
<1>19. CASE ReattachDrained
  BY <1>19
  DEF IInv, Down, OwnerHas, Lease, Carried, Flight, TypeOK, Ids, Pcs, Receipts,
     Supervisors, Operations, ReattachDrained, Finish, Final, Off, Confirmed,
     ReleaseOrTransfer, Moved, Closed, Kept, gateway
<1>20. CASE ReattachFails
  BY <1>20
  DEF IInv, Down, OwnerHas, Lease, Carried, Flight, TypeOK, Ids, Pcs, Receipts,
     Supervisors, Operations, ReattachFails, Finish, Off, Kept, gateway
<1>21. CASE SupervisorDies
  BY <1>21
  DEF IInv, Down, OwnerHas, Lease, Carried, Flight, TypeOK, Ids, Pcs, Receipts,
     Supervisors, Operations, SupervisorDies, Off, Close, ReleaseOrTransfer,
     KeepsDrain, Moved, Closed, Kept, gateway
<1>22. CASE OwnerAsks
  BY <1>22
  DEF IInv, Down, OwnerHas, Lease, Carried, Flight, TypeOK, Ids, Pcs, Receipts,
     Supervisors, Operations, OwnerAsks, NoSupervisor
<1>23. CASE OwnerSupersedes
  BY <1>23
  DEF IInv, Down, OwnerHas, Lease, Carried, Flight, TypeOK, Ids, Pcs, Receipts,
     Supervisors, Operations, OwnerSupersedes, NoSupervisor, Kept, gateway
<1>24. CASE OwnerHolds
  BY <1>24
  DEF IInv, Down, OwnerHas, Lease, Carried, Flight, TypeOK, Ids, Pcs, Receipts,
     Supervisors, Operations, OwnerHolds, Hold, Announced, NoSupervisor, Kept,
     gateway
<1>25. CASE OwnerGivesUp
  BY <1>25
  DEF IInv, Down, OwnerHas, Lease, Carried, Flight, TypeOK, Ids, Pcs, Receipts,
     Supervisors, Operations, OwnerGivesUp, NoSupervisor, Kept, gateway
<1>26. CASE OwnerTimesOut
  BY <1>26
  DEF IInv, Down, OwnerHas, Lease, Carried, Flight, TypeOK, Ids, Pcs, Receipts,
     Supervisors, Operations, OwnerTimesOut, Closed, NoSupervisor, Kept,
     gateway
<1>27. CASE Stop
  BY <1>27
  DEF IInv, Down, OwnerHas, Lease, Carried, Flight, TypeOK, Ids, Pcs, Receipts,
     Supervisors, Operations, Stop
<1>28. CASE Boot
  BY <1>28
  DEF IInv, Down, OwnerHas, Lease, Carried, Flight, TypeOK, Ids, Pcs, Receipts,
     Supervisors, Operations, Boot, PersistedDrain, NoteBoot
<1>29. CASE SettlesLate
  BY <1>29
  DEF IInv, Down, OwnerHas, Lease, Carried, Flight, TypeOK, Ids, Pcs, Receipts,
     Supervisors, Operations, SettlesLate, NoOp, NoGateway, Kept, gateway
<1>30. CASE Dispatch
  BY <1>30
  DEF IInv, Down, OwnerHas, Lease, Carried, Flight, TypeOK, Ids, Pcs, Receipts,
     Supervisors, Operations, Dispatch, Kept, gateway
<1>31. CASE Settled
  BY <1>31
  DEF IInv, Down, OwnerHas, Lease, Carried, Flight, TypeOK, Ids, Pcs, Receipts,
     Supervisors, Operations, Settled, Kept, gateway
<1>32. CASE Recover
  BY <1>32
  DEF IInv, Down, OwnerHas, Lease, Carried, Flight, TypeOK, Ids, Pcs, Receipts,
     Supervisors, Operations, Recover, NoOp, ReleaseOrTransfer, Moved, Closed,
     Kept, gateway
<1>33. CASE UNCHANGED vars
  BY <1>33
  DEF IInv, Down, OwnerHas, Lease, Carried, Flight, TypeOK, Ids, Pcs, Receipts,
     Supervisors, Operations, vars
<1> QED
  BY <1>1, <1>2, <1>3, <1>4, <1>5, <1>6, <1>7, <1>8, <1>9, <1>10, <1>11, <1>12,
     <1>13, <1>14, <1>15, <1>16, <1>17, <1>18, <1>19, <1>20, <1>21, <1>22,
     <1>23, <1>24, <1>25, <1>26, <1>27, <1>28, <1>29, <1>30, <1>31, <1>32,
     <1>33
  DEF Next, Supervisor, Owner

(* An operation is issued under a confirmed hold, and is either settled    *)
(* when its supervisor goes on or left with an indeterminate receipt.      *)
LEMMA FlightStep ==
  ASSUME IInv, [Next]_vars PROVE Flight'
<1>1. ASSUME NEW i \in Sup, Launch(i) PROVE Flight'
  BY <1>1
  DEF IInv, Down, OwnerHas, Lease, Carried, Flight, TypeOK, Ids, Pcs, Receipts,
     Supervisors, Operations, Launch, NoGateway, Kept, gateway
<1>2. ASSUME NEW i \in Sup, Start(i) PROVE Flight'
  BY <1>2
  DEF IInv, Down, OwnerHas, Lease, Carried, Flight, TypeOK, Ids, Pcs, Receipts,
     Supervisors, Operations, Start, NoGateway, Kept, gateway, Off
<1>3. CASE PrepareAlone
  BY <1>3
  DEF IInv, Down, OwnerHas, Lease, Carried, Flight, TypeOK, Ids, Pcs, Receipts,
     Supervisors, Operations, PrepareAlone, Goto, NoGateway, Kept, gateway
<1>4. CASE PrepareRefused
  BY <1>4
  DEF IInv, Down, OwnerHas, Lease, Carried, Flight, TypeOK, Ids, Pcs, Receipts,
     Supervisors, Operations, PrepareRefused, Prepared, Finish, Off, NoGateway,
     Kept, gateway
<1>5. CASE PrepareAsks
  BY <1>5
  DEF IInv, Down, OwnerHas, Lease, Carried, Flight, TypeOK, Ids, Pcs, Receipts,
     Supervisors, Operations, PrepareAsks, Prepared, Hold, Announced, Kept,
     gateway
<1>6. CASE PrepareDrained
  BY <1>6
  DEF IInv, Down, OwnerHas, Lease, Carried, Flight, TypeOK, Ids, Pcs, Receipts,
     Supervisors, Operations, PrepareDrained, NoGateway, Kept, gateway
<1>7. CASE PrepareFails
  BY <1>7
  DEF IInv, Down, OwnerHas, Lease, Carried, Flight, TypeOK, Ids, Pcs, Receipts,
     Supervisors, Operations, PrepareFails, Finish, Off, ReleaseOrTransfer,
     Moved, Closed, Kept, gateway
<1>8. CASE MarkPrepared
  BY <1>8
  DEF IInv, Down, OwnerHas, Lease, Carried, Flight, TypeOK, Ids, Pcs, Receipts,
     Supervisors, Operations, MarkPrepared, Goto, NoGateway, Kept, gateway
<1>9. CASE Skip
  BY <1>9
  DEF IInv, Down, OwnerHas, Lease, Carried, Flight, TypeOK, Ids, Pcs, Receipts,
     Supervisors, Operations, Skip, After, Steps, NoGateway, Kept, gateway
<1>10. CASE Issue
  BY <1>10
  DEF IInv, Down, OwnerHas, Lease, Carried, Flight, TypeOK, Ids, Pcs, Receipts,
     Supervisors, Operations, Issue, StillHeld, Prepared, NoOp, Goto,
     NoGateway, Kept, gateway
<1>11. CASE NotIssued
  BY <1>11
  DEF IInv, Down, OwnerHas, Lease, Carried, Flight, TypeOK, Ids, Pcs, Receipts,
     Supervisors, Operations, NotIssued, Failed, Goto, NoGateway, Kept, gateway
<1>12. CASE CommandOk
  BY <1>12
  DEF IInv, Down, OwnerHas, Lease, Carried, Flight, TypeOK, Ids, Pcs, Receipts,
     Supervisors, Operations, CommandOk, NoOp, After, Steps, NoGateway, Kept,
     gateway
<1>13. CASE CommandFails
  BY <1>13
  DEF IInv, Down, OwnerHas, Lease, Carried, Flight, TypeOK, Ids, Pcs, Receipts,
     Supervisors, Operations, CommandFails, NoOp, Failed, Goto, NoGateway,
     Kept, gateway
<1>14. CASE CommandTimesOut
  BY <1>14
  DEF IInv, Down, OwnerHas, Lease, Carried, Flight, TypeOK, Ids, Pcs, Receipts,
     Supervisors, Operations, CommandTimesOut, Goto, NoGateway, Kept, gateway
<1>15. CASE ReleaseKeeps
  BY <1>15
  DEF IInv, Down, OwnerHas, Lease, Carried, Flight, TypeOK, Ids, Pcs, Receipts,
     Supervisors, Operations, ReleaseKeeps, Ending, Finish, Final, Off, Close,
     ReleaseOrTransfer, KeepsDrain, Moved, Closed, Kept, gateway
<1>16. CASE ReleaseCancels
  BY <1>16
  DEF IInv, Down, OwnerHas, Lease, Carried, Flight, TypeOK, Ids, Pcs, Receipts,
     Supervisors, Operations, ReleaseCancels, Ending, Finish, Final, Off,
     Confirmed, Reattaches, ReleaseOrTransfer, Moved, Closed, Kept, gateway
<1>17. CASE ReattachAsks
  BY <1>17
  DEF IInv, Down, OwnerHas, Lease, Carried, Flight, TypeOK, Ids, Pcs, Receipts,
     Supervisors, Operations, ReattachAsks, Ending, Reattaches, Prepared, Hold,
     Announced, Kept, gateway
<1>18. CASE ReattachRefused
  BY <1>18
  DEF IInv, Down, OwnerHas, Lease, Carried, Flight, TypeOK, Ids, Pcs, Receipts,
     Supervisors, Operations, ReattachRefused, Ending, Reattaches, Finish, Off,
     NoGateway, Kept, gateway
<1>19. CASE ReattachDrained
  BY <1>19
  DEF IInv, Down, OwnerHas, Lease, Carried, Flight, TypeOK, Ids, Pcs, Receipts,
     Supervisors, Operations, ReattachDrained, Finish, Final, Off, Confirmed,
     ReleaseOrTransfer, Moved, Closed, Kept, gateway
<1>20. CASE ReattachFails
  BY <1>20
  DEF IInv, Down, OwnerHas, Lease, Carried, Flight, TypeOK, Ids, Pcs, Receipts,
     Supervisors, Operations, ReattachFails, Finish, Off, Kept, gateway
<1>21. CASE SupervisorDies
  BY <1>21
  DEF IInv, Down, OwnerHas, Lease, Carried, Flight, TypeOK, Ids, Pcs, Receipts,
     Supervisors, Operations, SupervisorDies, Off, Close, ReleaseOrTransfer,
     KeepsDrain, Moved, Closed, Kept, gateway
<1>22. CASE OwnerAsks
  BY <1>22
  DEF IInv, Down, OwnerHas, Lease, Carried, Flight, TypeOK, Ids, Pcs, Receipts,
     Supervisors, Operations, OwnerAsks, NoSupervisor
<1>23. CASE OwnerSupersedes
  BY <1>23
  DEF IInv, Down, OwnerHas, Lease, Carried, Flight, TypeOK, Ids, Pcs, Receipts,
     Supervisors, Operations, OwnerSupersedes, NoSupervisor, Kept, gateway
<1>24. CASE OwnerHolds
  BY <1>24
  DEF IInv, Down, OwnerHas, Lease, Carried, Flight, TypeOK, Ids, Pcs, Receipts,
     Supervisors, Operations, OwnerHolds, Hold, Announced, NoSupervisor, Kept,
     gateway
<1>25. CASE OwnerGivesUp
  BY <1>25
  DEF IInv, Down, OwnerHas, Lease, Carried, Flight, TypeOK, Ids, Pcs, Receipts,
     Supervisors, Operations, OwnerGivesUp, NoSupervisor, Kept, gateway
<1>26. CASE OwnerTimesOut
  BY <1>26
  DEF IInv, Down, OwnerHas, Lease, Carried, Flight, TypeOK, Ids, Pcs, Receipts,
     Supervisors, Operations, OwnerTimesOut, Closed, NoSupervisor, Kept,
     gateway
<1>27. CASE Stop
  BY <1>27
  DEF IInv, Down, OwnerHas, Lease, Carried, Flight, TypeOK, Ids, Pcs, Receipts,
     Supervisors, Operations, Stop
<1>28. CASE Boot
  BY <1>28
  DEF IInv, Down, OwnerHas, Lease, Carried, Flight, TypeOK, Ids, Pcs, Receipts,
     Supervisors, Operations, Boot, PersistedDrain, NoteBoot
<1>29. CASE SettlesLate
  BY <1>29
  DEF IInv, Down, OwnerHas, Lease, Carried, Flight, TypeOK, Ids, Pcs, Receipts,
     Supervisors, Operations, SettlesLate, NoOp, NoGateway, Kept, gateway
<1>30. CASE Dispatch
  BY <1>30
  DEF IInv, Down, OwnerHas, Lease, Carried, Flight, TypeOK, Ids, Pcs, Receipts,
     Supervisors, Operations, Dispatch, Kept, gateway
<1>31. CASE Settled
  BY <1>31
  DEF IInv, Down, OwnerHas, Lease, Carried, Flight, TypeOK, Ids, Pcs, Receipts,
     Supervisors, Operations, Settled, Kept, gateway
<1>32. CASE Recover
  BY <1>32
  DEF IInv, Down, OwnerHas, Lease, Carried, Flight, TypeOK, Ids, Pcs, Receipts,
     Supervisors, Operations, Recover, NoOp, ReleaseOrTransfer, Moved, Closed,
     Kept, gateway
<1>33. CASE UNCHANGED vars
  BY <1>33
  DEF IInv, Down, OwnerHas, Lease, Carried, Flight, TypeOK, Ids, Pcs, Receipts,
     Supervisors, Operations, vars
<1> QED
  BY <1>1, <1>2, <1>3, <1>4, <1>5, <1>6, <1>7, <1>8, <1>9, <1>10, <1>11, <1>12,
     <1>13, <1>14, <1>15, <1>16, <1>17, <1>18, <1>19, <1>20, <1>21, <1>22,
     <1>23, <1>24, <1>25, <1>26, <1>27, <1>28, <1>29, <1>30, <1>31, <1>32,
     <1>33
  DEF Next, Supervisor, Owner

(* An announcement opens with the hold, moves with it and closes with it,  *)
(* and a boot closes all but the inherited one.                            *)
LEMMA NoticeStep ==
  ASSUME IInv, [Next]_vars PROVE OpenNoticeIsHeld'
<1>1. CASE NoGateway
  BY <1>1
  DEF IInv, Down, OwnerHas, OpenNoticeIsHeld, Lease, TypeOK, Ids, Receipts,
     Supervisors, NoGateway, Kept, gateway
<1>2. CASE PrepareAsks
  BY <1>2
  DEF IInv, Down, OwnerHas, OpenNoticeIsHeld, Lease, TypeOK, Ids, Receipts,
     Supervisors, PrepareAsks, Prepared, Hold, Announced, Kept, gateway
<1>3. CASE PrepareFails
  BY <1>3
  DEF IInv, Down, OwnerHas, OpenNoticeIsHeld, Lease, TypeOK, Ids, Receipts,
     Supervisors, PrepareFails, Finish, Off, ReleaseOrTransfer, Moved, Closed,
     Kept, gateway
<1>4. CASE ReleaseKeeps
  BY <1>4
  DEF IInv, Down, OwnerHas, OpenNoticeIsHeld, Lease, TypeOK, Ids, Receipts,
     Supervisors, ReleaseKeeps, Ending, Finish, Final, Off, Close,
     ReleaseOrTransfer, KeepsDrain, Moved, Closed, Kept, gateway
<1>5. CASE ReleaseCancels
  BY <1>5
  DEF IInv, Down, OwnerHas, OpenNoticeIsHeld, Lease, TypeOK, Ids, Receipts,
     Supervisors, ReleaseCancels, Ending, Finish, Final, Off, Confirmed,
     Reattaches, ReleaseOrTransfer, Moved, Closed, Kept, gateway
<1>6. CASE ReattachAsks
  BY <1>6
  DEF IInv, Down, OwnerHas, OpenNoticeIsHeld, Lease, TypeOK, Ids, Receipts,
     Supervisors, ReattachAsks, Ending, Reattaches, Prepared, Hold, Announced,
     Kept, gateway
<1>7. CASE ReattachDrained
  BY <1>7
  DEF IInv, Down, OwnerHas, OpenNoticeIsHeld, Lease, TypeOK, Ids, Receipts,
     Supervisors, ReattachDrained, Finish, Final, Off, Confirmed,
     ReleaseOrTransfer, Moved, Closed, Kept, gateway
<1>8. CASE ReattachFails
  BY <1>8
  DEF IInv, Down, OwnerHas, OpenNoticeIsHeld, Lease, TypeOK, Ids, Receipts,
     Supervisors, ReattachFails, Finish, Off, Kept, gateway
<1>9. CASE SupervisorDies
  BY <1>9
  DEF IInv, Down, OwnerHas, OpenNoticeIsHeld, Lease, TypeOK, Ids, Receipts,
     Supervisors, SupervisorDies, Off, Close, ReleaseOrTransfer, KeepsDrain,
     Moved, Closed, Kept, gateway
<1>10. CASE OwnerAsks
  BY <1>10
  DEF IInv, Down, OwnerHas, OpenNoticeIsHeld, Lease, TypeOK, Ids, Receipts,
     Supervisors, OwnerAsks, NoSupervisor
<1>11. CASE OwnerSupersedes
  BY <1>11
  DEF IInv, Down, OwnerHas, OpenNoticeIsHeld, Lease, TypeOK, Ids, Receipts,
     Supervisors, OwnerSupersedes, NoSupervisor, Kept, gateway
<1>12. CASE OwnerHolds
  BY <1>12
  DEF IInv, Down, OwnerHas, OpenNoticeIsHeld, Lease, TypeOK, Ids, Receipts,
     Supervisors, OwnerHolds, Hold, Announced, NoSupervisor, Kept, gateway
<1>13. CASE OwnerGivesUp
  BY <1>13
  DEF IInv, Down, OwnerHas, OpenNoticeIsHeld, Lease, TypeOK, Ids, Receipts,
     Supervisors, OwnerGivesUp, NoSupervisor, Kept, gateway
<1>14. CASE OwnerTimesOut
  BY <1>14
  DEF IInv, Down, OwnerHas, OpenNoticeIsHeld, Lease, TypeOK, Ids, Receipts,
     Supervisors, OwnerTimesOut, Closed, NoSupervisor, Kept, gateway
<1>15. CASE Stop
  BY <1>15
  DEF IInv, Down, OwnerHas, OpenNoticeIsHeld, Lease, TypeOK, Ids, Receipts,
     Supervisors, Stop
<1>16. CASE Boot
  BY <1>16
  DEF IInv, Down, OwnerHas, OpenNoticeIsHeld, Lease, TypeOK, Ids, Receipts,
     Supervisors, Boot, PersistedDrain, NoteBoot
<1>17. CASE Dispatch
  BY <1>17
  DEF IInv, Down, OwnerHas, OpenNoticeIsHeld, Lease, TypeOK, Ids, Receipts,
     Supervisors, Dispatch, Kept, gateway
<1>18. CASE Settled
  BY <1>18
  DEF IInv, Down, OwnerHas, OpenNoticeIsHeld, Lease, TypeOK, Ids, Receipts,
     Supervisors, Settled, Kept, gateway
<1>19. CASE Recover
  BY <1>19
  DEF IInv, Down, OwnerHas, OpenNoticeIsHeld, Lease, TypeOK, Ids, Receipts,
     Supervisors, Recover, NoOp, ReleaseOrTransfer, Moved, Closed, Kept,
     gateway
<1>20. CASE UNCHANGED vars
  BY <1>20
  DEF IInv, Down, OwnerHas, OpenNoticeIsHeld, Lease, TypeOK, Ids, Receipts,
     Supervisors, vars
<1> QED
  BY <1>1, <1>2, <1>3, <1>4, <1>5, <1>6, <1>7, <1>8, <1>9, <1>10, <1>11, <1>12,
     <1>13, <1>14, <1>15, <1>16, <1>17, <1>18, <1>19, <1>20
  DEF Next, Supervisor, Owner, Launch, Start, PrepareAlone, PrepareRefused,
     PrepareDrained, MarkPrepared, Skip, Issue, NotIssued, CommandOk,
     CommandFails, CommandTimesOut, ReattachRefused, SettlesLate

LEMMA StepLemma == IInv /\ [Next]_vars => IInv'
<1> SUFFICES ASSUME IInv, [Next]_vars PROVE IInv'
  OBVIOUS
<1> QED
  BY TypeStep, DownStep, OwnerStep, LeaseStep, CarriedStep, FlightStep, NoticeStep DEF IInv

LEMMA InvariantLemma == Spec => []IInv
BY InitLemma, StepLemma, PTL DEF Spec

(* Type correctness of the restart protocol.                               *)
THEOREM RestartTypeCorrect == Spec => []TypeOK
BY InvariantLemma, PTL DEF IInv

(* While an operation of a prepared restart may still act and the receipt  *)
(* is of that restart, a gateway that runs holds dispatch; and whatever is *)
(* announced as restarting is a hold in force.                             *)
THEOREM FenceAlwaysHolds == Spec => []FenceHolds
<1>1. IInv => FenceHolds
  BY DEF IInv, TypeOK, Operations, Flight, FenceHolds, DispatchFenced
<1> QED
  BY <1>1, InvariantLemma, PTL

(* assertRestartDrain: no command is issued under a prepared restart while *)
(* the gateway that would be restarted is free to dispatch.                *)
THEOREM IssuedUnderHold == Spec => [][Issue /\ sup.held /\ up => drain = sup.id]_vars
<1>1. ASSUME IInv PROVE Issue /\ sup.held /\ up => drain = sup.id
  BY <1>1 DEF IInv, Carried, Issue, StillHeld
<1>2. IInv /\ [Next]_vars => [Issue /\ sup.held /\ up => drain = sup.id]_vars
  BY <1>1
<1> QED
  BY <1>2, InvariantLemma, PTL DEF Spec
=============================================================================
