------------------------------ MODULE HostPool ------------------------------
(***************************************************************************)
(* How the origins share the session hosts a machine can afford            *)
(* (orchestrator/persona-session.ts, admitHost to hostFreed). Each origin  *)
(* works off its own mailbox; an origin about to bind takes a free slot,   *)
(* has an idle host of another origin retired on that origin's mailbox, or *)
(* holds its trigger under a retry timer until a slot is handed to it.     *)
(***************************************************************************)
EXTENDS Naturals, Sequences, FiniteSets, Functions

CONSTANTS
  Actor,           \* origins
  Cap,             \* maxLiveHosts
  MaxMsg,          \* bound: messages that arrive per origin
  MaxNew,          \* bound: uses of /new
  MaxPoolFaults,   \* bound: binds that fail, hosts that do not end
  MaxBox           \* bound: tasks in a mailbox

ASSUME PoolAssumption ==
  /\ Actor # {} /\ IsFiniteSet(Actor) /\ 0 \notin Actor
  /\ {Cap, MaxMsg, MaxNew, MaxPoolFaults, MaxBox} \subseteq Nat /\ Cap > 0

VARIABLES
  box,          \* the tasks in an origin's mailbox, the running one first
  running,      \* where the running task is: "idle", "await", "bind"
  cand,         \* idle origins the requester has not tried yet
  pend,         \* triggers waiting
  busyTurn,     \* a current turn runs
  old,          \* a turn retired by /new is not settled
  hostSession,  \* the session the origin counts as its host: "none", "cur", "old"
  dying,        \* its host was signalled and has not exited
  held,         \* origins whose trigger waits for a slot, longest first
  retry,        \* the dispatch retry timer is armed
  res,          \* host admission reservations
  replacer,     \* the origin replacing an idle host, 0 for none
  came, news, poolFaults

hostPool == <<box, running, cand, pend, busyTurn, old, hostSession, dying, held, retry, res, replacer,
              came, news, poolFaults>>
pool == <<held, res, replacer>>
poolBounds == <<came, news, poolFaults>>

PoolInit ==
  /\ box = [a \in Actor |-> <<>>] /\ running = [a \in Actor |-> "idle"]
  /\ cand = {}
  /\ pend = [a \in Actor |-> 0] /\ busyTurn = [a \in Actor |-> FALSE]
  /\ old = [a \in Actor |-> FALSE] /\ hostSession = [a \in Actor |-> "none"]
  /\ dying = [a \in Actor |-> FALSE] /\ held = <<>>
  /\ retry = [a \in Actor |-> FALSE] /\ res = [a \in Actor |-> "none"] /\ replacer = 0
  /\ came = [a \in Actor |-> 0] /\ news = 0 /\ poolFaults = 0

PoolFault == poolFaults < MaxPoolFaults /\ poolFaults' = poolFaults + 1

HostLive(a) == busyTurn[a] \/ old[a] \/ dying[a] \/ hostSession[a] # "none"
HostIdle(a) == hostSession[a] # "none" /\ ~dying[a] /\ ~busyTurn[a] /\ ~old[a]
Promised == {a \in Actor : res[a] = "free"}

\* After a step: the origins counted as holding a host, and those reserved.
LiveNow == {a \in Actor : busyTurn'[a] \/ old'[a] \/ dying'[a] \/ hostSession'[a] # "none"}

(* The wake of the longest-waiting hold, given the reservations and the    *)
(* mailboxes the step leaves: it is handed a slot, or the right to replace.*)
HostFreed(heldNow, resNow, ownerNow, retryNow, boxNow) ==
  LET free == {a \in Actor : resNow[a] = "free"}
      kind == IF Cardinality(LiveNow) + Cardinality(free) < Cap THEN "free"
              ELSE IF ownerNow = 0 THEN "repl" ELSE "none"
      o == Head(heldNow)
      wake == heldNow # <<>> /\ resNow[o] = "none" /\ kind # "none"
  IN  /\ held' = IF wake THEN Tail(heldNow) ELSE heldNow
      /\ res' = IF wake THEN [resNow EXCEPT ![o] = kind] ELSE resNow
      /\ replacer' = IF wake /\ kind = "repl" THEN o ELSE ownerNow
      /\ retry' = IF wake THEN [retryNow EXCEPT ![o] = FALSE] ELSE retryNow
      /\ box' = IF wake THEN [boxNow EXCEPT ![o] = Append(@, "dispatch")] ELSE boxNow

Unreserved(a) == [res EXCEPT ![a] = "none"]
NoOwner(a) == IF replacer = a THEN 0 ELSE replacer
Unheld(a) ==
  IF a \in Range(held)
  THEN LET k == CHOOSE k \in DOMAIN held : held[k] = a
       IN  [i \in 1..(Len(held) - 1) |-> held[IF i < k THEN i ELSE i + 1]]
  ELSE held
Done(a) == [box EXCEPT ![a] = Tail(@)]

\* A release wakes a waiter only when there was a reservation to release.
ReleaseHost(a, heldNow, retryNow, boxNow) ==
  IF res[a] = "none"
  THEN held' = heldNow /\ retry' = retryNow /\ box' = boxNow /\ UNCHANGED <<res, replacer>>
  ELSE HostFreed(heldNow, Unreserved(a), NoOwner(a), retryNow, boxNow)

Runs(a, t) == running[a] = "idle" /\ box[a] # <<>> /\ Head(box[a]) = t

-----------------------------------------------------------------------------
Arrive(a) ==
  /\ came[a] < MaxMsg /\ Len(box[a]) < MaxBox
  /\ came' = [came EXCEPT ![a] = @ + 1] /\ pend' = [pend EXCEPT ![a] = @ + 1]
  /\ box' = [box EXCEPT ![a] = Append(@, "admit")]
  /\ UNCHANGED <<running, cand, busyTurn, old, hostSession, dying, retry, pool, news, poolFaults>>

\* A running turn takes what waits as steers.
Steer(a) ==
  /\ Runs(a, "admit") /\ busyTurn[a]
  /\ pend' = [pend EXCEPT ![a] = 0] /\ box' = Done(a)
  /\ UNCHANGED <<running, cand, busyTurn, old, hostSession, dying, retry, pool, poolBounds>>

RetryFires(a) ==
  /\ retry[a] /\ Len(box[a]) < MaxBox
  /\ retry' = [retry EXCEPT ![a] = FALSE] /\ box' = [box EXCEPT ![a] = Append(@, "dispatch")]
  /\ UNCHANGED <<running, cand, pend, busyTurn, old, hostSession, dying, pool, poolBounds>>

MayDispatch(a) == (Runs(a, "admit") \/ Runs(a, "dispatch")) /\ ~busyTurn[a] /\ ~retry[a] /\ pend[a] > 0

Nothing(a) ==
  /\ \/ Runs(a, "dispatch") /\ busyTurn[a]
     \/ (Runs(a, "admit") \/ Runs(a, "dispatch")) /\ ~busyTurn[a] /\ (retry[a] \/ pend[a] = 0)
  /\ box' = Done(a)
  /\ UNCHANGED <<running, cand, pend, busyTurn, old, hostSession, dying, retry, pool, poolBounds>>

\* Mutant: the trigger is held without its retry timer.
HoldWithoutTimer(a) ==
  /\ held' = IF a \in Range(held) THEN held ELSE Append(held, a)
  /\ box' = Done(a)
  /\ UNCHANGED <<running, cand, pend, busyTurn, old, hostSession, dying, retry, poolBounds>>

Hold(a) ==
  /\ held' = IF a \in Range(held) THEN held ELSE Append(held, a)
  /\ retry' = [retry EXCEPT ![a] = TRUE] /\ box' = Done(a)
  /\ UNCHANGED <<running, cand, pend, busyTurn, old, hostSession, dying, poolBounds>>

HoldDying(a) == MayDispatch(a) /\ dying[a] /\ Hold(a) /\ UNCHANGED <<res, replacer>>

-----------------------------------------------------------------------------
(* admitHost, up to its first await.                                       *)
Others(a) == {b \in Actor \ {a} : HostLive(b)}
IdleOthers(a) == {b \in Actor \ {a} : HostIdle(b)}

\* Mutant: a slot promised to another origin is given away.
HasRoomIgnoringPromises(a) == res[a] = "none" /\ Cardinality(Others(a)) < Cap

HasRoom(a) == res[a] = "none" /\ Cardinality(Others(a)) + Cardinality(Promised) < Cap
SeeksHost(a) == MayDispatch(a) /\ ~dying[a] /\ ~HostLive(a)
OtherReplaces(a) == replacer \notin {0, a}

GoesToBind(a) == running' = [running EXCEPT ![a] = "bind"]

HasHost(a) ==
  /\ MayDispatch(a) /\ ~dying[a] /\ HostLive(a)
  /\ GoesToBind(a)
  /\ UNCHANGED <<box, cand, pend, busyTurn, old, hostSession, dying, retry, pool, poolBounds>>

Admitted(a) ==
  /\ SeeksHost(a) /\ (res[a] = "free" \/ HasRoom(a))
  /\ res' = [res EXCEPT ![a] = "free"] /\ GoesToBind(a)
  /\ UNCHANGED <<box, cand, pend, busyTurn, old, hostSession, dying, retry, held, replacer, poolBounds>>

RefusedHost(a) ==
  /\ SeeksHost(a) /\ res[a] # "free" /\ ~HasRoom(a)
  /\ \/ OtherReplaces(a) /\ UNCHANGED <<res, replacer>>
     \/ ~OtherReplaces(a) /\ replacer # a /\ IdleOthers(a) = {} /\ UNCHANGED <<res, replacer>>
     \/ replacer = a /\ IdleOthers(a) = {} /\ res' = Unreserved(a) /\ replacer' = 0
  /\ Hold(a)

\* The next idle host is asked for, on the mailbox of its origin.
AskCandidate(a, C, boxNow) ==
  \E b \in C :
    /\ cand' = C \ {b} /\ running' = [running EXCEPT ![a] = "await"]
    /\ box' = [boxNow EXCEPT ![b] = Append(@, "retire_capacity")]

Replace(a) ==
  /\ SeeksHost(a) /\ res[a] # "free" /\ ~HasRoom(a) /\ ~OtherReplaces(a) /\ IdleOthers(a) # {}
  /\ res' = [res EXCEPT ![a] = "repl"] /\ replacer' = a
  /\ AskCandidate(a, IdleOthers(a), box)
  /\ UNCHANGED <<pend, busyTurn, old, hostSession, dying, retry, held, poolBounds>>

-----------------------------------------------------------------------------
(* The binding succeeds: the host counts, and the reservation is released. *)
HostBound(a) ==
  /\ running[a] = "bind"
  /\ hostSession' = [hostSession EXCEPT ![a] = "cur"] /\ busyTurn' = [busyTurn EXCEPT ![a] = TRUE]
  /\ pend' = [pend EXCEPT ![a] = @ - 1] /\ running' = [running EXCEPT ![a] = "idle"]
  /\ UNCHANGED <<cand, old, dying, poolBounds>>
  /\ ReleaseHost(a, Unheld(a), retry, Done(a))

BindFails(a) ==
  /\ running[a] = "bind" /\ PoolFault
  /\ running' = [running EXCEPT ![a] = "idle"]
  /\ UNCHANGED <<cand, pend, busyTurn, old, hostSession, dying, came, news>>
  /\ ReleaseHost(a, held, [retry EXCEPT ![a] = TRUE], Done(a))

\* The session is bound, but the turn is not started.
StartFails(a) ==
  /\ running[a] = "bind" /\ PoolFault
  /\ hostSession' = [hostSession EXCEPT ![a] = "cur"] /\ running' = [running EXCEPT ![a] = "idle"]
  /\ UNCHANGED <<cand, pend, busyTurn, old, dying, came, news>>
  /\ ReleaseHost(a, Unheld(a), [retry EXCEPT ![a] = TRUE], Done(a))

-----------------------------------------------------------------------------
\* A turn ends; what waits behind it is dispatched first.
SettleTurn(a) ==
  /\ running[a] = "idle" /\ busyTurn[a]
  /\ busyTurn' = [busyTurn EXCEPT ![a] = FALSE] /\ hostSession' = [hostSession EXCEPT ![a] = "cur"]
  /\ UNCHANGED <<cand, pend, old, dying, poolBounds>>
  /\ IF pend[a] > 0 /\ ~retry[a]
     THEN /\ running' = [running EXCEPT ![a] = "bind"] /\ box' = [box EXCEPT ![a] = <<"dispatch">> \o @]
          /\ UNCHANGED <<retry, pool>>
     ELSE /\ UNCHANGED running
          /\ IF old[a] THEN UNCHANGED <<box, retry, pool>> ELSE HostFreed(held, res, replacer, retry, box)

(* retireIdleHost, on the origin's own mailbox, for a requester or for age.*)
MayRetire(a) == HostIdle(a) /\ pend[a] = 0
SweepIdleHost(a) ==
  /\ HostIdle(a) /\ running[a] = "idle" /\ Len(box[a]) < MaxBox /\ "retire_idle" \notin Range(box[a])
  /\ box' = [box EXCEPT ![a] = Append(@, "retire_idle")]
  /\ UNCHANGED <<running, cand, pend, busyTurn, old, hostSession, dying, retry, pool, poolBounds>>

RunsRetire(a) == Runs(a, "retire_capacity") \/ Runs(a, "retire_idle")

(* The requester goes on in the same turn of the event loop: the slot is   *)
(* its own, or it asks the next candidate, or holds its trigger.           *)
Kept(a) ==
  IF Head(box[a]) = "retire_idle"
  THEN box' = Done(a) /\ UNCHANGED <<running, cand, retry, pool>>
  ELSE \/ AskCandidate(replacer, cand, Done(a)) /\ UNCHANGED <<retry, pool>>
       \/ /\ cand = {}
          /\ res' = Unreserved(replacer) /\ replacer' = 0 /\ running' = [running EXCEPT ![replacer] = "idle"]
          /\ held' = IF replacer \in Range(held) THEN held ELSE Append(held, replacer)
          /\ retry' = [retry EXCEPT ![replacer] = TRUE]
          /\ box' = [Done(a) EXCEPT ![replacer] = Tail(@)] /\ UNCHANGED cand

\* Not idle any more, background jobs, a host not proved ours, a lost call.
NotRetired(a) ==
  /\ RunsRetire(a) /\ Kept(a)
  /\ IF MayRetire(a) THEN PoolFault ELSE UNCHANGED poolFaults
  /\ UNCHANGED <<pend, busyTurn, old, hostSession, dying, came, news>>

Signalled(a) ==
  /\ RunsRetire(a) /\ MayRetire(a) /\ Kept(a) /\ PoolFault
  /\ dying' = [dying EXCEPT ![a] = TRUE]
  /\ UNCHANGED <<pend, busyTurn, old, hostSession, came, news>>

Retired(a) ==
  /\ RunsRetire(a) /\ MayRetire(a)
  /\ hostSession' = [hostSession EXCEPT ![a] = "none"]
  /\ UNCHANGED <<pend, busyTurn, old, dying, poolBounds>>
  /\ IF Head(box[a]) = "retire_capacity"
     THEN /\ replacer' = 0 /\ res' = [res EXCEPT ![replacer] = "free"] /\ cand' = {}
          /\ running' = [running EXCEPT ![replacer] = "bind"] /\ box' = Done(a) /\ UNCHANGED <<retry, held>>
     ELSE UNCHANGED <<running, cand>> /\ HostFreed(held, res, replacer, retry, Done(a))

\* The recheck of a signalled host finds it gone.
HostExits(a) ==
  /\ running[a] = "idle" /\ dying[a]
  /\ dying' = [dying EXCEPT ![a] = FALSE] /\ hostSession' = [hostSession EXCEPT ![a] = "none"]
  /\ UNCHANGED <<running, cand, pend, busyTurn, old, poolBounds>>
  /\ HostFreed(held, res, replacer, retry, box)

-----------------------------------------------------------------------------
NewAsked(a) ==
  /\ news < MaxNew /\ news' = news + 1 /\ Len(box[a]) < MaxBox
  /\ box' = [box EXCEPT ![a] = Append(@, "new")]
  /\ UNCHANGED <<running, cand, pend, busyTurn, old, hostSession, dying, retry, pool, came, poolFaults>>

\* /new drops what waits and leaves a running turn to its own end. The host
\* of an idle session is ended.
ResetOrigin(a) ==
  /\ Runs(a, "new") /\ ~old[a]
  /\ pend' = [pend EXCEPT ![a] = 0] /\ busyTurn' = [busyTurn EXCEPT ![a] = FALSE]
  /\ old' = [old EXCEPT ![a] = busyTurn[a]]
  /\ hostSession' = [hostSession EXCEPT ![a] = IF busyTurn[a] THEN "old" ELSE "none"]
  /\ box' = Done(a)
  /\ UNCHANGED <<running, cand, dying, retry, pool, came, news, poolFaults>>

OldEnds(a) ==
  /\ running[a] = "idle" /\ old[a]
  /\ old' = [old EXCEPT ![a] = FALSE]
  /\ hostSession' = [hostSession EXCEPT ![a] = IF @ = "old" THEN "none" ELSE @]
  /\ UNCHANGED <<box, running, cand, pend, busyTurn, dying, retry, pool, poolBounds>>

PoolNext ==
  \E a \in Actor :
    \/ Arrive(a) \/ Steer(a) \/ RetryFires(a) \/ Nothing(a) \/ HoldDying(a)
    \/ HasHost(a) \/ Admitted(a) \/ RefusedHost(a) \/ Replace(a)
    \/ HostBound(a) \/ BindFails(a) \/ StartFails(a) \/ SettleTurn(a)
    \/ SweepIdleHost(a) \/ NotRetired(a) \/ Signalled(a) \/ Retired(a) \/ HostExits(a)
    \/ NewAsked(a) \/ ResetOrigin(a) \/ OldEnds(a)

PoolSpec == PoolInit /\ [][PoolNext]_hostPool

-----------------------------------------------------------------------------
PoolTypeOK ==
  /\ running \in [Actor -> {"idle", "await", "bind"}]
  /\ hostSession \in [Actor -> {"none", "cur", "old"}] /\ res \in [Actor -> {"none", "free", "repl"}]
  /\ replacer \in Actor \cup {0} /\ cand \subseteq Actor

Serving(a) == running[a] # "idle" \/ box[a] # <<>>

(* The hosts that run and the slots promised never exceed the cap.         *)
WithinCap == Cardinality({a \in Actor : HostLive(a)} \cup Promised) <= Cap

(* A trigger that waits is dispatched again: by the timer, by the handed   *)
(* slot or by the turn that is running.                                    *)
NoneForgotten == \A a \in Actor : pend[a] > 0 => retry[a] \/ busyTurn[a] \/ Serving(a)
=============================================================================
