------------------------------ MODULE TailPool ------------------------------
(***************************************************************************)
(* The slots of the relays (orchestrator/tail-runner.ts, TailRunner). A    *)
(* caller that attaches takes a free slot, evicts a handle whose turn is   *)
(* not running, or waits; every handle that closes or ends its turn wakes  *)
(* one waiter, which looks again. A retired turn never waits.              *)
(***************************************************************************)
EXTENDS Naturals, Sequences, FiniteSets, Functions

CONSTANTS
  Caller,     \* callers of attach, one handle each
  Parked,     \* those that attach for a retired turn
  Slots,      \* maxTailProcesses
  MaxAttach   \* bound: attachments of a caller

ASSUME TailPoolAssumption ==
  /\ Parked \subseteq Caller /\ IsFiniteSet(Caller)
  /\ Slots \in Nat \ {0} /\ MaxAttach \in Nat

VARIABLES
  slotOf,    \* where each caller is
  waiters,   \* #waiters, the callers asleep
  attaches

tailPool == <<slotOf, waiters, attaches>>

TailInit == slotOf = [c \in Caller |-> "off"] /\ waiters = <<>> /\ attaches = [c \in Caller |-> 0]

Handles == {c \in Caller : slotOf[c] \in {"opening", "open", "runs", "idle"}}
Reserved == {c \in Caller : slotOf[c] = "reserved"}
Running == {c \in Caller : slotOf[c] = "runs"}
Evictable == Handles \ Running

\* Mutant: reservations are not counted.
FullIgnoringReserved == Cardinality(Handles) >= Slots

Full == Cardinality(Handles) + Cardinality(Reserved) >= Slots

(* One waiter is woken; it looks for a slot again.                         *)
WakesFrom(W, atNow) ==
  IF W = <<>> THEN slotOf' = atNow /\ waiters' = W
  ELSE slotOf' = [atNow EXCEPT ![Head(W)] = "looks"] /\ waiters' = Tail(W)

WaitersBut(c) ==
  IF c \in Range(waiters)
  THEN LET k == CHOOSE k \in DOMAIN waiters : waiters[k] = c
       IN  [i \in 1..(Len(waiters) - 1) |-> waiters[IF i < k THEN i ELSE i + 1]]
  ELSE waiters

notifyEvictable(atNow) == WakesFrom(waiters, atNow)

-----------------------------------------------------------------------------
Attach(c) ==
  /\ slotOf[c] = "off" /\ attaches[c] < MaxAttach
  /\ slotOf' = [slotOf EXCEPT ![c] = "looks"] /\ attaches' = [attaches EXCEPT ![c] = @ + 1]
  /\ UNCHANGED waiters

Reserve(c) ==
  /\ slotOf[c] = "looks" /\ ~Full
  /\ slotOf' = [slotOf EXCEPT ![c] = "reserved"]
  /\ UNCHANGED <<waiters, attaches>>

\* close and release of the handle, then the caller looks again.
Evict(c) ==
  /\ slotOf[c] = "looks" /\ Full
  /\ \E h \in Evictable : notifyEvictable([slotOf EXCEPT ![h] = "off"])
  /\ UNCHANGED attaches

Saturated(c) == slotOf[c] = "looks" /\ Full /\ Evictable = {}

Waits(c) ==
  /\ Saturated(c) /\ c \notin Parked
  /\ slotOf' = [slotOf EXCEPT ![c] = "waits"] /\ waiters' = Append(waiters, c)
  /\ UNCHANGED attaches

TailCapacityError(c) ==
  /\ Saturated(c) /\ c \in Parked
  /\ slotOf' = [slotOf EXCEPT ![c] = "off"]
  /\ UNCHANGED <<waiters, attaches>>

\* Mutant: an aborted caller keeps the wake-up it consumed.
AbortKeepsWake(c) ==
  /\ slotOf[c] \in {"looks", "waits"}
  /\ slotOf' = [slotOf EXCEPT ![c] = "off"] /\ waiters' = WaitersBut(c)
  /\ UNCHANGED attaches

\* An aborted caller may have consumed a wake-up: it passes it on.
Abort(c) ==
  /\ slotOf[c] \in {"looks", "waits"}
  /\ WakesFrom(WaitersBut(c), [slotOf EXCEPT ![c] = "off"])
  /\ UNCHANGED attaches

AbortReserved(c) ==
  /\ slotOf[c] = "reserved"
  /\ notifyEvictable([slotOf EXCEPT ![c] = "off"])
  /\ UNCHANGED attaches

Start(c) ==
  /\ slotOf[c] = "reserved"
  /\ slotOf' = [slotOf EXCEPT ![c] = "opening"]
  /\ UNCHANGED <<waiters, attaches>>

Ready(c) ==
  /\ slotOf[c] = "opening"
  /\ slotOf' = [slotOf EXCEPT ![c] = "open"]
  /\ UNCHANGED <<waiters, attaches>>

\* No hello, a refusal, an abort, a dead relay, reaping or the caller.
CloseHandle(c) ==
  /\ c \in Handles
  /\ notifyEvictable([slotOf EXCEPT ![c] = "off"])
  /\ UNCHANGED attaches

TurnRuns(c) ==
  /\ slotOf[c] \in {"open", "idle"}
  /\ slotOf' = [slotOf EXCEPT ![c] = "runs"]
  /\ UNCHANGED <<waiters, attaches>>

TurnEnds(c) ==
  /\ slotOf[c] = "runs"
  /\ notifyEvictable([slotOf EXCEPT ![c] = "idle"])
  /\ UNCHANGED attaches

TailNext ==
  \E c \in Caller :
    \/ Attach(c) \/ Reserve(c) \/ Evict(c) \/ Waits(c) \/ TailCapacityError(c)
    \/ Abort(c) \/ AbortReserved(c) \/ Start(c) \/ Ready(c) \/ CloseHandle(c)
    \/ TurnRuns(c) \/ TurnEnds(c)

TailSpec == TailInit /\ [][TailNext]_tailPool

-----------------------------------------------------------------------------
TailTypeOK ==
  /\ slotOf \in [Caller -> {"off", "looks", "waits", "reserved", "opening", "open", "runs", "idle"}]
  /\ Range(waiters) = {c \in Caller : slotOf[c] = "waits"} /\ IsInjective(waiters)

(* Wake-ups, evictions and aborts in any order never open more relays than *)
(* there are slots.                                                        *)
WithinSlots == Cardinality(Handles) + Cardinality(Reserved) <= Slots

(* While a caller sleeps nothing it could have is free: a wake-up was not  *)
(* lost on a caller that gave up or was overtaken.                         *)
NoSlotSleptOn ==
  waiters # <<>> =>
    \/ \E c \in Caller : slotOf[c] = "looks"
    \/ Full /\ \A h \in Evictable : slotOf[h] \in {"opening", "open"}
=============================================================================
