------------------------------ MODULE CrossTalk ------------------------------
(***************************************************************************)
(* What one conversation's answer starts in another (server/handoff.ts,    *)
(* server.ts, store/groups/inbox.ts): handoffs and wakes put a relayed row *)
(* in the target's inbox, a watch waits for the next human message there.  *)
(* A turn that died before it settled is answered again, with the same     *)
(* directives or others, so every enqueue and registration may be repeated.*)
(***************************************************************************)
EXTENDS Naturals, Sequences, FiniteSets, Functions

CONSTANTS
  Origin,      \* conversations
  MaxDepth,    \* HANDOFF_MAX_DEPTH
  Ttl,         \* the expiries a watch may ask for
  MaxHuman,    \* bound: messages people send
  MaxRows,     \* bound: messages in all, relayed ones included
  MaxTime      \* bound of the clock

ASSUME TalkAssumption ==
  /\ IsFiniteSet(Origin) /\ Origin # {}
  /\ {MaxDepth, MaxHuman, MaxRows, MaxTime} \subseteq Nat /\ Ttl \subseteq Nat \ {0}

VARIABLES
  inbox,     \* rows: id, conversation, handoff chain, when taken in, settled
  watches,   \* cross_session_watches
  clock, humans

talk == <<inbox, watches, clock, humans>>

TalkInit == inbox = {} /\ watches = {} /\ clock = 0 /\ humans = 0

Row(id, o, chain) == [id |-> id, at |-> o, chain |-> chain, when |-> clock, done |-> FALSE]
Known(id) == \E r \in inbox : r.id = id
Enqueued(id, o, chain) == IF Known(id) THEN {} ELSE {Row(id, o, chain)}

-----------------------------------------------------------------------------
\* extendHandoffChain: the chain after a hop, when the hop is allowed.
Hop(chain, source) == Append(chain, source)

\* Mutant: only the conversation it came from is refused.
HopAllowedAnywhere(chain, source, target) ==
  target # source /\ Len(Hop(chain, source)) <= MaxDepth

HopAllowed(chain, source, target) ==
  target \notin Range(Hop(chain, source)) /\ Len(Hop(chain, source)) <= MaxDepth

\* Mutant: a watch that was not swept yet still fires.
DueUnswept(w) == w.state = "pending"

Due(w) == w.state = "pending" /\ w.till > clock
Overdue(w) == w.state = "pending" /\ w.till <= clock
WithExpired(W) == {IF Overdue(w) THEN [w EXCEPT !.state = "expired"] ELSE w : w \in W}

(* A human message commits together with the watches it fires; a relayed   *)
(* row is enqueued elsewhere and fires none.                               *)
Human(o) ==
  /\ humans < MaxHuman /\ Cardinality(inbox) < MaxRows /\ humans' = humans + 1
  /\ LET id == <<"human", humans>>
         mine == {w \in watches : w.of = o}
         fires == {w \in mine : Due(w)}
     IN  /\ watches' = (watches \ mine) \cup {[w EXCEPT !.state = "fired"] : w \in fires} \cup WithExpired(mine \ fires)
         /\ inbox' = inbox \cup {Row(id, o, <<>>)}
                           \cup UNION {Enqueued(<<"watch", w.id, id>>, w.by, w.chain) : w \in fires}
  /\ UNCHANGED clock

-----------------------------------------------------------------------------
(* A row is answered until its answer settles, and its directives run in   *)
(* the order of the reply: any of them may run again.                      *)
Answers(r) == ~r.done /\ Cardinality(inbox) < MaxRows

\* A refused relay is said in the source conversation and enqueues nothing.
Relay(r, target) ==
  /\ Answers(r) /\ HopAllowed(r.chain, r.at, target)
  /\ inbox' = inbox \cup Enqueued(<<"relay", r.id, target>>, target, Hop(r.chain, r.at))
  /\ UNCHANGED <<watches, clock, humans>>

WatchId(r, target, ttl) == <<r.at, r.id, target, ttl>>
WatchAllowed(r, target) == target \notin Range(r.chain) /\ HopAllowed(r.chain, target, r.at)

\* Mutant: a replayed registration reopens its watch.
WatchReopens(r, target, ttl) ==
  /\ Answers(r) /\ WatchAllowed(r, target)
  /\ watches' = {w \in watches : w.id # WatchId(r, target, ttl)}
                \cup {[id |-> WatchId(r, target, ttl), by |-> r.at, of |-> target, from |-> clock,
                       chain |-> Hop(r.chain, target), till |-> clock + ttl, state |-> "pending"]}
  /\ UNCHANGED <<inbox, clock, humans>>

(* registerWatch: the pair's overdue watch is closed first, then the same  *)
(* registration, in whatever state, or another pending one of the pair wins*)
Watch(r, target, ttl) ==
  /\ Answers(r) /\ WatchAllowed(r, target)
  /\ LET id == WatchId(r, target, ttl)
         pair == {w \in watches : w.by = r.at /\ w.of = target}
         kept == (watches \ pair) \cup WithExpired(pair)
         taken == \/ \E w \in kept : w.id = id
                  \/ \E w \in WithExpired(pair) : w.state = "pending"
         new == [id |-> id, by |-> r.at, of |-> target, from |-> clock,
                 chain |-> Hop(r.chain, target), till |-> clock + ttl, state |-> "pending"]
     IN  watches' = IF taken THEN kept ELSE kept \cup {new}
  /\ UNCHANGED <<inbox, clock, humans>>

TurnSettles(r) ==
  /\ ~r.done
  /\ inbox' = (inbox \ {r}) \cup {[r EXCEPT !.done = TRUE]}
  /\ UNCHANGED <<watches, clock, humans>>

-----------------------------------------------------------------------------
Tick == clock < MaxTime /\ clock' = clock + 1 /\ UNCHANGED <<inbox, watches, humans>>

(* The retention sweep closes what is overdue and forgets old ones; the    *)
(* history is kept longer than any message stays unsettled.                *)
Forgotten(w) == w.state # "pending" /\ \E r \in inbox : r.id = w.id[2] /\ r.done
SweepWatches ==
  /\ \/ watches' = WithExpired(watches)
     \/ \E w \in watches : Forgotten(w) /\ watches' = WithExpired(watches \ {w})
  /\ UNCHANGED <<inbox, clock, humans>>

TalkNext ==
  \/ \E o \in Origin : Human(o)
  \/ \E r \in inbox :
       \/ \E t \in Origin : Relay(r, t) \/ \E ttl \in Ttl : Watch(r, t, ttl)
       \/ TurnSettles(r)
  \/ Tick \/ SweepWatches

TalkSpec == TalkInit /\ [][TalkNext]_talk

-----------------------------------------------------------------------------
TalkTypeOK ==
  /\ \A r \in inbox : r.at \in Origin /\ Range(r.chain) \subseteq Origin
  /\ \A w \in watches : w.state \in {"pending", "fired", "expired"} /\ w.by \in Origin /\ w.of \in Origin
  /\ clock \in 0..MaxTime /\ humans \in 0..MaxHuman

(* Relayed work never comes back to a conversation it has passed and never *)
(* travels further than the limit, watches included.                       *)
ChainsEnd ==
  \A r \in inbox : Len(r.chain) <= MaxDepth /\ r.at \notin Range(r.chain) /\ IsInjective(r.chain)

Wakes(id) == {r \in inbox : r.id[1] = "watch" /\ r.id[2] = id}

(* A watch fires exactly once, in its own time, and an expired one never.  *)
FiredOnce ==
  /\ \A w \in watches : Cardinality(Wakes(w.id)) = IF w.state = "fired" THEN 1 ELSE 0
  /\ \A w \in watches : \A r \in Wakes(w.id) : w.from <= r.when /\ r.when < w.till

(* One conversation waits at most once for another.                        *)
OneWatch ==
  \A v, w \in watches : v.state = "pending" /\ w.state = "pending" /\ v.by = w.by /\ v.of = w.of => v = w

(* Work passed between conversations ends, and a watch fires once.         *)
TalkEnds == ChainsEnd /\ FiredOnce /\ OneWatch
=============================================================================
