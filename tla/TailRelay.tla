------------------------------ MODULE TailRelay ------------------------------
(***************************************************************************)
(* One relay handle (orchestrator/tail-runner.ts, ManagedTailHandle): the  *)
(* resident stream to a session's host, reopened when it ends and given up *)
(* after too many short lives; requests answered by id; the content of the *)
(* turn the handle was given, told apart by the ids the host stamps on it. *)
(***************************************************************************)
EXTENDS Naturals, Sequences, FiniteSets

CONSTANTS
  Req,         \* requests made on the handle
  MaxTurn,     \* bound: turns given to the handle, one after the other
  GiveUp,      \* STREAM_REOPEN_GIVE_UP
  MaxStreams,  \* bound: streams opened
  MaxOutput    \* bound: frames the host sends for a turn

ASSUME RelayAssumption ==
  /\ IsFiniteSet(Req)
  /\ {MaxTurn, GiveUp, MaxStreams, MaxOutput} \subseteq Nat /\ GiveUp > 0

Turn == 1..MaxTurn

VARIABLES
  stream,      \* "opening", "up", "down", "none"
  ready,       \* "no", "yes", "failed"
  closed,      \* #closed
  lapses,      \* #reopenFailures
  opened,      \* streams opened
  req,         \* where each request is
  reach,       \* what the host did with it: "unseen", "seen", "answered"
  current,     \* #opRef, 0 before the first turn
  known,       \* #correlation: the turn whose id it holds, 0 for none
  past,        \* ids of earlier turns
  owner,       \* turns whose prompt was written to the current stream
  streamed,    \* frames of each turn sent by the host
  wire,        \* frames on their way: the turn each is stamped with
  deliveries,  \* deliveries: <<stamp, turn of the handle at receipt>>
  got          \* history: what the actor was given, as <<stamp, turn then>>

relay == <<stream, ready, closed, lapses, opened, req, reach, current, known, past, owner,
           streamed, wire, deliveries, got>>
link == <<stream, ready, closed, lapses, opened>>
calls == <<req, reach>>
content == <<current, known, past, owner, streamed, wire, deliveries, got>>

RelayInit ==
  /\ stream = "opening" /\ ready = "no" /\ closed = FALSE /\ lapses = 0 /\ opened = 1
  /\ req = [r \in Req |-> "none"] /\ reach = [r \in Req |-> "unseen"]
  /\ current = 0 /\ known = 0 /\ past = {} /\ owner = {}
  /\ streamed = [t \in Turn |-> 0] /\ wire = <<>> /\ deliveries = <<>> /\ got = {}

\* Mutant: requests of a stream that ended stay pending.
failPendingNever == UNCHANGED req

(* Everything waiting on the stream is told it ended, the frame having     *)
(* been written.                                                           *)
failPending == req' = [r \in Req |-> IF req[r] = "written" THEN "lost" ELSE req[r]]

\* A caller that waited for readiness goes on with what it finds.
Resumed(reqNow, isReady) ==
  IF isReady THEN reqNow ELSE [r \in Req |-> IF reqNow[r] = "asks" THEN "unwritten" ELSE reqNow[r]]

close ==
  /\ closed' = TRUE /\ stream' = "none"
  /\ ready' = IF ready = "no" THEN "failed" ELSE ready
  /\ LET gone == [r \in Req |-> IF req[r] = "written" THEN "lost" ELSE req[r]]
     IN  req' = Resumed(gone, ready # "no")

-----------------------------------------------------------------------------
Hello ==
  /\ stream = "opening"
  /\ stream' = "up" /\ ready' = "yes"
  /\ UNCHANGED <<closed, lapses, opened, calls, content>>

(* No hello, or a refusal. Before the handle was ever ready it is over;    *)
(* later the stream is reopened.                                           *)
NoHello ==
  /\ stream = "opening"
  /\ IF ready = "no"
     THEN close /\ UNCHANGED <<lapses, opened, reach, content>>
     ELSE /\ stream' = "down" /\ lapses' = lapses + 1 /\ failPending
          /\ UNCHANGED <<ready, closed, opened, reach, content>>

\* The stream ends; a life of five seconds clears the streak.
StreamEnds ==
  /\ stream = "up" /\ stream' = "down"
  /\ lapses' \in {lapses + 1, 0}
  /\ failPending /\ wire' = <<>>
  /\ UNCHANGED <<ready, closed, opened, reach, current, known, past, owner, streamed, deliveries, got>>

Reopen ==
  /\ stream = "down" /\ ~closed /\ lapses < GiveUp /\ opened < MaxStreams
  /\ stream' = "opening" /\ opened' = opened + 1 /\ owner' = {}
  /\ UNCHANGED <<ready, closed, lapses, calls, current, known, past, streamed, wire, deliveries, got>>

Exhausted ==
  /\ stream = "down" /\ ~closed /\ lapses >= GiveUp
  /\ close /\ UNCHANGED <<lapses, opened, reach, content>>

CloseRelay ==
  /\ ~closed /\ close
  /\ wire' = <<>>
  /\ UNCHANGED <<lapses, opened, reach, current, known, past, owner, streamed, deliveries, got>>

-----------------------------------------------------------------------------
(* #request: the closed check, the wait for readiness, the frame.          *)
AskHost(r) ==
  /\ req[r] = "none"
  /\ req' = [req EXCEPT ![r] = IF closed THEN "unwritten" ELSE "asks"]
  /\ UNCHANGED <<reach, link, content>>

NotOpen(r) ==
  /\ req[r] = "asks" /\ ready = "yes" /\ stream # "up"
  /\ req' = [req EXCEPT ![r] = "unwritten"]
  /\ UNCHANGED <<reach, link, content>>

\* The frame reaches the host, or is lost with the stream.
WriteFrame(r) ==
  /\ req[r] = "asks" /\ stream = "up"
  /\ req' = [req EXCEPT ![r] = "written"]
  /\ \/ reach' = [reach EXCEPT ![r] = "seen"]
     \/ UNCHANGED reach
  /\ owner' = owner \cup ({current} \ {0})
  /\ UNCHANGED <<link, current, known, past, streamed, wire, deliveries, got>>

\* Mutant: a frame whose flush failed is reported as never written.
WriteThrowsUnwritten(r) ==
  /\ req[r] = "asks" /\ stream = "up"
  /\ req' = [req EXCEPT ![r] = "unwritten"]
  /\ \/ UNCHANGED reach
     \/ reach' = [reach EXCEPT ![r] = "seen"]
  /\ UNCHANGED <<link, content>>

\* The write throws: before the write nothing left, during its flush it may.
WriteThrows(r) ==
  /\ req[r] = "asks" /\ stream = "up"
  /\ \/ req' = [req EXCEPT ![r] = "unwritten"] /\ UNCHANGED <<reach, owner>>
     \/ /\ req' = [req EXCEPT ![r] = "lost"] /\ reach' = [reach EXCEPT ![r] = "seen"]
        /\ owner' = owner \cup ({current} \ {0})
  /\ UNCHANGED <<link, current, known, past, streamed, wire, deliveries, got>>

HostAnswers(r) ==
  /\ req[r] = "written" /\ reach[r] = "seen" /\ stream = "up"
  /\ req' = [req EXCEPT ![r] = "answered"] /\ reach' = [reach EXCEPT ![r] = "answered"]
  /\ UNCHANGED <<link, content>>

Timeout(r) ==
  /\ req[r] = "written" /\ req' = [req EXCEPT ![r] = "timeout"]
  /\ UNCHANGED <<reach, link, content>>

-----------------------------------------------------------------------------
(* The next turn of the handle; the id of the one before is remembered. A  *)
(* handle changes turns when the last one is over, so a turn that never    *)
(* told its id has sent what it had to send.                               *)
Heard(t) ==
  t # 0 /\ t \in owner => streamed[t] = MaxOutput /\ \A i \in DOMAIN wire : wire[i] # t

beginTurn ==
  /\ current < MaxTurn /\ current' = current + 1
  /\ known = current \/ Heard(current)
  /\ past' = past \cup ({known} \ {0}) /\ known' = 0
  /\ UNCHANGED <<link, calls, owner, streamed, wire, deliveries, got>>

\* The receipt of the prompt names its turn.
correlate ==
  /\ current # 0 /\ known' = current
  /\ UNCHANGED <<link, calls, current, past, owner, streamed, wire, deliveries, got>>

\* The host streams a turn to the connection that submitted it.
HostSends(t) ==
  /\ stream = "up" /\ t \in owner /\ streamed[t] < MaxOutput
  /\ streamed' = [streamed EXCEPT ![t] = @ + 1] /\ wire' = Append(wire, t)
  /\ UNCHANGED <<link, calls, current, known, past, owner, deliveries, got>>

\* Mutant: the ids of earlier turns are not remembered.
AdoptsAny(t) == known = 0

(* #matchesTurn: an id that is known decides; before one is known the      *)
(* first id that was not an earlier turn's is adopted.                     *)
Adopts(t) == known = 0 /\ t \notin past
Matches(t) == current # 0 /\ (known = t \/ Adopts(t))

Receive ==
  /\ wire # <<>> /\ stream = "up" /\ wire' = Tail(wire)
  /\ LET t == Head(wire)
     IN  IF Matches(t)
         THEN known' = t /\ deliveries' = Append(deliveries, <<t, current>>)
         ELSE UNCHANGED <<known, deliveries>>
  /\ UNCHANGED <<link, calls, current, past, owner, streamed, got>>

\* A delivery is dropped when the handle has gone to another turn since.
HandOver ==
  /\ deliveries # <<>> /\ deliveries' = Tail(deliveries)
  /\ got' = IF closed \/ Head(deliveries)[2] # current THEN got ELSE got \cup {<<Head(deliveries)[1], current>>}
  /\ UNCHANGED <<link, calls, current, known, past, owner, streamed, wire>>

RelayNext ==
  \/ Hello \/ NoHello \/ StreamEnds \/ Reopen \/ Exhausted \/ CloseRelay
  \/ \E r \in Req : AskHost(r) \/ NotOpen(r) \/ WriteFrame(r) \/ WriteThrows(r) \/ HostAnswers(r) \/ Timeout(r)
  \/ beginTurn \/ correlate \/ (\E t \in Turn : HostSends(t)) \/ Receive \/ HandOver

RelaySpec == RelayInit /\ [][RelayNext]_relay

-----------------------------------------------------------------------------
RelayTypeOK ==
  /\ stream \in {"opening", "up", "down", "none"} /\ ready \in {"no", "yes", "failed"}
  /\ closed \in BOOLEAN /\ {lapses, opened} \subseteq Nat
  /\ req \in [Req -> {"none", "asks", "unwritten", "written", "lost", "answered", "timeout"}]
  /\ reach \in [Req -> {"unseen", "seen", "answered"}]
  /\ current \in 0..MaxTurn /\ known \in 0..MaxTurn /\ past \subseteq Turn /\ owner \subseteq Turn
  /\ streamed \in [Turn -> Nat] /\ wire \in Seq(Turn)
  /\ deliveries \in Seq(Turn \X Turn) /\ got \subseteq Turn \X Turn

(* A request that waits for its answer waits on a stream that is open, and *)
(* one that waits for readiness on a handle that can still become ready:   *)
(* no caller is left on a relay that is gone.                              *)
NobodyLeft ==
  \A r \in Req :
    /\ req[r] = "written" => stream = "up"
    /\ req[r] = "asks" => ~(ready = "failed")

(* A request reported as never written was never seen by the host, so it   *)
(* may be made again.                                                      *)
UnwrittenUnseen == \A r \in Req : req[r] = "unwritten" => reach[r] = "unseen"

(* What the actor is given as the output of a turn is that turn's.         *)
OwnContent == \A p \in got : p[1] = p[2]

(* What a relay reports of a request and of a turn is what happened: no    *)
(* caller is left behind, nothing seen is called unwritten, no turn gets   *)
(* another's output.                                                       *)
RelayHonest == NobodyLeft /\ UnwrittenUnseen /\ OwnContent
=============================================================================
