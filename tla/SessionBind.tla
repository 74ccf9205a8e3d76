---------------------------- MODULE SessionBind ----------------------------
(***************************************************************************)
(* How one origin gets its session (orchestrator/session-port.ts, bind).   *)
(* A cold session.create is journaled under a key before the broker sees   *)
(* it, and the row stays until the binding is recorded and the session is  *)
(* indexed: a bind that finds the row replays it, waits for the binding it *)
(* led to, or retires it when the request has changed. A binding that is   *)
(* gone, and a key that is poisoned, move the origin to a new epoch. Binds *)
(* of different epochs run side by side; /new rotates the epoch under them.*)
(***************************************************************************)
EXTENDS Naturals, FiniteSets

CONSTANTS
  MaxEpoch,     \* bound: epochs of the origin
  MaxCreated,   \* bound: sessions the broker creates
  Request,      \* what a create asks for: workspace and model
  MaxRotations, \* MAX_POISONED_CREATE_ROTATIONS
  MaxDeaths,    \* bound: deaths of the gateway
  MaxFailures   \* bound: calls that fail, hosts that end

ASSUME BindAssumption ==
  /\ {MaxEpoch, MaxCreated, MaxRotations, MaxDeaths, MaxFailures} \subseteq Nat
  /\ MaxCreated > 0 /\ Request # {}

Epoch == 0..MaxEpoch
Session == 1..MaxCreated
Key == 1..MaxCreated + MaxFailures + 1
NoRow == [key |-> 0, req |-> 0]
Off == [pc |-> "off", req |-> 0, s |-> 0, recovery |-> TRUE]

VARIABLES
  rec,       \* the session row of the origin: epoch and session
  row,       \* the journal row of the create of an epoch
  closeRow,  \* the journal row of the close of a session
  rotations, \* poisoned creates since the last binding
  used,      \* keys minted
  made,      \* broker: the session a key created, 0 for none
  asked,     \* broker: what a session was created with, and for which epoch
  host,      \* broker: the session's host
  bind,      \* the bind of an epoch that is running
  handed,    \* history: the last cold binding handed out, with its request
  deaths, failures

bindVars == <<rec, row, closeRow, rotations, used, made, asked, host, bind, handed, deaths, failures>>

journaled == <<rec, row, closeRow, rotations, used>>
broker == <<made, asked, host>>

BindInit ==
  /\ rec = [epoch |-> 0, sess |-> 0]
  /\ row = [e \in Epoch |-> NoRow] /\ closeRow = [s \in Session |-> "none"]
  /\ rotations = 0 /\ used = 0
  /\ made = [k \in Key |-> 0] /\ asked = [s \in Session |-> [req |-> 0, epoch |-> 0]]
  /\ host = [s \in Session |-> "none"]
  /\ bind = [e \in Epoch |-> Off] /\ handed = [s |-> 0, req |-> 0]
  /\ deaths = 0 /\ failures = 0

CallFails == failures < MaxFailures /\ failures' = failures + 1
Live(s) == host[s] \in {"cold", "live"}
Goto(e, pc) == bind' = [bind EXCEPT ![e].pc = pc]
BindEnds(e) == bind' = [bind EXCEPT ![e] = Off]

(* A bind that fails leaves what is journaled for the next one.            *)
Throws(e) == BindEnds(e) /\ UNCHANGED <<journaled, handed>>

(* The epoch of the origin is rotated, whichever it is by now, and the     *)
(* bind goes on as the bind of the new one, joining it if there is one.    *)
Rotated == [epoch |-> rec.epoch + 1, sess |-> 0]

MovesOn(e, recovery) ==
  /\ rec.epoch < MaxEpoch /\ rec' = Rotated
  /\ LET n == rec.epoch + 1
     IN  bind' = [bind EXCEPT ![e] = Off,
                              ![n] = IF @.pc # "off" THEN @
                                     ELSE [Off EXCEPT !.pc = "start", !.req = bind[e].req, !.recovery = recovery]]

-----------------------------------------------------------------------------
Ask(e, q) ==
  /\ e = rec.epoch /\ bind[e].pc = "off"
  /\ bind' = [bind EXCEPT ![e] = [Off EXCEPT !.pc = "start", !.req = q]]
  /\ UNCHANGED <<journaled, broker, handed, deaths, failures>>

(* The bound session, if there is one: with its create still journaled it  *)
(* is cold, and waited for, or replaced when it was created otherwise.     *)
StartBound(e) ==
  /\ bind[e].pc = "start" /\ rec.epoch = e /\ rec.sess # 0
  /\ bind' = [bind EXCEPT ![e].s = rec.sess,
                          ![e].pc = IF row[e] = NoRow THEN "inspect"
                                    ELSE IF row[e].req # bind[e].req THEN "replace" ELSE "index"]
  /\ UNCHANGED <<journaled, broker, handed, deaths, failures>>

(* Without one, the create that is journaled, or a new one.                *)
Begun(e) == IF row[e] = NoRow THEN [key |-> used + 1, req |-> bind[e].req] ELSE row[e]
Minted(e) == used' = IF row[e] = NoRow THEN used + 1 ELSE used

StartCold(e) ==
  /\ bind[e].pc = "start" /\ (rec.epoch # e \/ rec.sess = 0)
  /\ used + 1 \in Key \/ row[e] # NoRow
  /\ row' = [row EXCEPT ![e] = Begun(e)] /\ Minted(e)
  /\ Goto(e, IF Begun(e).req = bind[e].req THEN "create" ELSE "retire")
  /\ UNCHANGED <<rec, closeRow, rotations, broker, handed, deaths, failures>>

-----------------------------------------------------------------------------
(* session.create under the key of the row: the broker replays what the    *)
(* key created, or creates. The answer may be lost; a model it does not    *)
(* know, or a poisoned key, created nothing and never will.                *)
Fresh == {s \in Session : host[s] = "none"}

Applies(e) ==
  LET k == row[e].key
  IN  \/ made[k] # 0 /\ UNCHANGED broker
      \/ \E s \in Fresh :
           /\ made[k] = 0 /\ \A y \in Fresh : s <= y
           /\ made' = [made EXCEPT ![k] = s] /\ host' = [host EXCEPT ![s] = "cold"]
           /\ asked' = [asked EXCEPT ![s] = [req |-> row[e].req, epoch |-> e]]

Creating(e) == bind[e].pc \in {"create", "retire"} /\ row[e] # NoRow
Rejected(e) == Creating(e) /\ made[row[e].key] = 0 /\ CallFails
Released(e) == row' = [row EXCEPT ![e] = NoRow]

Created(e) ==
  /\ Creating(e) /\ Applies(e)
  /\ bind' = [bind EXCEPT ![e].pc = IF @ = "create" THEN "record" ELSE "close", ![e].s = made'[row[e].key]]
  /\ UNCHANGED <<journaled, handed, deaths, failures>>

(* Mutant: a create that failed is taken for one that was refused.         *)
CreateFailsReleases(e, applied) ==
  /\ Creating(e) /\ CallFails /\ BindEnds(e) /\ Released(e)
  /\ IF applied THEN Applies(e) ELSE UNCHANGED broker
  /\ UNCHANGED <<rec, closeRow, rotations, used, handed, deaths>>

CreateFails(e, applied) ==
  /\ Creating(e) /\ CallFails /\ Throws(e)
  /\ IF applied THEN Applies(e) ELSE UNCHANGED broker
  /\ UNCHANGED deaths

UnknownModel(e) ==
  /\ Rejected(e) /\ Released(e)
  /\ IF bind[e].pc = "create" THEN BindEnds(e) ELSE Goto(e, "start")
  /\ UNCHANGED <<rec, closeRow, rotations, used, broker, handed, deaths>>

Poisoned(e) ==
  /\ Rejected(e) /\ Released(e)
  /\ IF bind[e].pc = "retire" THEN Goto(e, "start") /\ UNCHANGED <<rec, rotations>>
     ELSE IF ~bind[e].recovery \/ rotations >= MaxRotations THEN BindEnds(e) /\ UNCHANGED <<rec, rotations>>
     ELSE rotations' = rotations + 1 /\ MovesOn(e, FALSE)
  /\ UNCHANGED <<closeRow, used, broker, handed, deaths>>

(* The binding is recorded before the session is waited for, unless the    *)
(* origin has gone to a later epoch.                                       *)
Record(e) ==
  /\ bind[e].pc = "record"
  /\ IF rec.epoch = e
     THEN rec' = [rec EXCEPT !.sess = bind[e].s] /\ Goto(e, "index") /\ UNCHANGED row
     ELSE Released(e) /\ BindEnds(e) /\ UNCHANGED rec
  /\ UNCHANGED <<closeRow, rotations, used, broker, handed, deaths, failures>>

Indexed(e) ==
  /\ bind[e].pc = "index" /\ host[bind[e].s] = "live"
  /\ Released(e) /\ rotations' = 0 /\ BindEnds(e)
  /\ handed' = [s |-> bind[e].s, req |-> bind[e].req]
  /\ UNCHANGED <<rec, closeRow, used, broker, deaths, failures>>

IndexFails(e) ==
  /\ bind[e].pc = "index" /\ CallFails /\ Throws(e)
  /\ UNCHANGED <<broker, deaths>>

-----------------------------------------------------------------------------
(* A close is journaled per session; one that is complete is not issued    *)
(* again. A session the broker no longer has needs none.                   *)
Closing(e) == bind[e].pc \in {"close", "replace"}

Closes(e) ==
  /\ Closing(e)
  /\ LET s == bind[e].s
     IN  IF closeRow[s] = "complete" THEN UNCHANGED <<host, closeRow>>
         ELSE /\ host' = [host EXCEPT ![s] = IF Live(s) THEN "dead" ELSE @]
              /\ closeRow' = [closeRow EXCEPT ![s] = IF Live(s) \/ @ = "pending" THEN "complete" ELSE "none"]
  /\ Goto(e, IF bind[e].pc = "close" THEN "closed" ELSE "replaced")
  /\ UNCHANGED <<rec, row, rotations, used, made, asked, handed, deaths, failures>>

(* Then the create is retired: the bind starts again, in a new epoch when  *)
(* the session was already bound.                                          *)
Retires(e) ==
  /\ Released(e)
  /\ \/ bind[e].pc = "closed" /\ Goto(e, "start") /\ UNCHANGED rec
     \/ bind[e].pc = "replaced" /\ MovesOn(e, bind[e].recovery)
  /\ UNCHANGED <<closeRow, rotations, used, broker, handed, deaths, failures>>

CloseFails(e, applied) ==
  /\ Closing(e) /\ closeRow[bind[e].s] # "complete" /\ CallFails /\ BindEnds(e)
  /\ closeRow' = [closeRow EXCEPT ![bind[e].s] = "pending"]
  /\ host' = IF applied /\ Live(bind[e].s) THEN [host EXCEPT ![bind[e].s] = "dead"] ELSE host
  /\ UNCHANGED <<rec, row, rotations, used, made, asked, handed, deaths>>

-----------------------------------------------------------------------------
(* A recorded binding is inspected: live, it is handed out; dead, it is    *)
(* resumed; gone, or beyond resuming, it is left behind with its epoch. An *)
(* answer that cannot be read keeps it; an absent broker ends the bind.    *)
InspectLive(e) ==
  /\ bind[e].pc = "inspect" /\ Live(bind[e].s)
  /\ closeRow' = [closeRow EXCEPT ![bind[e].s] = "none"] /\ rotations' = 0 /\ BindEnds(e)
  /\ UNCHANGED <<rec, row, used, broker, handed, deaths, failures>>

InspectFails(e, unreadable) ==
  /\ bind[e].pc = "inspect" /\ CallFails /\ BindEnds(e)
  /\ rotations' = IF unreadable THEN 0 ELSE rotations
  /\ UNCHANGED <<rec, row, closeRow, used, broker, handed, deaths>>

Resume(e) ==
  /\ bind[e].pc = "inspect" /\ host[bind[e].s] = "dead"
  /\ closeRow' = [closeRow EXCEPT ![bind[e].s] = "none"] /\ rotations' = 0
  /\ host' = [host EXCEPT ![bind[e].s] = "live"] /\ BindEnds(e)
  /\ UNCHANGED <<rec, row, used, made, asked, handed, deaths, failures>>

(* The answer is lost, and the second look fails too.                      *)
ResumeFails(e, applied) ==
  /\ bind[e].pc = "inspect" /\ host[bind[e].s] = "dead" /\ CallFails /\ BindEnds(e)
  /\ closeRow' = [closeRow EXCEPT ![bind[e].s] = "none"]
  /\ host' = IF applied THEN [host EXCEPT ![bind[e].s] = "live"] ELSE host
  /\ UNCHANGED <<rec, row, rotations, used, made, asked, handed, deaths>>

Disowned(e) ==
  /\ bind[e].pc = "inspect"
  /\ \/ host[bind[e].s] = "deleted" /\ UNCHANGED <<failures, closeRow>>
     \/ host[bind[e].s] = "dead" /\ CallFails /\ closeRow' \in {closeRow, [closeRow EXCEPT ![bind[e].s] = "none"]}
  /\ MovesOn(e, bind[e].recovery)
  /\ UNCHANGED <<row, rotations, used, broker, handed, deaths>>

-----------------------------------------------------------------------------
(* The broker indexes a session; a host ends, or its session is deleted.   *)
Index(s) ==
  /\ host[s] = "cold" /\ host' = [host EXCEPT ![s] = "live"]
  /\ UNCHANGED <<journaled, made, asked, bind, handed, deaths, failures>>

HostEnds(s, to) ==
  /\ Live(s) /\ CallFails /\ host' = [host EXCEPT ![s] = to]
  /\ UNCHANGED <<journaled, made, asked, bind, handed, deaths>>

(* /new and every other rotation by the owner of the conversation.         *)
Reset ==
  /\ rec.epoch < MaxEpoch /\ rec' = Rotated
  /\ UNCHANGED <<row, closeRow, rotations, used, broker, bind, handed, deaths, failures>>

GatewayDies ==
  /\ deaths < MaxDeaths /\ deaths' = deaths + 1
  /\ bind' = [e \in Epoch |-> Off]
  /\ UNCHANGED <<journaled, broker, handed, failures>>

Step(e) ==
  \/ \E q \in Request : Ask(e, q)
  \/ StartBound(e) \/ StartCold(e) \/ Created(e) \/ UnknownModel(e) \/ Poisoned(e)
  \/ Record(e) \/ Indexed(e) \/ IndexFails(e) \/ Closes(e) \/ Retires(e) \/ InspectLive(e) \/ Resume(e) \/ Disowned(e)
  \/ \E b \in BOOLEAN : CreateFails(e, b) \/ CloseFails(e, b) \/ InspectFails(e, b) \/ ResumeFails(e, b)

BindNext ==
  \/ \E e \in Epoch : Step(e)
  \/ \E s \in Session : Index(s)
  \/ \E s \in Session, to \in {"dead", "deleted"} : HostEnds(s, to)
  \/ Reset \/ GatewayDies

BindSpec == BindInit /\ [][BindNext]_bindVars

-----------------------------------------------------------------------------
BindTypeOK ==
  /\ rec \in [epoch : Epoch, sess : Session \cup {0}]
  /\ row \in [Epoch -> {NoRow} \cup [key : Key, req : Request]]
  /\ closeRow \in [Session -> {"none", "pending", "complete"}]
  /\ rotations \in 0..MaxRotations /\ used \in Key \cup {0}
  /\ made \in [Key -> Session \cup {0}]
  /\ host \in [Session -> {"none", "cold", "live", "dead", "deleted"}]

(* Of the sessions created for the current epoch at most one has a host,   *)
(* and it is the bound one, or the one a journaled create leads to: no     *)
(* crash, lost answer or change of request leaves a host nobody knows of.  *)
Current == {s \in DOMAIN host : Live(s) /\ asked[s].epoch = rec.epoch}

NoStray ==
  \A s \in Current :
    /\ \/ s = rec.sess
       \/ row[rec.epoch] # NoRow /\ made[row[rec.epoch].key] = s
    /\ Current = {s}

(* A cold binding is handed out for the request it was created with.       *)
BoundAsAsked == handed.s # 0 => asked[handed.s].req = handed.req

(* A session that is bound and alive can be closed: no close of an earlier *)
(* host stands for it.                                                     *)
Closable == rec.sess # 0 /\ Live(rec.sess) => closeRow[rec.sess] # "complete"

(* An origin keeps track of every session it created: none is live that    *)
(* neither the binding nor a journal row leads to, and what a bind hands   *)
(* out was created for the request that asked.                             *)
OneHost == NoStray /\ BoundAsAsked /\ Closable
=============================================================================
