---------------------------- MODULE AnswerSpeech ----------------------------
(***************************************************************************)
(* How one turn speaks: the messages the model finalises while it works,   *)
(* the parts of its final answer, the posts it addresses to other          *)
(* conversations, and the notice when it fails.  Each part of the answer   *)
(* owns a slot of the trigger's row; claiming the slot and writing the     *)
(* delivery are two transactions, the process may die or a step may throw  *)
(* between any two, and the whole answer is then said again.               *)
(*                                                                         *)
(* A text is the sequence of parts its [BREAK]s and routing blocks make;   *)
(* the empty text stands for one that says nothing.  Reactions, files and  *)
(* handoffs, and the judgements that drop a part, are left out.            *)
(***************************************************************************)
EXTENDS Naturals, Sequences, FiniteSets

CONSTANTS
    Tellings,   \* the final text, as the turn's relay carried it and as it is
                \* read back later, which may be worded differently
    Frames,     \* texts it may say while it works
    MaxFrames,  \* bound: texts said while it works
    Budget,     \* maxTurnParts
    MaxCrash,   \* bound: processes that die
    MaxThrow    \* bound: steps that throw
Part == [post : BOOLEAN, body : Nat]
Texts == {a.live : a \in Tellings} \union {a.later : a \in Tellings}
SpeechAssumption ==
    /\ \A t \in Texts \union Frames : \A k \in DOMAIN t : t[k] \in Part
    /\ \A a \in Tellings : /\ Len(a.live) = Len(a.later)
                          /\ \A k \in DOMAIN a.live : a.live[k].post = a.later[k].post
    /\ {MaxFrames, Budget, MaxCrash, MaxThrow} \subseteq Nat

Terminal(k) == <<"terminal", k>>
Interim(body, k) == <<"interim", body, k>>
Post(k) == <<"post", k>>
HeldPost(body) == <<"held", body>>
Nothing == <<>>
Places == 1..(CHOOSE n \in {Len(t) : t \in Texts} : \A t \in Texts : Len(t) <= n)

VARIABLES
    slot,     \* terminal_delivery_id: the delivery that owns each part
    unlinked, \* terminal_delivery_id says why there is none
    ledger,   \* delivery id -> what it says, for the deliveries written
    row,      \* turn_state of the trigger
    outcome,  \* how the session says the turn ended
    told,     \* the text the session ended with
    life,     \* the turn's lifecycle in this process
    pc,       \* what the process is doing with it
    frames, crashes, throws

vars == <<slot, unlinked, ledger, row, outcome, told, life, pc, frames, crashes, throws>>

NoLife == [alive |-> FALSE, owned |-> FALSE, said |-> 0, last |-> Nothing, held |-> {}, posted |-> {}, ended |-> FALSE]
Fresh(owned) == [NoLife EXCEPT !.alive = TRUE, !.owned = owned]
Idle == [pass |-> "idle", text |-> <<>>, k |-> 0, failing |-> FALSE]
Goto(pass) == [pc EXCEPT !.pass = pass]
NextPart(pass) == [pc EXCEPT !.pass = pass, !.k = @ + 1]

Init ==
    /\ slot = [k \in Places |-> Nothing] /\ unlinked = FALSE /\ ledger = [id \in {} |-> 0]
    /\ row = "bound" /\ outcome \in {"ok", "failed"} /\ told \in Tellings
    /\ life = Fresh(TRUE) /\ pc = Idle /\ frames = 0 /\ crashes = 0 /\ throws = 0

Written == DOMAIN ledger
Owned == {k \in Places : slot[k] # Nothing}

\* outbox.create refuses an id it has; what was new is on the wire.
Prepare(id, body) ==
    /\ ledger' = IF id \in Written THEN ledger ELSE [i \in Written \union {id} |-> IF i = id THEN body ELSE ledger[i]]
Spoken(l, id) == IF id \in Written THEN l ELSE [l EXCEPT !.said = @ + 1, !.last = id]

\* claimTerminal: the first delivery to claim a part keeps it.
Claim(k, id) == slot' = IF slot[k] = Nothing THEN [slot EXCEPT ![k] = id] ELSE slot
\* A claimed slot taken for a part that was said.
OwnerOnlyIfFree(k, id) == IF slot[k] = Nothing THEN id ELSE Nothing
Owner(k, id) == IF slot[k] = Nothing THEN id ELSE slot[k]

Now(p) == pc.pass = p /\ life.alive /\ row = "bound"
More == pc.k <= Len(pc.text)
Here == pc.text[pc.k]

-----------------------------------------------------------------------------
\* The relay the turn was sent on delivers what the model says mid-work.
Frame(f) ==
    /\ Now("idle") /\ life.owned /\ ~life.ended /\ frames < MaxFrames
    /\ frames' = frames + 1
    /\ pc' = [Idle EXCEPT !.pass = "interim", !.text = f, !.k = 1]
    /\ UNCHANGED <<slot, unlinked, ledger, row, outcome, told, life, crashes, throws>>

InterimDone ==
    /\ Now("interim") /\ (~More \/ life.said >= Budget)
    /\ pc' = Idle
    /\ UNCHANGED <<slot, unlinked, ledger, row, outcome, told, life, frames, crashes, throws>>

InterimPart ==
    /\ Now("interim") /\ More /\ life.said < Budget
    /\ IF Here.post
       THEN /\ life' = [life EXCEPT !.held = @ \union {Here.body}]
            /\ UNCHANGED ledger
       ELSE /\ Prepare(Interim(Here.body, pc.k), Here.body)
            /\ life' = Spoken(life, Interim(Here.body, pc.k))
    /\ pc' = NextPart("interim")
    /\ UNCHANGED <<slot, unlinked, row, outcome, told, frames, crashes, throws>>

-----------------------------------------------------------------------------
\* onTerminal: a silent answer to which nothing was said closes at once.
Read == IF life.owned THEN told.live ELSE told.later
Answer ==
    /\ Now("idle") /\ outcome = "ok"
    /\ pc' = [Idle EXCEPT !.pass = IF Read = <<>> /\ life.said = 0 THEN "close" ELSE "claim", !.text = Read, !.k = 1]
    /\ UNCHANGED <<slot, unlinked, ledger, row, outcome, told, life, frames, crashes, throws>>

\* onFailure: the answer the transcript still has, if nothing was said yet.
Failure(t) ==
    /\ Now("idle") /\ outcome = "failed"
    /\ pc' = [pass |-> IF t # <<>> /\ life.said = 0 THEN "claim" ELSE "notice", text |-> t, k |-> 1, failing |-> TRUE]
    /\ UNCHANGED <<slot, unlinked, ledger, row, outcome, told, life, frames, crashes, throws>>

\* deliverTurnText, terminal: what was already said mid-work satisfies the slot.
Id == IF Here.post THEN Post(pc.k) ELSE Terminal(pc.k)
CandidateIgnoringInterim == Id
Candidate == IF ~Here.post /\ Interim(Here.body, pc.k) \in Written THEN Interim(Here.body, pc.k) ELSE Id
ClaimPart ==
    /\ Now("claim") /\ More
    /\ Claim(pc.k, Candidate)
    /\ life' = IF Here.post THEN [life EXCEPT !.posted = @ \union {Here.body}] ELSE life
    /\ pc' = IF Owner(pc.k, Candidate) = Id THEN Goto("prepare") ELSE NextPart("claim")
    /\ unlinked' = FALSE
    /\ UNCHANGED <<ledger, row, outcome, told, frames, crashes, throws>>

PreparePart ==
    /\ Now("prepare")
    /\ Prepare(Id, Here.body)
    /\ life' = Spoken(life, Id)
    /\ pc' = NextPart("claim")
    /\ UNCHANGED <<slot, unlinked, row, outcome, told, frames, crashes, throws>>

\* deliverAssistantText: the held posts the answer did not repeat.
Unposted == life.held \ life.posted
HeldPosts(b) ==
    /\ Now("claim") /\ ~More /\ b \in Unposted
    /\ Prepare(HeldPost(b), b)
    /\ life' = [Spoken(life, HeldPost(b)) EXCEPT !.posted = @ \union {b}]
    /\ UNCHANGED <<slot, unlinked, row, outcome, told, pc, frames, crashes, throws>>
Said ==
    /\ Now("claim") /\ ~More /\ Unposted = {}
    /\ pc' = Goto(IF pc.failing THEN "notice" ELSE "close")
    /\ UNCHANGED <<slot, unlinked, ledger, row, outcome, told, life, frames, crashes, throws>>

\* The failure notice takes the identity of the answer's first part; a stall
\* cutoff sends it after mid-work speech as well.
Notice(forced) ==
    /\ Now("notice")
    /\ IF life.said = 0 \/ forced THEN Prepare(Terminal(1), 0) ELSE UNCHANGED ledger
    /\ pc' = Goto("close")
    /\ UNCHANGED <<slot, unlinked, row, outcome, told, life, frames, crashes, throws>>

LastUnnamed == slot
NameLast == IF Owned = {} THEN [slot EXCEPT ![1] = life.last] ELSE slot

\* closeTerminalLink, then endProgress.
Close ==
    /\ Now("close")
    /\ IF life.last = Nothing
       THEN unlinked' = (unlinked \/ Owned = {}) /\ UNCHANGED slot
       ELSE /\ slot' = NameLast
            /\ unlinked' = (unlinked /\ Owned # {})
    /\ life' = [life EXCEPT !.ended = TRUE]
    /\ pc' = Goto("complete")
    /\ UNCHANGED <<ledger, row, outcome, told, frames, crashes, throws>>

\* turnComplete.
Complete ==
    /\ Now("complete")
    /\ row' = "done" /\ unlinked' = (unlinked \/ Owned = {})
    /\ UNCHANGED <<slot, ledger, outcome, told, life, pc, frames, crashes, throws>>

-----------------------------------------------------------------------------
\* A write fails: the turn stays unsettled and a later reconcile begins again
\* with the same lifecycle.
Throw ==
    /\ throws < MaxThrow /\ life.alive /\ row = "bound"
    /\ pc.pass \in {"claim", "prepare", "notice", "close", "complete"}
    /\ throws' = throws + 1
    /\ life' = [life EXCEPT !.ended = TRUE]
    /\ pc' = Idle
    /\ UNCHANGED <<slot, unlinked, ledger, row, outcome, told, frames, crashes>>

Crash ==
    /\ crashes < MaxCrash /\ life.alive
    /\ crashes' = crashes + 1
    /\ life' = NoLife /\ pc' = Idle
    /\ UNCHANGED <<slot, unlinked, ledger, row, outcome, told, frames, throws>>

\* The next process adopts the turn; its relay carries no content for it.
Adopt ==
    /\ ~life.alive /\ row = "bound"
    /\ life' = Fresh(FALSE)
    /\ UNCHANGED <<slot, unlinked, ledger, row, outcome, told, pc, frames, crashes, throws>>

Next ==
    \/ \E f \in Frames : Frame(f)
    \/ InterimDone \/ InterimPart \/ ClaimPart \/ PreparePart \/ Said \/ Close \/ Complete
    \/ Answer \/ \E t \in {told.later, <<>>} : Failure(t)
    \/ \E b \in life.held : HeldPosts(b)
    \/ \E forced \in BOOLEAN : Notice(forced)
    \/ Throw \/ Crash \/ Adopt

Spec == Init /\ [][Next]_vars

-----------------------------------------------------------------------------
\* A part of the answer is not said twice, neither under its own slot after
\* mid-work speech nor as mid-work speech with another delivery, whatever was
\* retried or reworded in between; nor is a post sent both held and final.
SaidOnce ==
    /\ \A k \in Places : Terminal(k) \in Written /\ ledger[Terminal(k)] # 0 =>
           Interim(ledger[Terminal(k)], k) \notin Written
    /\ \A k \in Places : Post(k) \in Written => HeldPost(ledger[Post(k)]) \notin Written

\* A turn that is done has said its whole answer, or if it failed has said so.
AllSaid ==
    row = "done" =>
        IF outcome = "ok" THEN \A k \in Owned : slot[k] \in Written
        ELSE Written # {}

\* A turn that is done names the delivery that closed it or the reason none did,
\* and gives a reason only when nothing but a failure notice was said.
Linked ==
    row = "done" =>
        /\ (Owned # {}) # unlinked
        /\ unlinked /\ crashes = 0 => \A id \in Written : ledger[id] = 0

\* A post held for the end of the turn is sent by an answer that says anything.
HeldSent ==
    pc.pass = "complete" /\ life.alive /\ outcome = "ok" /\ (pc.text # <<>> \/ life.said > 0) =>
        \A b \in life.held :
            \/ HeldPost(b) \in Written
            \/ \E k \in DOMAIN pc.text : pc.text[k] = [post |-> TRUE, body |-> b] /\ Post(k) \in Written

\* What the turn says is said whole and once.
SpokenWhole == SaidOnce /\ AllSaid /\ Linked /\ HeldSent
=============================================================================
