--------------------------- MODULE ContextLedger ---------------------------
(***************************************************************************)
(* The unread ledger of one conversation.  Every platform message lands in *)
(* conversation_context; a turn's prompt renders the unread rows, and the  *)
(* rows are marked consumed only when the turn that rendered them settles. *)
(* Between the two the gateway may crash, the prompt may never arrive, the *)
(* owner may send /new, or a hold may be escalated to a fresh session.     *)
(*                                                                         *)
(* Messages are numbered in the order the gateway receives them; a turn is *)
(* named by its trigger.  One action is one transaction of the store, with *)
(* the work in memory that precedes it.  Posts from other conversations    *)
(* and message edits, which add rows of their own, are left out.           *)
(***************************************************************************)
EXTENDS Integers, FiniteSets

CONSTANTS
    MaxMessages, \* messages the conversation receives
    MaxNow,      \* bound on the clock
    MaxEpochs,   \* bound on the sessions of the conversation
    Relevance,   \* CONVERSATION_DIFF_MAX_AGE_MS
    Retention,   \* CONVERSATION_CONTEXT_RETENTION_MS
    Limit,       \* CONVERSATION_DIFF_MAX_ROWS
    Late,        \* how long after it was sent a message may be received
    MayEmpty     \* whether every row may fall out of retention before the next

ASSUME ContextLedgerAssumption ==
    /\ {MaxMessages, MaxNow, MaxEpochs, Relevance, Retention, Limit, Late} \subseteq Nat
    /\ Limit > 0 /\ Late <= Relevance /\ Retention >= Relevance /\ MayEmpty \in BOOLEAN

Msg == 1..MaxMessages
NoClaim == [sent |-> FALSE, ids |-> {}]

VARIABLES
    ctx,       \* conversation_context: [row, id, at, read]
    inb,       \* inbound_messages: state, role, op, epoch and arrival of a message
    claim,     \* send_attempted_at and send_context_json of a trigger
    floor,     \* conversation_context_state: floor_at and floor_row_id
    omit,      \* pending omission count and omission_revision
    failed,    \* the turn-failed:<origin>:<op> markers
    escalated, \* holds whose conversation moved to a fresh session
    epochNow, now,
    live,      \* the turn lifecycles of this process
    landed,    \* prompts the runtime has taken
    \* what happened, for the properties
    heard,     \* message -> the turns whose model saw it
    omitted,   \* messages consumed without being rendered
    untold,    \* those no answered prompt has mentioned yet
    answered,  \* turns whose answer the owner got
    carried,   \* messages a /new made unread again
    prior,     \* messages received before the last /new
    wronged    \* messages omitted though they were recent, few and newer than that

ledgerVars == <<ctx, inb, claim, floor, omit, failed, escalated, epochNow, now, live, landed,
          heard, omitted, untold, answered, carried, prior, wronged>>
unreadVars == <<ctx, floor, omit, omitted, untold, prior, wronged>>

NoMessage == [state |-> "none", role |-> "none", turn |-> "none", op |-> 0, epoch |-> 0, at |-> 0]

LedgerInit ==
    /\ ctx = {} /\ inb = [m \in Msg |-> NoMessage] /\ claim = [m \in Msg |-> NoClaim]
    /\ floor = [at |-> 0, row |-> 0] /\ omit = [pending |-> 0, rev |-> 0]
    /\ failed = {} /\ escalated = {} /\ epochNow = 1 /\ now = Relevance /\ live = {} /\ landed = {}
    /\ heard = [m \in Msg |-> {}] /\ omitted = {} /\ untold = {} /\ answered = {} /\ carried = {}
    /\ prior = {} /\ wronged = {}

Latest(S) == CHOOSE x \in S \union {0} : \A y \in S : y <= x
Ids(rows) == {r.id : r \in rows}
Unread == {r \in ctx : ~r.read}
Read(rows) == {IF r \in rows THEN [r EXCEPT !.read = TRUE] ELSE r : r \in ctx}
Cutoff == now - Relevance

\* contextRecord and, for an engaged message, enqueue.  SQLite gives the row
\* the number after the largest one in the table.
ReceiveMessage(m, at, engaged) ==
    /\ inb[m].state = "none" /\ \A k \in 1..(m - 1) : inb[k].state # "none"
    /\ at \in (now - Late)..now
    /\ ctx' = ctx \union {[row |-> Latest({r.row : r \in ctx}) + 1, id |-> m, at |-> at, read |-> FALSE]}
    /\ inb' = [inb EXCEPT ![m] = [NoMessage EXCEPT !.state = IF engaged THEN "pending" ELSE "context", !.at = at]]
    /\ UNCHANGED <<claim, floor, omit, failed, escalated, epochNow, now, live, landed,
                   heard, omitted, untold, answered, carried, prior, wronged>>

\* What a reader is told an omission means: too old, cut off by a /new, or one
\* of more than Limit.
OmissionDue(r) ==
    \/ r.at < Cutoff \/ r.id \in prior' \/ r.at < floor'.at
    \/ Cardinality({s \in Unread : s.at >= r.at /\ s # r}) >= Limit

\* #recordContextOmissions: rows consumed unread are counted until a prompt says so.
Omit(gone) ==
    /\ omit' = IF gone = {} THEN omit
               ELSE [pending |-> omit.pending + Cardinality(gone), rev |-> omit.rev + 1]
    /\ omitted' = omitted \union Ids(gone)
    /\ untold' = untold \union Ids(gone)
    /\ wronged' = wronged \union Ids({r \in gone : ~OmissionDue(r)})

\* contextWindow: rows below the floor or beyond the newest Limit are consumed
\* and counted; the rest are the prompt's unread block.
Below(r) == r.at < Latest({Cutoff, floor.at}) \/ r.row <= floor.row
IsNewer(r, s) == r.at > s.at \/ (r.at = s.at /\ r.row > s.row)
Eligible(trigger) == {r \in Unread : r.id # trigger /\ ~Below(r)}
UnreadWindow(trigger) == {r \in Eligible(trigger) : Cardinality({s \in Eligible(trigger) : IsNewer(s, r)}) < Limit}
Dropped(trigger) == {r \in Unread : r.id # trigger} \ UnreadWindow(trigger)

\* The next pending row becomes the trigger of a turn and its prompt is rendered.
CurrentTurns == {l \in live : ~l.retired}
Nonterminal == {m \in Msg : inb[m].role = "trigger" /\ inb[m].turn \in {"bound", "accepted"}}
Dispatch(m) ==
    /\ CurrentTurns = {} /\ \A k \in Nonterminal : inb[k].epoch < epochNow
    /\ inb[m].state = "pending" /\ inb[m].turn = "none"
    /\ \A k \in 1..(m - 1) : ~(inb[k].state = "pending" /\ inb[k].turn = "none")
    /\ inb' = [inb EXCEPT ![m].role = "trigger", ![m].turn = "bound", ![m].op = m, ![m].epoch = epochNow]
    /\ ctx' = Read(Dropped(m))
    /\ UNCHANGED <<floor, prior>>
    /\ Omit(Dropped(m))
    /\ live' = live \union {[op |-> m, ids |-> Ids(UnreadWindow(m)) \union {m}, rev |-> omit'.rev,
                             told |-> untold', retired |-> FALSE]}
    /\ UNCHANGED <<claim, failed, escalated, epochNow, now, landed, heard, answered, carried>>

\* markSendAttempted: the claim is durable before the prompt leaves.
Stamp(l) ==
    /\ l \in live /\ ~l.retired /\ inb[l.op].turn = "bound" /\ ~claim[l.op].sent
    /\ claim' = [claim EXCEPT ![l.op] = [sent |-> TRUE, ids |-> l.ids]]
    /\ UNCHANGED <<unreadVars, inb, failed, escalated, epochNow, now, live, landed, heard, answered, carried>>

\* The runtime takes the prompt; its acceptance may never be heard of.
Land(op) ==
    /\ inb[op].turn = "bound" /\ claim[op].sent /\ op \notin landed
    /\ landed' = landed \union {op}
    /\ heard' = [m \in Msg |-> IF m \in claim[op].ids THEN heard[m] \union {op} ELSE heard[m]]
    /\ UNCHANGED <<unreadVars, inb, claim, failed, escalated, epochNow, now, live, answered, carried>>

\* turnAccept: steers issued into the turn are settled with it.
Accept(l) ==
    /\ l \in live /\ l.op \in landed /\ inb[l.op].turn = "bound"
    /\ inb' = [m \in Msg |->
                 IF m = l.op THEN [inb[m] EXCEPT !.turn = "accepted"]
                 ELSE IF inb[m].op = l.op /\ inb[m].role = "steer" /\ inb[m].turn = "bound"
                 THEN [inb[m] EXCEPT !.state = "done", !.turn = "done"] ELSE inb[m]]
    /\ UNCHANGED <<unreadVars, claim, failed, escalated, epochNow, now, live, landed, heard, answered, carried>>

\* A message that arrives while the turn runs is steered into it, unless the
\* prompt already carried it: then it is closed without being sent.
Steerable(l, m) ==
    /\ l \in live /\ ~l.retired /\ inb[l.op].turn = "accepted"
    /\ inb[m].state = "pending" /\ inb[m].turn = "none"
ClosedInto(r, op, epoch) ==
    [r EXCEPT !.state = "done", !.role = "steer", !.turn = "done", !.op = op, !.epoch = epoch]
SteerKnown(l, m) ==
    /\ Steerable(l, m) /\ m \in l.ids
    /\ inb' = [inb EXCEPT ![m] = ClosedInto(@, l.op, epochNow)]
    /\ ctx' = Read({r \in ctx : r.id = m})
    /\ UNCHANGED <<claim, floor, omit, failed, escalated, epochNow, now, live, landed,
                   heard, omitted, untold, answered, carried, prior, wronged>>
SteerIssue(l, m) ==
    /\ Steerable(l, m) /\ m \notin l.ids
    /\ inb' = [inb EXCEPT ![m].role = "steer", ![m].turn = "bound", ![m].op = l.op, ![m].epoch = epochNow]
    /\ heard' = [heard EXCEPT ![m] = @ \union {l.op}]
    /\ UNCHANGED <<unreadVars, claim, failed, escalated, epochNow, now, live, landed, answered, carried>>
SteerAccepted(l, m) ==
    /\ l \in live /\ inb[m].role = "steer" /\ inb[m].turn = "bound" /\ inb[m].op = l.op
    /\ inb' = [inb EXCEPT ![m].state = "done", ![m].turn = "done"]
    /\ ctx' = Read({r \in ctx : r.id = m})
    /\ UNCHANGED <<claim, floor, omit, failed, escalated, epochNow, now, live, landed,
                   heard, omitted, untold, answered, carried, prior, wronged>>

CommitClears(l) ==
    /\ ctx' = Read({r \in ctx : r.id \in l.ids})
    /\ omit' = [omit EXCEPT !.pending = 0]
    /\ untold' = untold \ l.told

\* contextCommitWindow: the rows the prompt rendered are read, and the omission
\* note is settled unless something was omitted since the window was taken.
Commit(l) ==
    /\ ctx' = Read({r \in ctx : r.id \in l.ids})
    /\ omit' = IF omit.rev = l.rev THEN [omit EXCEPT !.pending = 0] ELSE omit
    /\ untold' = untold \ l.told
RetiredUnheard(l) == l.retired /\ l.op \notin escalated
Settled(op) == [inb EXCEPT ![op].state = "done", ![op].turn = "done"]

\* onTerminal commits the window (a turn a /new retired is settled unheard), and the completion of the turn follows in a
\* transaction of its own.
Commits(l) ==
    /\ l \in live /\ inb[l.op].turn = "accepted" /\ l.op \notin answered /\ ~RetiredUnheard(l)
    /\ Commit(l)
    /\ answered' = answered \union {l.op}
    /\ UNCHANGED <<inb, claim, floor, failed, escalated, epochNow, now, live, landed, heard, omitted, carried,
                   prior, wronged>>
Completes(l) ==
    /\ l \in live /\ inb[l.op].turn = "accepted"
    /\ l.op \in answered \/ RetiredUnheard(l)
    /\ inb' = Settled(l.op)
    /\ live' = live \ {l}
    /\ UNCHANGED <<unreadVars, claim, failed, escalated, epochNow, now, landed, heard, answered, carried>>

\* onFailure: a turn that said nothing keeps its rows unread and leaves the
\* marker a later /new reads; one that had spoken counts as answered.
Fails(l, spoke) ==
    /\ l \in live /\ inb[l.op].turn = "accepted" /\ l.op \notin answered /\ ~RetiredUnheard(l)
    /\ inb' = Settled(l.op)
    /\ live' = live \ {l}
    /\ \/ /\ spoke /\ Commit(l)
          /\ answered' = answered \union {l.op}
          /\ failed' = failed
       \/ /\ ~spoke
          /\ failed' = failed \union {l.op}
          /\ UNCHANGED <<ctx, omit, untold, answered>>
    /\ UNCHANGED <<claim, floor, escalated, epochNow, now, landed, heard, omitted, carried, prior, wronged>>

\* A bound turn that provably never reached the runtime goes back to the queue.
Unbound(op) ==
    [m \in Msg |-> IF inb[m].state = "pending" /\ inb[m].op = op
                   THEN [NoMessage EXCEPT !.state = "pending", !.at = inb[m].at] ELSE inb[m]]
Requeue(op) ==
    /\ inb[op].turn = "bound" /\ op \notin landed \union escalated
    /\ claim[op].sent \/ \A l \in live : l.op = op => l.retired
    /\ inb' = Unbound(op)
    /\ claim' = [claim EXCEPT ![op] = NoClaim]
    /\ live' = {l \in live : l.op # op}
    /\ UNCHANGED <<unreadVars, failed, escalated, epochNow, now, landed, heard, answered, carried>>

ProcessDies ==
    /\ live # {} /\ live' = {}
    /\ UNCHANGED <<unreadVars, inb, claim, failed, escalated, epochNow, now, landed, heard, answered, carried>>

\* A recovered turn that takes a window of its own and is handed what it never saw.
SentAndUnread(op) == {op} \union claim[op].ids \union Ids(UnreadWindow(op))
SentTriggerOnly(op) == {op}

\* sentContextIds: what a turn already sent owns, its trigger and its steers included.
SentIds(op) == {op} \union claim[op].ids \union {m \in Msg : inb[m].op = op /\ inb[m].role = "steer"}

\* A turn that was sent by a process that is gone: it owns what its prompt
\* claimed and no window is taken for it.
Adopt(op) ==
    /\ op \in Nonterminal /\ claim[op].sent /\ \A l \in live : l.op # op
    /\ live' = live \union {[op |-> op, ids |-> SentIds(op), rev |-> -1, told |-> {},
                             retired |-> inb[op].epoch < epochNow]}
    /\ UNCHANGED <<unreadVars, inb, claim, failed, escalated, epochNow, now, landed, heard, answered, carried>>

\* A hold on a dead host moves the conversation to a fresh session and fences
\* every input the held prompt may have carried.
EscalateHold(op) ==
    /\ op \in Nonterminal /\ claim[op].sent /\ op \notin escalated /\ op \notin answered /\ epochNow < MaxEpochs
    /\ inb[op].turn = "bound"
    /\ escalated' = escalated \union {op}
    /\ epochNow' = IF inb[op].epoch < epochNow THEN epochNow ELSE epochNow + 1
    /\ ctx' = Read({r \in ctx : r.id \in SentIds(op)})
    /\ inb' = [m \in Msg |-> IF m \in SentIds(op) /\ inb[m].state = "pending" /\ inb[m].turn = "none"
                             THEN ClosedInto(inb[m], op, inb[op].epoch) ELSE inb[m]]
    /\ live' = {IF l.op = op THEN [l EXCEPT !.retired = TRUE] ELSE l : l \in live}
    /\ UNCHANGED <<claim, floor, omit, failed, now, landed, heard, omitted, untold, answered, carried, prior, wronged>>

\* #unansweredTailRowIds: the messages of the failed turns at the end of the
\* conversation, which nothing has answered.
DoneTriggers == {m \in Msg : inb[m].role = "trigger" /\ inb[m].state = "done" /\ inb[m].at >= Cutoff /\ inb[m].at < now}
Before(a, b) == inb[a].at < inb[b].at \/ (inb[a].at = inb[b].at /\ a < b)
FailedTail == {m \in DoneTriggers \intersect failed : \A k \in DoneTriggers : Before(m, k) => k \in failed}
CarriedRows == {r \in ctx : r.at >= Cutoff /\ r.at < now /\ inb[r.id].op \in FailedTail}

\* /new: everything so far is consumed and counted, the unanswered tail becomes
\* unread again, queued messages are discarded, and the running turn is retired.
NewConversation ==
    /\ epochNow < MaxEpochs
    /\ epochNow' = epochNow + 1
    /\ LET keep == CarriedRows
           top == Latest({r.row : r \in ctx})
           gone == Unread \ keep
           first == CHOOSE r \in keep : \A s \in keep : r.row <= s.row
       IN /\ ctx' = {IF r \in keep THEN [r EXCEPT !.read = FALSE]
                     ELSE IF r \in gone THEN [r EXCEPT !.read = TRUE] ELSE r : r \in ctx}
          /\ floor' = IF keep = {} THEN [at |-> now, row |-> top] ELSE [at |-> first.at, row |-> first.row - 1]
          /\ prior' = {m \in Msg : inb[m].state # "none"}
          /\ Omit(gone)
          /\ carried' = carried \union Ids(keep)
    /\ failed' = {}
    /\ inb' = [m \in Msg |-> IF inb[m].state = "pending" /\ inb[m].turn = "none" /\ inb[m].at <= now
                             THEN [inb[m] EXCEPT !.state = "done"] ELSE inb[m]]
    /\ live' = {[l EXCEPT !.retired = TRUE] : l \in live}
    /\ UNCHANGED <<claim, escalated, now, landed, heard, answered>>

\* contextMaintain: unread rows nobody will read are consumed and counted, read
\* rows past retention are deleted.
Maintain ==
    /\ LET stale == {r \in Unread : r.at < Cutoff}
           kept == {r \in Read(stale) : ~(r.read /\ r.at + Retention < now)}
       IN /\ stale # {} \/ kept # ctx
          /\ MayEmpty \/ \E r \in kept : \A s \in ctx : s.row <= r.row
          /\ ctx' = kept
          /\ UNCHANGED <<floor, prior>>
          /\ Omit(stale)
    /\ UNCHANGED <<inb, claim, failed, escalated, epochNow, now, live, landed, heard, answered, carried>>

ClockTick ==
    /\ now < MaxNow /\ now' = now + 1
    /\ UNCHANGED <<unreadVars, inb, claim, failed, escalated, epochNow, live, landed, heard, answered, carried>>

LedgerNext ==
    \/ \E m \in Msg, at \in 0..MaxNow, engaged \in BOOLEAN : ReceiveMessage(m, at, engaged)
    \/ \E m \in Msg : Dispatch(m) \/ Land(m) \/ Requeue(m) \/ Adopt(m) \/ EscalateHold(m)
    \/ \E l \in live : Stamp(l) \/ Accept(l) \/ Commits(l) \/ Completes(l) \/ Fails(l, TRUE) \/ Fails(l, FALSE)
    \/ \E l \in live, m \in Msg : SteerKnown(l, m) \/ SteerIssue(l, m) \/ SteerAccepted(l, m)
    \/ ProcessDies \/ NewConversation \/ Maintain \/ ClockTick

LedgerSpec == LedgerInit /\ [][LedgerNext]_ledgerVars

-----------------------------------------------------------------------------

LedgerTypeOK ==
    /\ \A r \in ctx : r.row \in Nat /\ r.id \in Msg /\ r.at \in Nat /\ r.read \in BOOLEAN
    /\ \A m \in Msg : inb[m].state \in {"none", "context", "pending", "done"}
    /\ failed \subseteq Msg /\ escalated \subseteq Msg /\ landed \subseteq Msg

Received == {m \in Msg : inb[m].state # "none"}
InDoubt == {op \in Msg : claim[op].sent /\ op \in escalated}

\* The ledger loses no message: one that is no longer unread was seen by the
\* model of some turn, is counted as omitted, or is an input of a held prompt
\* whose arrival nobody can tell.
NothingLost ==
    \A m \in Received \ Ids(Unread) :
        \/ heard[m] # {} \/ m \in omitted
        \/ \E op \in InDoubt : m \in SentIds(op)

\* Only what is too old, cut off by a /new, or beyond the newest Limit is omitted.
OmitsOnlyOld == wronged = {}

\* An omission is reported until an answered prompt has mentioned it, even when
\* it happened while that prompt was running.
OmissionsTold == Cardinality(untold) <= omit.pending

\* What an answered turn read as unread is not unread to a later one, whatever
\* crash or escalation came between, unless a /new asked for it again.
ReadOnce ==
    \A m \in Msg \ carried :
        Cardinality({op \in answered \ {m} : m \in claim[op].ids}) <= 1

\* The unread ledger of a conversation is exact.
LedgerKept == NothingLost /\ OmitsOnlyOld /\ OmissionsTold /\ ReadOnce
=============================================================================
