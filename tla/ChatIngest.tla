----------------------------- MODULE ChatIngest -----------------------------
(***************************************************************************)
(* What chat.send and chat.edit admit to one open, muteable thread whose   *)
(* bots may open turns: the ledger of what was said, the rows the persona  *)
(* will read, the mute an answer of [SHUTUP] leaves behind, the speech     *)
(* gate that is awaited before an unaddressed message is admitted, and the *)
(* budgets that stop two bots answering each other.                        *)
(*                                                                         *)
(* Adapters repeat a request they have no answer to, users edit what they  *)
(* wrote, and the gateway dies between the transaction that admits a bot's *)
(* message and the one that counts it. A row is <<m, 0>> for message m and *)
(* <<m, t>> for the edit that gave it text t.                              *)
(***************************************************************************)
EXTENDS Naturals, FiniteSets, Sequences, SequencesExt

CONSTANTS
    Msg,         \* messages of the thread
    Bot, Aimed,  \* those bots wrote; those that mention the persona
    Budget,      \* botAudience.maxConsecutiveTurns
    PerWindow,   \* botAudience.maxTurnsPerWindow
    Window,      \* BOT_AUDIENCE_RATE_WINDOW_MS, in ticks
    Back,        \* whether a user may edit a message back to what it said
    MaxText, MaxTime, MaxRepeats, MaxCrash   \* bounds
IngestAssumption ==
    /\ Bot \subseteq Msg /\ Aimed \subseteq Msg /\ Back \in BOOLEAN
    /\ {Budget, PerWindow, Window} \subseteq Nat \ {0}
    /\ {MaxText, MaxTime, MaxRepeats, MaxCrash} \subseteq Nat

VARIABLES
    said,      \* what each message says on the platform, 0 before it is sent
    had,       \* the texts it has had
    ctx,       \* conversation_context: the body recorded, 0 for none
    rows,      \* inbound_messages: every row ever admitted
    queue,     \* those pending, in order
    muted,     \* thread_mutes
    judging,   \* sends awaiting preTurnSkip
    count, admissions, recent,   \* the bot audience guard of this origin
    turn,      \* the row whose turn runs, or <<>>
    followed,  \* a row of this thread has triggered a turn
    now, repeats, crashes,
    \* what happened, for the properties
    let,       \* the text the last edit that was let in gave it
    told,      \* the text of each message the session was last told
    spent,     \* bot rows since the last human message that were not refunded
    uncounted, \* those a crash left uncounted
    refunds,
    at,        \* when each bot row was admitted
    late,      \* sends judged since before the thread was muted
    overtaken, \* messages edited before they were let in themselves
    pardoned   \* whether a new message that mentions the persona came since the mute

guard == <<count, admissions, recent>>
past == <<let, told, spent, uncounted, refunds, at, late, overtaken, pardoned>>
vars == <<said, had, ctx, rows, queue, muted, judging, guard, turn, followed, now, repeats, crashes,
          past>>

Init ==
    /\ said = [m \in Msg |-> 0] /\ had = [m \in Msg |-> {}] /\ ctx = [m \in Msg |-> 0]
    /\ rows = {} /\ queue = <<>> /\ muted = FALSE /\ judging = {}
    /\ count = 0 /\ admissions = {} /\ recent = <<>>
    /\ turn = <<>> /\ followed = FALSE /\ now = 0 /\ repeats = 0 /\ crashes = 0
    /\ let = [m \in Msg |-> 0] /\ told = [m \in Msg |-> 0] /\ spent = {} /\ uncounted = {} /\ refunds = 0
    /\ at = [r \in Bot \X (0..MaxText) |-> 0] /\ late = {} /\ overtaken = {} /\ pardoned = FALSE

-----------------------------------------------------------------------------
InWindow(stamps) == SelectSeq(stamps, LAMBDA s : s + Window > now /\ s <= now)

AdmitsByCount == count < Budget
\* canAdmit: both budgets of the guard.
CanAdmit == count < Budget /\ Len(InWindow(recent)) < PerWindow

\* recordHumanMessage: the consecutive budget is cleared, the window is not.
HumanSpeaks(m) ==
    IF m \in Bot THEN UNCHANGED guard /\ spent' = spent
    ELSE /\ count' = 0 /\ admissions' = {} /\ recent' = InWindow(recent)
         /\ spent' = {}

\* decideEngagement and the guard: an open thread engages everybody, a muted one
\* those who mention the persona, a bot only within its budgets.
MutedOut(m) == muted /\ m \notin Aimed
Engaged(m) == ~MutedOut(m) /\ (m \in Bot => CanAdmit)

\* speechGateApplies: nobody aimed this at the persona, and it is not yet talking here.
Gated(m) == m \notin Aimed \union Bot /\ ~followed

\* recordBotAdmission: once per admission.
Records(id) == id \notin admissions

UnmutesRepeated(id) == TRUE
\* The mute is lifted by the transaction that admits the message, not by a repeat.
Unmutes(id) == id \notin rows

\* enqueue, then the guard's own write, which a crash may keep from happening.
Admit(id, lifts, counted) ==
    LET m == id[1]
        fresh == id \notin rows
        counts == fresh /\ m \in Bot
    IN  /\ rows' = rows \union {id}
        /\ queue' = IF fresh THEN Append(queue, id) ELSE queue
        /\ muted' = (muted /\ ~(lifts /\ Unmutes(id)))
        /\ pardoned' = (pardoned \/ (fresh /\ muted /\ lifts))
        /\ counted \/ (counts /\ crashes < MaxCrash)
        /\ crashes' = IF counted THEN crashes ELSE crashes + 1
        /\ IF m \in Bot
           THEN /\ IF counts /\ counted /\ Records(id)
                   THEN /\ count' = count + 1 /\ admissions' = admissions \union {id}
                        /\ recent' = Append(InWindow(recent), now)
                   ELSE UNCHANGED guard
                /\ spent' = IF counts THEN spent \union {id} ELSE spent
                /\ at' = IF counts THEN [at EXCEPT ![id] = now] ELSE at
                /\ uncounted' = IF counted THEN uncounted ELSE uncounted \union {id}
           ELSE HumanSpeaks(m) /\ at' = at /\ uncounted' = uncounted

Declined(m) ==
    /\ HumanSpeaks(m)
    /\ UNCHANGED <<rows, queue, muted, crashes, at, uncounted, pardoned>>

\* chat.send, the first time or again: recorded as context whatever is decided.
Handle(m, counted) ==
    /\ ctx' = IF ctx[m] = 0 THEN [ctx EXCEPT ![m] = said'[m]] ELSE ctx
    /\ IF ~Engaged(m) THEN Declined(m) /\ judging' = judging
       ELSE IF Gated(m) THEN Declined(m) /\ judging' = judging \union {m}
       ELSE Admit(<<m, 0>>, m \in Aimed, counted) /\ judging' = judging
    /\ UNCHANGED <<turn, followed, now, let, told, refunds, late, overtaken>>

Send(m, counted) ==
    /\ said[m] = 0
    /\ said' = [said EXCEPT ![m] = 1] /\ had' = [had EXCEPT ![m] = {1}]
    /\ repeats' = repeats
    /\ Handle(m, counted)
SendAgain(m, counted) ==
    /\ said[m] # 0 /\ m \notin judging /\ repeats < MaxRepeats
    /\ repeats' = repeats + 1
    /\ UNCHANGED <<said, had>>
    /\ Handle(m, counted)

\* preTurnSkip answers: what was decided before it was asked still holds.
Judged(m, skip) ==
    /\ m \in judging
    /\ judging' = judging \ {m}
    /\ IF skip THEN UNCHANGED <<rows, queue>>
       ELSE /\ rows' = rows \union {<<m, 0>>}
            /\ queue' = IF <<m, 0>> \in rows THEN queue ELSE Append(queue, <<m, 0>>)
    /\ late' = late \ {m}
    /\ UNCHANGED <<said, had, ctx, muted, guard, turn, followed, now, repeats, crashes, let, told, spent,
                   uncounted, refunds, at, overtaken, pardoned>>

EditIdPlain(m, t) == <<m, 0>>
\* messageEditId: one row for a message and a content.
EditId(m, t) == <<m, t>>

\* chat.edit: an unknown message has nothing to point at; the ledger follows the
\* platform whatever is decided.
HandleEdit(m, counted) ==
    /\ IF ctx[m] = 0 THEN Declined(m) /\ ctx' = ctx /\ let' = let
       ELSE /\ ctx' = [ctx EXCEPT ![m] = said'[m]]
            /\ let' = IF Engaged(m) THEN [let EXCEPT ![m] = said'[m]] ELSE let
            /\ IF Engaged(m) THEN Admit(EditId(m, said'[m]), m \in Aimed, counted) ELSE Declined(m)
    /\ overtaken' = IF <<m, 0>> \in rows THEN overtaken ELSE overtaken \union {m}
    /\ UNCHANGED <<judging, turn, followed, now, told, refunds, late>>

Edit(m, t, counted) ==
    /\ said[m] \notin {0, t} /\ (Back \/ t \notin had[m])
    /\ said' = [said EXCEPT ![m] = t] /\ had' = [had EXCEPT ![m] = @ \union {t}]
    /\ repeats' = repeats
    /\ HandleEdit(m, counted)
EditAgain(m, counted) ==
    /\ said[m] > 1 /\ repeats < MaxRepeats
    /\ repeats' = repeats + 1
    /\ UNCHANGED <<said, had>>
    /\ HandleEdit(m, counted)

-----------------------------------------------------------------------------
Text(id) == IF id[2] = 0 THEN 1 ELSE id[2]

\* The actor takes the oldest row: as the trigger of a turn, or into the one that runs.
Takes ==
    /\ queue # <<>>
    /\ queue' = Tail(queue)
    /\ turn' = IF turn = <<>> THEN Head(queue) ELSE turn
    /\ followed' = TRUE
    /\ told' = [told EXCEPT ![Head(queue)[1]] = Text(Head(queue))]
    /\ UNCHANGED <<said, had, ctx, rows, muted, judging, guard, now, repeats, crashes, let, spent, uncounted,
                   refunds, at, late, overtaken, pardoned>>

RefundsAny(id) == TRUE
\* releaseUnansweredAdmission: only the admission of this very trigger.
Refunds(id) == admissions = {} \/ id \in admissions

\* The turn settles: its answer may mute the thread, and a bot's turn that was not
\* answered gives its admission back.
Settles(answer) ==
    /\ turn # <<>>
    /\ LET shut == answer = "shutup"
       IN  /\ muted' = (muted \/ shut)
           /\ late' = IF shut /\ ~muted THEN judging ELSE late
           /\ pardoned' = (pardoned /\ ~shut)
    /\ IF turn[1] \in Bot /\ answer # "said"
       THEN /\ IF count > 0 /\ Refunds(turn)
               THEN /\ count' = count - 1 /\ admissions' = admissions \ {turn}
                    /\ recent' = IF recent = <<>> THEN recent ELSE Front(recent)
               ELSE UNCHANGED guard
            /\ spent' = spent \ {turn}
            /\ refunds' = refunds + 1
       ELSE UNCHANGED <<guard, spent, refunds>>
    /\ turn' = <<>>
    /\ UNCHANGED <<said, had, ctx, rows, queue, judging, followed, now, repeats, crashes, let, told, uncounted,
                   at, overtaken>>

Tick ==
    /\ now < MaxTime /\ now' = now + 1
    /\ UNCHANGED <<said, had, ctx, rows, queue, muted, judging, guard, turn, followed, repeats, crashes,
                   past>>

Next ==
    \/ \E m \in Msg, counted \in BOOLEAN :
          \/ Send(m, counted) \/ SendAgain(m, counted) \/ EditAgain(m, counted)
          \/ \E t \in 1..MaxText : Edit(m, t, counted)
    \/ \E m \in Msg, skip \in BOOLEAN : Judged(m, skip)
    \/ Takes \/ Tick
    \/ \E answer \in {"said", "silent", "shutup"} : Settles(answer)

Spec == Init /\ [][Next]_vars

-----------------------------------------------------------------------------
Quiet == queue = <<>> /\ judging = {}

\* The session ends up with what a message it was told of says now, if the edit was
\* let in, and not before the message itself.
EditHeard == \A m \in Msg \ overtaken :
    Quiet /\ told[m] # 0 /\ let[m] # 0 => told[m] = let[m]

\* The ledger never falls behind the platform for a message it knows.
LedgerFollows == \A m \in Msg : ctx[m] # 0 => ctx[m] = said[m]

\* Without a human, bots are answered no more often than the budget allows, and once
\* more for each admission a crash left uncounted.
BudgetHolds == Cardinality(spent) <= Budget + Cardinality(uncounted)

\* Within any window they are admitted no more often than the rate allows. A refund
\* gives back the newest stamp, not its own, so each may let one more through.
RateHolds ==
    Cardinality({r \in DOMAIN at : r \in rows /\ at[r] + Window > now}) <=
        PerWindow + Cardinality(uncounted) + refunds

\* A mute ends with the first new message that mentions the persona, and stays
\* through everything else.
MuteLifted == ~(muted /\ pardoned)

\* A muted thread admits nobody else, but those who were being judged when it was
\* muted, and a repeat of an old message does not open it again.
MuteStep ==
    /\ \A r \in rows' \ rows : muted => r[1] \in Aimed \union late
    /\ muted /\ ~muted' => \E r \in rows' \ rows : r[1] \in Aimed
MuteKept == [][MuteStep]_vars

IngestKept == EditHeard /\ LedgerFollows /\ BudgetHolds /\ RateHolds /\ MuteLifted
=============================================================================
