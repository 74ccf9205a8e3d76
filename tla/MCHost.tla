-------------------------------- MODULE MCHost --------------------------------
(***************************************************************************)
(* The monitors of one gateway and what a process of the host keeps across *)
(* restarts, one instance at a time: the history cursors of the adapters,  *)
(* the binding of an origin to its session, the pools of hosts and relays, *)
(* the cut-off of a silent turn, what conversations start in one another,  *)
(* the unread ledger, what a turn says, and the intake of chat messages.   *)
(***************************************************************************)
EXTENDS Naturals, MonitorPipeline, CrossTalk, SessionBind, StallCutoff, TailRelay,
        MonitorSessionRoll, SharedSlots, ContextLedger, HistoryCursors

\* An answer that is silent, one of a line and a post, and one whose line is
\* worded differently when it is read back.
Line(b) == [post |-> FALSE, body |-> b]
Post(b) == [post |-> TRUE, body |-> b]
Tellings == {
  [live |-> <<>>, later |-> <<>>],
  [live |-> <<Line(1), Post(2)>>, later |-> <<Line(1), Post(2)>>],
  [live |-> <<Line(1), Post(2)>>, later |-> <<Line(3), Post(2)>>]}
Frames == {<<Line(1), Post(2)>>, <<Line(5)>>, <<Post(4)>>}

VARIABLES
  part,  (* the instance that runs *)
  slot, unlinked, ledger, row2, outcome, told2, life, pc2, frames2,
  crashes, throws, said, had, ctx2, rows, queue2, muted, judging, count,
  admissions, recent, turn2, followed, now2, repeats, let, spent2,
  uncounted, refunds, at, late, overtaken, pardoned

others == <<slot, unlinked, ledger, row2, outcome, told2, life, pc2,
            frames2, crashes, throws, said, had, ctx2, rows, queue2, muted,
            judging, count, admissions, recent, turn2, followed, now2,
            repeats, let, spent2, uncounted, refunds, at, late, overtaken,
            pardoned>>
all == <<part, vars, talk, bindVars, cutoff, relay, roll, hostPool, tailPool, ledgerVars, discordVars, slackVars, others>>

Batch == INSTANCE MonitorPipeline WITH
  N <- 2, Burst <- "dedupe", Overlap <- "queue", HasTarget <- TRUE,
  MaxAttempts <- 0, MaxDispatch <- 2, MaxSession <- 1, MaxHands <- 0,
  MaxSuspend <- 0, MaxCrash <- 0
Skip == INSTANCE MonitorPipeline WITH
  N <- 2, Burst <- "serialize", Overlap <- "skip", HasTarget <- FALSE,
  MaxAttempts <- 1, MaxDispatch <- 2, MaxSession <- 1, MaxHands <- 0,
  MaxSuspend <- 0, MaxCrash <- 0
Binds == INSTANCE SessionBind WITH
  MaxEpoch <- 2, MaxCreated <- 3, Request <- {1}, MaxRotations <- 1,
  MaxDeaths <- 0, MaxFailures <- 1
Hops == INSTANCE CrossTalk WITH
  Origin <- {1, 2, 3}, MaxDepth <- 1, Ttl <- {1}, MaxHuman <- 1,
  MaxRows <- 4, MaxTime <- 1
Speech == INSTANCE AnswerSpeech WITH
  Tellings <- Tellings, Frames <- Frames, MaxFrames <- 2, Budget <- 2,
  MaxCrash <- 2, MaxThrow <- 2, row <- row2, told <- told2, pc <- pc2,
  frames <- frames2
Ingest == INSTANCE ChatIngest WITH
  Msg <- {1, 2}, Bot <- {1}, Aimed <- {1}, Budget <- 1, PerWindow <- 2,
  Window <- 2, Back <- FALSE, MaxText <- 2, MaxTime <- 2, MaxRepeats <- 1,
  MaxCrash <- 1, ctx <- ctx2, queue <- queue2, turn <- turn2, now <- now2,
  told <- told2, spent <- spent2
Bots == INSTANCE ChatIngest WITH
  Msg <- {1, 2, 3, 4}, Bot <- {1, 2, 3}, Aimed <- {4}, Budget <- 1,
  PerWindow <- 3, Window <- 1, Back <- FALSE, MaxText <- 1, MaxTime <- 0,
  MaxRepeats <- 0, MaxCrash <- 1, ctx <- ctx2, queue <- queue2,
  turn <- turn2, now <- now2, told <- told2, spent <- spent2
Rate == INSTANCE ChatIngest WITH
  Msg <- {1, 2, 3}, Bot <- {1, 2, 3}, Aimed <- {}, Budget <- 3,
  PerWindow <- 2, Window <- 2, Back <- FALSE, MaxText <- 1, MaxTime <- 4,
  MaxRepeats <- 0, MaxCrash <- 0, ctx <- ctx2, queue <- queue2,
  turn <- turn2, now <- now2, told <- told2, spent <- spent2

(* The variables that are no component's own, at rest. *)
Still == slot = 0 /\ unlinked = 0 /\ ledger = 0 /\ row2 = 0 /\
         outcome = 0 /\ told2 = 0 /\ life = 0 /\ pc2 = 0 /\ frames2 = 0 /\
         crashes = 0 /\ throws = 0 /\ said = 0 /\ had = 0 /\ ctx2 = 0 /\
         rows = 0 /\ queue2 = 0 /\ muted = 0 /\ judging = 0 /\ count = 0 /\
         admissions = 0 /\ recent = 0 /\ turn2 = 0 /\ followed = 0 /\
         now2 = 0 /\ repeats = 0 /\ let = 0 /\ spent2 = 0 /\
         uncounted = 0 /\ refunds = 0 /\ at = 0 /\ late = 0 /\
         overtaken = 0 /\ pardoned = 0

HostInit ==
  \/ part = "retry" /\ Init /\ TalkInit /\ BindInit /\ CutoffInit /\ RelayInit /\ RollInit /\ PoolInit /\ TailInit /\ LedgerInit /\ DiscordInit /\ SlackInit /\ Still
  \/ part = "talk" /\ TalkInit /\ Init /\ BindInit /\ CutoffInit /\ RelayInit /\ RollInit /\ PoolInit /\ TailInit /\ LedgerInit /\ DiscordInit /\ SlackInit /\ Still
  \/ part = "bind" /\ BindInit /\ Init /\ TalkInit /\ CutoffInit /\ RelayInit /\ RollInit /\ PoolInit /\ TailInit /\ LedgerInit /\ DiscordInit /\ SlackInit /\ Still
  \/ part = "stall" /\ CutoffInit /\ Init /\ TalkInit /\ BindInit /\ RelayInit /\ RollInit /\ PoolInit /\ TailInit /\ LedgerInit /\ DiscordInit /\ SlackInit /\ Still
  \/ part = "relay" /\ RelayInit /\ Init /\ TalkInit /\ BindInit /\ CutoffInit /\ RollInit /\ PoolInit /\ TailInit /\ LedgerInit /\ DiscordInit /\ SlackInit /\ Still
  \/ part = "roll" /\ RollInit /\ Init /\ TalkInit /\ BindInit /\ CutoffInit /\ RelayInit /\ PoolInit /\ TailInit /\ LedgerInit /\ DiscordInit /\ SlackInit /\ Still
  \/ part = "hosts" /\ PoolInit /\ Init /\ TalkInit /\ BindInit /\ CutoffInit /\ RelayInit /\ RollInit /\ TailInit /\ LedgerInit /\ DiscordInit /\ SlackInit /\ Still
  \/ part = "tails" /\ TailInit /\ Init /\ TalkInit /\ BindInit /\ CutoffInit /\ RelayInit /\ RollInit /\ PoolInit /\ LedgerInit /\ DiscordInit /\ SlackInit /\ Still
  \/ part = "ctx" /\ LedgerInit /\ Init /\ TalkInit /\ BindInit /\ CutoffInit /\ RelayInit /\ RollInit /\ PoolInit /\ TailInit /\ DiscordInit /\ SlackInit /\ Still
  \/ part = "discord" /\ DiscordInit /\ Init /\ TalkInit /\ BindInit /\ CutoffInit /\ RelayInit /\ RollInit /\ PoolInit /\ TailInit /\ LedgerInit /\ SlackInit /\ Still
  \/ part = "slack" /\ SlackInit /\ Init /\ TalkInit /\ BindInit /\ CutoffInit /\ RelayInit /\ RollInit /\ PoolInit /\ TailInit /\ LedgerInit /\ DiscordInit /\ Still
  \/ part = "batch" /\ Batch!Init /\ TalkInit /\ BindInit /\ CutoffInit /\ RelayInit /\ RollInit /\ PoolInit /\ TailInit /\ LedgerInit /\ DiscordInit /\ SlackInit /\ Still
  \/ part = "skip" /\ Skip!Init /\ TalkInit /\ BindInit /\ CutoffInit /\ RelayInit /\ RollInit /\ PoolInit /\ TailInit /\ LedgerInit /\ DiscordInit /\ SlackInit /\ Still
  \/ part = "binds" /\ Binds!BindInit /\ Init /\ TalkInit /\ CutoffInit /\ RelayInit /\ RollInit /\ PoolInit /\ TailInit /\ LedgerInit /\ DiscordInit /\ SlackInit /\ Still
  \/ part = "hops" /\ Hops!TalkInit /\ Init /\ BindInit /\ CutoffInit /\ RelayInit /\ RollInit /\ PoolInit /\ TailInit /\ LedgerInit /\ DiscordInit /\ SlackInit /\ Still
  \/ /\ part = "speech" /\ Speech!Init /\ Init /\ TalkInit /\ BindInit /\ CutoffInit /\ RelayInit /\ RollInit /\ PoolInit /\ TailInit /\ LedgerInit /\ DiscordInit /\ SlackInit
     /\ said = 0 /\ had = 0 /\ ctx2 = 0 /\ rows = 0 /\ queue2 = 0 /\
        muted = 0 /\ judging = 0 /\ count = 0 /\ admissions = 0 /\
        recent = 0 /\ turn2 = 0 /\ followed = 0 /\ now2 = 0 /\
        repeats = 0 /\ let = 0 /\ spent2 = 0 /\ uncounted = 0 /\
        refunds = 0 /\ at = 0 /\ late = 0 /\ overtaken = 0 /\ pardoned = 0
  \/ /\ part = "ingest" /\ Ingest!Init /\ Init /\ TalkInit /\ BindInit /\ CutoffInit /\ RelayInit /\ RollInit /\ PoolInit /\ TailInit /\ LedgerInit /\ DiscordInit /\ SlackInit
     /\ slot = 0 /\ unlinked = 0 /\ ledger = 0 /\ row2 = 0 /\
        outcome = 0 /\ life = 0 /\ pc2 = 0 /\ frames2 = 0 /\ throws = 0
  \/ /\ part = "bots" /\ Bots!Init /\ Init /\ TalkInit /\ BindInit /\ CutoffInit /\ RelayInit /\ RollInit /\ PoolInit /\ TailInit /\ LedgerInit /\ DiscordInit /\ SlackInit
     /\ slot = 0 /\ unlinked = 0 /\ ledger = 0 /\ row2 = 0 /\
        outcome = 0 /\ life = 0 /\ pc2 = 0 /\ frames2 = 0 /\ throws = 0
  \/ /\ part = "rate" /\ Rate!Init /\ Init /\ TalkInit /\ BindInit /\ CutoffInit /\ RelayInit /\ RollInit /\ PoolInit /\ TailInit /\ LedgerInit /\ DiscordInit /\ SlackInit
     /\ slot = 0 /\ unlinked = 0 /\ ledger = 0 /\ row2 = 0 /\
        outcome = 0 /\ life = 0 /\ pc2 = 0 /\ frames2 = 0 /\ throws = 0

RetryRuns == part = "retry" /\ UNCHANGED <<part, others, talk, bindVars, cutoff, relay, roll, hostPool, tailPool, ledgerVars, discordVars, slackVars>>
TalkRuns == part = "talk" /\ UNCHANGED <<part, others, vars, bindVars, cutoff, relay, roll, hostPool, tailPool, ledgerVars, discordVars, slackVars>>
BindRuns == part = "bind" /\ UNCHANGED <<part, others, vars, talk, cutoff, relay, roll, hostPool, tailPool, ledgerVars, discordVars, slackVars>>
StallRuns == part = "stall" /\ UNCHANGED <<part, others, vars, talk, bindVars, relay, roll, hostPool, tailPool, ledgerVars, discordVars, slackVars>>
RelayRuns == part = "relay" /\ UNCHANGED <<part, others, vars, talk, bindVars, cutoff, roll, hostPool, tailPool, ledgerVars, discordVars, slackVars>>
RollRuns == part = "roll" /\ UNCHANGED <<part, others, vars, talk, bindVars, cutoff, relay, hostPool, tailPool, ledgerVars, discordVars, slackVars>>
HostsRuns == part = "hosts" /\ UNCHANGED <<part, others, vars, talk, bindVars, cutoff, relay, roll, tailPool, ledgerVars, discordVars, slackVars>>
TailsRuns == part = "tails" /\ UNCHANGED <<part, others, vars, talk, bindVars, cutoff, relay, roll, hostPool, ledgerVars, discordVars, slackVars>>
CtxRuns == part = "ctx" /\ UNCHANGED <<part, others, vars, talk, bindVars, cutoff, relay, roll, hostPool, tailPool, discordVars, slackVars>>
DiscordRuns == part = "discord" /\ UNCHANGED <<part, others, vars, talk, bindVars, cutoff, relay, roll, hostPool, tailPool, ledgerVars, slackVars>>
SlackRuns == part = "slack" /\ UNCHANGED <<part, others, vars, talk, bindVars, cutoff, relay, roll, hostPool, tailPool, ledgerVars, discordVars>>
BatchRuns == part = "batch" /\ UNCHANGED <<part, others, talk, bindVars, cutoff, relay, roll, hostPool, tailPool, ledgerVars, discordVars, slackVars>>
SkipRuns == part = "skip" /\ UNCHANGED <<part, others, talk, bindVars, cutoff, relay, roll, hostPool, tailPool, ledgerVars, discordVars, slackVars>>
BindsRuns == part = "binds" /\ UNCHANGED <<part, others, vars, talk, cutoff, relay, roll, hostPool, tailPool, ledgerVars, discordVars, slackVars>>
HopsRuns == part = "hops" /\ UNCHANGED <<part, others, vars, bindVars, cutoff, relay, roll, hostPool, tailPool, ledgerVars, discordVars, slackVars>>
SpeechRuns ==
  part = "speech" /\ UNCHANGED <<part, vars, talk, bindVars, cutoff, relay, roll, hostPool, tailPool,
      ledgerVars, discordVars, slackVars, said, had, ctx2, rows, queue2,
      muted, judging, count, admissions, recent, turn2, followed, now2,
      repeats, let, spent2, uncounted, refunds, at, late, overtaken,
      pardoned>>
IngestRuns ==
  part = "ingest" /\ UNCHANGED <<part, vars, talk, bindVars, cutoff, relay, roll, hostPool, tailPool,
      ledgerVars, discordVars, slackVars, slot, unlinked, ledger, row2,
      outcome, life, pc2, frames2, throws>>
BotsRuns ==
  part = "bots" /\ UNCHANGED <<part, vars, talk, bindVars, cutoff, relay, roll, hostPool, tailPool,
      ledgerVars, discordVars, slackVars, slot, unlinked, ledger, row2,
      outcome, life, pc2, frames2, throws>>
RateRuns ==
  part = "rate" /\ UNCHANGED <<part, vars, talk, bindVars, cutoff, relay, roll, hostPool, tailPool,
      ledgerVars, discordVars, slackVars, slot, unlinked, ledger, row2,
      outcome, life, pc2, frames2, throws>>

HostNext ==
  \/ RetryRuns /\ Next
  \/ TalkRuns /\ TalkNext
  \/ BindRuns /\ BindNext
  \/ StallRuns /\ CutoffNext
  \/ RelayRuns /\ RelayNext
  \/ RollRuns /\ RollNext
  \/ HostsRuns /\ PoolNext
  \/ TailsRuns /\ TailNext
  \/ CtxRuns /\ LedgerNext
  \/ DiscordRuns /\ DiscordNext
  \/ SlackRuns /\ SlackNext
  \/ BatchRuns /\ Batch!Next
  \/ SkipRuns /\ Skip!Next
  \/ BindsRuns /\ Binds!BindNext
  \/ HopsRuns /\ Hops!TalkNext
  \/ SpeechRuns /\ Speech!Next
  \/ IngestRuns /\ Ingest!Next
  \/ BotsRuns /\ Bots!Next
  \/ RateRuns /\ Rate!Next

HostSpec == HostInit /\ [][HostNext]_all

ASSUME
  /\ Batch!PolicyAssumption /\ Skip!PolicyAssumption
  /\ Batch!BoundAssumption /\ Skip!BoundAssumption
  /\ Binds!BindAssumption
  /\ Hops!TalkAssumption
  /\ Speech!SpeechAssumption
  /\ Ingest!IngestAssumption /\ Bots!IngestAssumption /\ Rate!IngestAssumption

(* What a turn says is said whole and once, and a turn that is done names  *)
(* the delivery that closed it.                                            *)
SpokenWhole == part = "speech" => Speech!SpokenWhole

(* What is said to a thread is heard as it now stands, a mute ends with the*)
(* first new message that mentions the persona, and bots answer each other *)
(* within their budgets.                                                   *)
IngestKept ==
  /\ [](/\ part = "ingest" => Ingest!IngestKept
        /\ part = "bots" => Bots!IngestKept
        /\ part = "rate" => Rate!IngestKept)
  /\ [][/\ part = "ingest" => Ingest!MuteStep
        /\ part = "bots" => Bots!MuteStep]_all
=============================================================================
