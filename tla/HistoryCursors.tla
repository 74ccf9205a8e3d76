--------------------------- MODULE HistoryCursors ---------------------------
(***************************************************************************)
(* The history cursors of the two adapters that can read history back. The *)
(* adapters share no state: each has its channel, its link and its store.  *)
(***************************************************************************)
EXTENDS DiscordRecovery, SlackRecovery

CursorsInit == DiscordInit /\ SlackInit
CursorsNext ==
  \/ DiscordNext /\ UNCHANGED slackVars
  \/ SlackNext /\ UNCHANGED discordVars
CursorsSpec == CursorsInit /\ [][CursorsNext]_<<discordVars, slackVars>>

(* No history cursor passes a message nobody has accounted for. For the    *)
(* Slack channel this holds as long as nobody replies in a thread; what a  *)
(* reply delivered with the channel does is the run slack_threads.         *)
NothingSkipped ==
  /\ DiscordSkipsNothing
  /\ replies = {} => SlackSkipsNothing
  /\ NoReplySkipped
=============================================================================
