--------------------------- MODULE SlackRecovery ---------------------------
(***************************************************************************)
(* History catch-up of one Slack channel (adapter-slack/src/recovery.ts,   *)
(* main.ts). History is paged newest first, so a gap larger than a pass is *)
(* drained in slices from its newest end downwards, and the watermark      *)
(* waits until the gap is closed. A channel message may carry a thread,    *)
(* whose replies are walked after the channel's pages and delivered in one *)
(* sequence with them; a thread the persona answers in also has a cursor   *)
(* of its own. Live sends of the same messages run beside the pass.        *)
(***************************************************************************)
EXTENDS Naturals, Sequences, FiniteSets

CONSTANTS
  MaxSlackMsg,      \* bound: messages, numbered in the order of their ts
  Root,             \* the channel message that may have a thread, 0 for none
  Engaging,         \* messages the gateway engages with when they are replies
  Poison,           \* messages the gateway refuses for their content
  MaxSlackAttempts, \* RECOVERY_MAX_ATTEMPTS
  Slice,            \* messages one pass reads: RECOVERY_PAGE_LIMIT * RECOVERY_MAX_PAGES
  MaxSlackCrash,    \* bound: crashes
  MaxSlackFaults    \* bound: failed sends, fetches and writes

SlackMessage == 1..MaxSlackMsg

ASSUME SlackAssumption ==
  /\ MaxSlackMsg \in Nat \ {0} /\ Root \in SlackMessage \cup {0}
  /\ Poison \subseteq SlackMessage /\ Engaging \subseteq SlackMessage
  /\ {MaxSlackAttempts, Slice} \subseteq Nat \ {0} /\ {MaxSlackCrash, MaxSlackFaults} \subseteq Nat

VARIABLES
  slPosted,  \* the newest message
  replies,   \* the messages that are replies in the thread
  slLanded,  \* messages the gateway has recorded (durable)
  slLinked,  \* the adapter has a gateway client
  slLive,    \* live sends in flight
  slKnown,   \* ids this process has sent
  slMem,     \* the cursor state in memory
  slSaves,   \* queued writes of the cursor store
  slDisk,    \* the cursor store
  slPass,    \* the recovery pass
  slCrashes, slFaults

slackVars == <<slPosted, replies, slLanded, slLinked, slLive, slKnown, slMem, slSaves, slDisk,
               slPass, slCrashes, slFaults>>

Top == 1..slPosted \ replies

(* The watermark; the slice that is next (below olderThan, closing at      *)
(* through); the thread's own cursor, and whether it is revisited: because *)
(* the persona took part, or because its walk was cut short.               *)
SlackEmpty ==
  [watermark |-> 0, olderThan |-> 0, through |-> 0, thread |-> 0, takesPart |-> FALSE, pending |-> FALSE,
   terminal |-> [m \in SlackMessage |-> 0], dead |-> {}]

SlackOff ==
  [pc |-> "off", batch |-> {}, cut |-> FALSE, cutThread |-> FALSE, last |-> 0, kind |-> "channel"]

SlackInit ==
  /\ slPosted = 0 /\ replies = {} /\ slLanded = {} /\ slLinked = TRUE /\ slLive = {} /\ slKnown = {}
  /\ slMem = SlackEmpty /\ slSaves = << >> /\ slDisk = SlackEmpty
  /\ slPass = SlackOff /\ slCrashes = 0 /\ slFaults = 0

SlackPersist(next) ==
  /\ slMem' = next
  /\ slSaves' = IF next = (IF slSaves = << >> THEN slDisk ELSE slSaves[Len(slSaves)])
                 THEN slSaves ELSE Append(slSaves, next)

SlackKept == UNCHANGED <<slMem, slSaves>>
SlackFails == slFaults < MaxSlackFaults /\ slFaults' = slFaults + 1

MaxOf(S) == CHOOSE x \in S : \A y \in S : y <= x
MinOf(S) == CHOOSE x \in S : \A y \in S : y >= x

Newest(S, n) == {x \in S : Cardinality({y \in S : y > x}) < n}
Oldest(S, n) == {x \in S : Cardinality({y \in S : y < x}) < n}

-----------------------------------------------------------------------------
(* Live traffic writes no watermark. A reply the persona is engaged in     *)
(* makes its thread one that is revisited.                                 *)
Engaged(s, m) == IF m \in Engaging \cap replies THEN [s EXCEPT !.takesPart = TRUE] ELSE s

SlackPost(m, heard, reply) ==
  /\ slPosted < MaxSlackMsg /\ m = slPosted + 1 /\ slPosted' = m
  /\ reply => Root # 0 /\ m > Root
  /\ replies' = IF reply THEN replies \cup {m} ELSE replies
  /\ slLive' = IF heard /\ slLinked THEN slLive \cup {m} ELSE slLive
  /\ UNCHANGED <<slLanded, slLinked, slKnown, slMem, slSaves, slDisk, slPass, slCrashes, slFaults>>

SlackLiveLands(m) ==
  /\ m \in slLive \ Poison /\ slLinked
  /\ slLive' = slLive \ {m} /\ slLanded' = slLanded \cup {m} /\ slKnown' = slKnown \cup {m}
  /\ SlackPersist(Engaged(slMem, m))
  /\ UNCHANGED <<slPosted, replies, slLinked, slDisk, slPass, slCrashes, slFaults>>

SlackLiveFails(m) ==
  /\ m \in slLive /\ slLive' = slLive \ {m}
  /\ \/ m \in Poison /\ UNCHANGED <<slLinked, slFaults>>
     \/ ~slLinked /\ UNCHANGED <<slLinked, slFaults>>
     \/ m \notin Poison /\ slLinked /\ SlackFails /\ slLinked' = FALSE
  /\ SlackKept /\ UNCHANGED <<slPosted, replies, slLanded, slKnown, slDisk, slPass, slCrashes>>

SlackRelink ==
  /\ ~slLinked /\ slLinked' = TRUE
  /\ UNCHANGED <<slPosted, replies, slLanded, slLive, slKnown, slMem, slSaves, slDisk, slPass, slCrashes, slFaults>>

-----------------------------------------------------------------------------
(* A pass over the channel. The pages are read first, newest first; the    *)
(* slice resumes below the one before it.                                  *)
Gap == {m \in Top : slMem.watermark < m /\ (slMem.olderThan # 0 => m < slMem.olderThan)}

SlackBegin ==
  /\ slPass.pc = "off" /\ slLinked
  /\ Gap # {} \/ slMem.olderThan # 0
  /\ LET slice == Newest(Gap, Slice)
     IN  slPass' = [SlackOff EXCEPT !.pc = "threads", !.batch = slice, !.cut = slice # Gap]
  /\ SlackKept /\ UNCHANGED <<slPosted, replies, slLanded, slLinked, slLive, slKnown, slDisk, slCrashes, slFaults>>

(* Then the replies of the thread, when its root is in the slice.          *)
Thread == {m \in replies : slMem.watermark < m}

ReadThread ==
  /\ slPass.pc = "threads" /\ slPass.kind = "channel"
  /\ LET oldest == IF Root \in slPass.batch THEN Oldest(Thread, Slice) ELSE {}
     IN  slPass' = [slPass EXCEPT !.pc = "walk", !.batch = @ \cup oldest,
                                  !.cutThread = Root \in slPass.batch /\ oldest # Thread]
  /\ SlackKept /\ UNCHANGED <<slPosted, replies, slLanded, slLinked, slLive, slKnown, slDisk, slCrashes, slFaults>>

(* A failed read, or a message that cannot be delivered, leaves everything *)
(* for the next pass.                                                      *)
PassFails ==
  /\ slPass.pc = "threads" /\ SlackFails /\ slPass' = SlackOff
  /\ SlackKept /\ UNCHANGED <<slPosted, replies, slLanded, slLinked, slLive, slKnown, slDisk, slCrashes>>

-----------------------------------------------------------------------------
(* The walk, in ts order over everything that was read.                    *)
Left == {m \in slPass.batch : m > slPass.last}
SlackCurrent == MinOf(Left)
SlackWalking == slPass.pc = "walk" /\ Left # {}
SlackTried(s, m, n) == [s EXCEPT !.terminal = [s.terminal EXCEPT ![m] = n]]
Past(m) == slPass' = [slPass EXCEPT !.last = m]

SlackLands ==
  /\ SlackWalking /\ slLinked /\ SlackCurrent \notin Poison
  /\ \/ SlackCurrent \in slLive /\ slLive' = slLive \ {SlackCurrent}
     \/ SlackCurrent \notin slLive \cup slKnown /\ UNCHANGED slLive
  /\ slLanded' = slLanded \cup {SlackCurrent} /\ slKnown' = slKnown \cup {SlackCurrent}
  /\ SlackPersist(SlackTried(Engaged(slMem, SlackCurrent), SlackCurrent, 0))
  /\ Past(SlackCurrent)
  /\ UNCHANGED <<slPosted, replies, slLinked, slDisk, slCrashes, slFaults>>

SlackDuplicate ==
  /\ SlackWalking /\ SlackCurrent \in slKnown \ slLive /\ Past(SlackCurrent)
  /\ SlackKept /\ UNCHANGED <<slPosted, replies, slLanded, slLinked, slLive, slKnown, slDisk, slCrashes, slFaults>>

(* Only a refusal of this payload counts; a lost link ends the pass, and   *)
(* so does a request whose answer is lost.                                 *)
SlackRefused ==
  /\ SlackWalking /\ slLinked /\ SlackCurrent \in Poison \ (slLive \cup slKnown)
  /\ LET count == slMem.terminal[SlackCurrent] + 1
     IN  IF count < MaxSlackAttempts
         THEN SlackPersist(SlackTried(slMem, SlackCurrent, count)) /\ slPass' = SlackOff
         ELSE /\ SlackPersist([SlackTried(slMem, SlackCurrent, 0) EXCEPT !.dead = @ \cup {SlackCurrent}])
              /\ Past(SlackCurrent)
  /\ UNCHANGED <<slPosted, replies, slLanded, slLinked, slLive, slKnown, slDisk, slCrashes, slFaults>>

Unavailable(applied) ==
  /\ SlackWalking /\ SlackCurrent \notin slKnown \cup slLive
  /\ \/ ~slLinked /\ ~applied /\ UNCHANGED <<slLinked, slFaults>>
     \/ slLinked /\ SlackCurrent \notin Poison /\ SlackFails /\ slLinked' = FALSE
  /\ slLanded' = IF applied THEN slLanded \cup {SlackCurrent} ELSE slLanded
  /\ slPass' = SlackOff /\ SlackKept /\ UNCHANGED <<slPosted, replies, slLive, slKnown, slDisk, slCrashes>>

-----------------------------------------------------------------------------
(* The end of the channel's walk. A cut slice leaves the watermark and     *)
(* notes where the next one resumes; the slice that closes the gap sets    *)
(* the watermark to what the first one noted. The first cut slice notes    *)
(* its newest message, a later one the bound it started from.              *)
Sliced(s) ==
  LET top == slPass.batch \cap Top
  IN  [s EXCEPT !.olderThan = MinOf(top),
                !.through = IF s.olderThan # 0 THEN s.olderThan ELSE MaxOf(top)]

Closed(s) ==
  [s EXCEPT !.watermark = IF s.through # 0 THEN s.through
                          ELSE IF slPass.last # 0 THEN slPass.last ELSE @,
            !.olderThan = 0, !.through = 0]

EndChannel ==
  /\ slPass.pc = "walk" /\ slPass.kind = "channel" /\ Left = {}
  /\ LET next == IF slPass.cut THEN Sliced(slMem) ELSE Closed(slMem)
     IN  SlackPersist([next EXCEPT !.pending = @ \/ slPass.cutThread])
  /\ slPass' = [SlackOff EXCEPT !.pc = "thread"]
  /\ UNCHANGED <<slPosted, replies, slLanded, slLinked, slLive, slKnown, slDisk, slCrashes, slFaults>>

(* A thread that is revisited is walked from its own cursor.               *)
SlackUnread == {m \in replies : slMem.thread < m}

BeginThread ==
  /\ slPass.pc = "thread" /\ (slMem.takesPart \/ slMem.pending)
  /\ LET slice == Oldest(SlackUnread, Slice)
     IN  slPass' = [SlackOff EXCEPT !.pc = "walk", !.kind = "thread", !.batch = slice,
                                    !.cutThread = slice # SlackUnread]
  /\ SlackKept /\ UNCHANGED <<slPosted, replies, slLanded, slLinked, slLive, slKnown, slDisk, slCrashes, slFaults>>

NoThread ==
  /\ slPass.pc = "thread" /\ ~slMem.takesPart /\ ~slMem.pending /\ slPass' = SlackOff
  /\ SlackKept /\ UNCHANGED <<slPosted, replies, slLanded, slLinked, slLive, slKnown, slDisk, slCrashes, slFaults>>

EndThread ==
  /\ slPass.pc = "walk" /\ slPass.kind = "thread" /\ Left = {} /\ slPass' = SlackOff
  /\ SlackPersist([slMem EXCEPT
       !.thread = IF ~slMem.takesPart /\ ~slPass.cutThread THEN 0
                  ELSE IF slPass.last # 0 THEN slPass.last ELSE @,
       !.pending = @ /\ slPass.cutThread])
  /\ UNCHANGED <<slPosted, replies, slLanded, slLinked, slLive, slKnown, slDisk, slCrashes, slFaults>>

(* The next trigger also walks the threads when the channel has no gap.    *)
Revisit ==
  /\ slPass.pc = "off" /\ slLinked /\ Gap = {} /\ slMem.olderThan = 0 /\ SlackUnread # {}
  /\ slPass' = [SlackOff EXCEPT !.pc = "thread"]
  /\ SlackKept /\ UNCHANGED <<slPosted, replies, slLanded, slLinked, slLive, slKnown, slDisk, slCrashes, slFaults>>

-----------------------------------------------------------------------------
SlackSave ==
  /\ slSaves # << >> /\ slDisk' = Head(slSaves) /\ slSaves' = Tail(slSaves)
  /\ UNCHANGED <<slPosted, replies, slLanded, slLinked, slLive, slKnown, slMem, slPass, slCrashes, slFaults>>

SlackSaveFails ==
  /\ slSaves # << >> /\ SlackFails /\ slSaves' = Tail(slSaves)
  /\ UNCHANGED <<slPosted, replies, slLanded, slLinked, slLive, slKnown, slMem, slDisk, slPass, slCrashes>>

SlackCrash ==
  /\ slCrashes < MaxSlackCrash /\ slCrashes' = slCrashes + 1
  /\ slMem' = slDisk /\ slSaves' = << >> /\ slLive' = {} /\ slKnown' = {} /\ slPass' = SlackOff /\ slLinked' = FALSE
  /\ UNCHANGED <<slPosted, replies, slLanded, slDisk, slFaults>>

SlackWalk ==
  \/ SlackBegin \/ ReadThread \/ PassFails \/ SlackLands \/ SlackDuplicate \/ SlackRefused
  \/ \E b \in BOOLEAN : Unavailable(b)
  \/ EndChannel \/ BeginThread \/ NoThread \/ EndThread \/ Revisit

SlackNext ==
  \/ \E m \in SlackMessage, heard, reply \in BOOLEAN : SlackPost(m, heard, reply)
  \/ \E m \in SlackMessage : SlackLiveLands(m) \/ SlackLiveFails(m)
  \/ SlackRelink \/ SlackWalk \/ SlackSave \/ SlackSaveFails \/ SlackCrash

SlackSpec == SlackInit /\ [][SlackNext]_slackVars

-----------------------------------------------------------------------------
(* Every channel message at or below the watermark was recorded by the     *)
(* gateway or is a dead letter of the same store. (recovery.ts: "an        *)
(* incomplete window cannot advance a durable cursor past older, unfetched *)
(* messages".)                                                             *)
SlackAccounted(s) == \A m \in Top : m <= s.watermark => m \in slLanded \cup s.dead
SlackSkipsNothing == SlackAccounted(slMem) /\ SlackAccounted(slDisk)

(* And every reply at or below the cursor of its thread.                   *)
ThreadAccounted(s) == \A m \in replies : m <= s.thread => m \in slLanded \cup s.dead
NoReplySkipped == ThreadAccounted(slMem) /\ ThreadAccounted(slDisk)
=============================================================================
