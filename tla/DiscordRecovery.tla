-------------------------- MODULE DiscordRecovery --------------------------
(***************************************************************************)
(* History catch-up of one Discord conversation (adapter-discord/src       *)
(* /recovery.ts, main.ts): messages arrive live, or while the adapter is   *)
(* away; a recovery pass walks the history after the durable watermark,    *)
(* page by page, beside live sends of the same messages. A message that    *)
(* fails for its own content is held until a later one lands, and only     *)
(* then discarded. The cursor store is written behind the adapter's back,  *)
(* one save after another, and a crash loses the saves still queued.       *)
(***************************************************************************)
EXTENDS Naturals, Sequences, FiniteSets

CONSTANTS
  MaxDiscordMsg,      \* bound: messages, numbered in the order of their ids
  DiscordQuiet,       \* messages without text, or not addressed to the bot
  Oversize,           \* messages whose frame cannot be encoded
  PageLimit,          \* RECOVERY_PAGE_LIMIT
  MaxPages,           \* RECOVERY_MAX_PAGES
  MaxDiscordAttempts, \* RECOVERY_MAX_ATTEMPTS
  Uniform,            \* RECOVERY_UNIFORM_FAILURE_LIMIT
  MaxDiscordCrash,    \* bound: crashes
  MaxDiscordFaults    \* bound: failed sends and fetches

DiscordMessage == 1..MaxDiscordMsg

ASSUME DiscordAssumption ==
  /\ MaxDiscordMsg \in Nat \ {0}
  /\ DiscordQuiet \subseteq DiscordMessage /\ Oversize \subseteq DiscordMessage \ DiscordQuiet
  /\ {PageLimit, MaxPages, MaxDiscordAttempts, Uniform} \subseteq Nat \ {0}
  /\ {MaxDiscordCrash, MaxDiscordFaults} \subseteq Nat

VARIABLES
  dcPosted,  \* the newest message in the channel
  dcLanded,  \* messages the gateway has recorded (durable)
  dcLinked,  \* the adapter has a gateway client
  dcLive,    \* live sends in flight
  dcAcked,   \* the gate: ids acknowledged to this process
  dcMem,     \* the cursor state in memory
  dcSaves,   \* queued writes of the cursor store
  dcDisk,    \* the cursor store
  dcPass,    \* the recovery pass
  dcCrashes, dcFaults

discordVars == <<dcPosted, dcLanded, dcLinked, dcLive, dcAcked, dcMem, dcSaves, dcDisk, dcPass,
                 dcCrashes, dcFaults>>

(* The watermark, the terminal failures counted per message, the dead      *)
(* letters.                                                                *)
DiscordEmpty == [through |-> 0, terminal |-> [m \in DiscordMessage |-> 0], dead |-> {}]
DiscordOff ==
  [pc |-> "off", cursor |-> 0, scan |-> 0, end |-> 0, full |-> FALSE, page |-> 0, held |-> {}, try |-> 0]

DiscordInit ==
  /\ dcPosted = 0 /\ dcLanded = {} /\ dcLinked = TRUE /\ dcLive = {} /\ dcAcked = {}
  /\ dcMem = DiscordEmpty /\ dcSaves = << >> /\ dcDisk = DiscordEmpty
  /\ dcPass = DiscordOff /\ dcCrashes = 0 /\ dcFaults = 0

(* persist: the state in memory moves at once, the file later. A write of  *)
(* what is being written already adds nothing.                             *)
DiscordPersist(next) ==
  /\ dcMem' = next
  /\ dcSaves' = IF next = (IF dcSaves = << >> THEN dcDisk ELSE dcSaves[Len(dcSaves)])
                 THEN dcSaves ELSE Append(dcSaves, next)

DiscordKept == UNCHANGED <<dcMem, dcSaves>>
DiscordFails == dcFaults < MaxDiscordFaults /\ dcFaults' = dcFaults + 1

-----------------------------------------------------------------------------
(* A message is posted: the bot may hear it live, which starts a send that *)
(* a recovery pass can join, or not at all.                                *)
DiscordPost(m, heard) ==
  /\ dcPosted < MaxDiscordMsg /\ m = dcPosted + 1 /\ dcPosted' = m
  /\ dcLive' = IF heard /\ dcLinked /\ m \notin DiscordQuiet THEN dcLive \cup {m} ELSE dcLive
  /\ UNCHANGED <<dcLanded, dcLinked, dcAcked, dcMem, dcSaves, dcDisk, dcPass, dcCrashes, dcFaults>>

(* Mutant: a live message the gateway accepted moves the watermark.        *)
LiveAckMoves(m) == DiscordPersist([dcMem EXCEPT !.through = IF @ < m THEN m ELSE @])

(* A live send writes no watermark.                                        *)
LiveAck(m) == DiscordKept

DiscordLiveLands(m) ==
  /\ m \in dcLive \ Oversize /\ dcLinked
  /\ dcLive' = dcLive \ {m} /\ dcLanded' = dcLanded \cup {m} /\ dcAcked' = dcAcked \cup {m}
  /\ LiveAck(m)
  /\ UNCHANGED <<dcPosted, dcLinked, dcDisk, dcPass, dcCrashes, dcFaults>>

(* It fails: before the gateway recorded it, or after.                     *)
DiscordLiveFails(m, applied) ==
  /\ m \in dcLive /\ (m \in Oversize => ~applied)
  /\ m \in Oversize \/ ~dcLinked \/ dcFaults < MaxDiscordFaults
  /\ dcFaults' = IF m \in Oversize \/ ~dcLinked THEN dcFaults ELSE dcFaults + 1
  /\ dcLive' = dcLive \ {m} /\ dcLanded' = IF applied THEN dcLanded \cup {m} ELSE dcLanded
  /\ dcLinked' = FALSE
  /\ DiscordKept /\ UNCHANGED <<dcPosted, dcAcked, dcDisk, dcPass, dcCrashes>>

Unlink ==
  /\ dcLinked /\ DiscordFails /\ dcLinked' = FALSE
  /\ DiscordKept /\ UNCHANGED <<dcPosted, dcLanded, dcLive, dcAcked, dcDisk, dcPass, dcCrashes>>

(* Every reconnect starts a pass, unless one is running.                   *)
DiscordRelink ==
  /\ ~dcLinked /\ dcLinked' = TRUE
  /\ UNCHANGED <<dcPosted, dcLanded, dcLive, dcAcked, dcMem, dcSaves, dcDisk, dcPass, dcCrashes, dcFaults>>

-----------------------------------------------------------------------------
(* The recovery pass.                                                      *)
DiscordBegin ==
  /\ dcPass.pc = "off" /\ dcLinked /\ dcMem.through < dcPosted
  /\ dcPass' = [DiscordOff EXCEPT !.pc = "fetch", !.cursor = dcMem.through, !.scan = dcMem.through]
  /\ DiscordKept /\ UNCHANGED <<dcPosted, dcLanded, dcLinked, dcLive, dcAcked, dcDisk, dcCrashes, dcFaults>>

Least(a, b) == IF a < b THEN a ELSE b

Fetch ==
  /\ dcPass.pc = "fetch" /\ dcPass.page < MaxPages
  /\ LET end == Least(dcPosted, dcPass.scan + PageLimit)
     IN  dcPass' = [dcPass EXCEPT !.pc = IF end = dcPass.scan THEN "end" ELSE "walk",
                              !.end = end, !.full = end = dcPass.scan + PageLimit, !.page = @ + 1]
  /\ DiscordKept /\ UNCHANGED <<dcPosted, dcLanded, dcLinked, dcLive, dcAcked, dcDisk, dcCrashes, dcFaults>>

(* The page bound, or a history read that throws: the pass ends here.      *)
FetchEnds ==
  /\ dcPass.pc = "fetch"
  /\ \/ dcPass.page = MaxPages /\ UNCHANGED dcFaults
     \/ DiscordFails
  /\ dcPass' = [dcPass EXCEPT !.pc = "end"]
  /\ DiscordKept /\ UNCHANGED <<dcPosted, dcLanded, dcLinked, dcLive, dcAcked, dcDisk, dcCrashes>>

DiscordCurrent == dcPass.scan + 1
DiscordWalking == dcPass.pc = "walk" /\ dcPass.scan < dcPass.end

PageWalked ==
  /\ dcPass.pc = "walk" /\ dcPass.scan = dcPass.end
  /\ dcPass' = [dcPass EXCEPT !.pc = IF dcPass.full THEN "fetch" ELSE "end"]
  /\ DiscordKept /\ UNCHANGED <<dcPosted, dcLanded, dcLinked, dcLive, dcAcked, dcDisk, dcCrashes, dcFaults>>

(* A skip or a duplicate proves nothing: the durable cursor stays behind   *)
(* the candidates that are held, the scan goes on.                         *)
Walked(p) ==
  [p EXCEPT !.scan = @ + 1, !.cursor = IF p.held = {} THEN p.scan + 1 ELSE @, !.try = 0]

DiscordSkips ==
  /\ DiscordWalking /\ DiscordCurrent \in DiscordQuiet /\ dcPass' = Walked(dcPass)
  /\ DiscordKept /\ UNCHANGED <<dcPosted, dcLanded, dcLinked, dcLive, dcAcked, dcDisk, dcCrashes, dcFaults>>

DiscordForgotten(s, m) == [s EXCEPT !.terminal = [s.terminal EXCEPT ![m] = 0]]

DiscordDuplicate ==
  /\ DiscordWalking /\ DiscordCurrent \notin DiscordQuiet /\ DiscordCurrent \in dcAcked \ dcLive
  /\ dcPass' = Walked(dcPass)
  /\ IF dcMem.terminal[DiscordCurrent] > 0
     THEN DiscordPersist(DiscordForgotten(dcMem, DiscordCurrent)) ELSE DiscordKept
  /\ UNCHANGED <<dcPosted, dcLanded, dcLinked, dcLive, dcAcked, dcDisk, dcCrashes, dcFaults>>

(* A fresh acknowledgement commits the candidates held before it: they are *)
(* dead-lettered, and the cursor moves on.                                 *)
DiscordDiscarded(s, held) ==
  [s EXCEPT !.dead = @ \cup held,
            !.terminal = [m \in DiscordMessage |-> IF m \in held THEN 0 ELSE s.terminal[m]]]

DiscordLands ==
  /\ DiscordWalking /\ DiscordCurrent \notin DiscordQuiet
  /\ \/ /\ DiscordCurrent \in dcLive \ Oversize /\ dcLinked /\ dcLive' = dcLive \ {DiscordCurrent}
     \/ /\ DiscordCurrent \notin dcLive \cup dcAcked \cup Oversize /\ dcLinked /\ UNCHANGED dcLive
  /\ dcLanded' = dcLanded \cup {DiscordCurrent} /\ dcAcked' = dcAcked \cup {DiscordCurrent}
  /\ LET next == DiscordDiscarded(DiscordForgotten(dcMem, DiscordCurrent), dcPass.held)
     IN  IF next = dcMem THEN DiscordKept ELSE DiscordPersist(next)
  /\ dcPass' = [dcPass EXCEPT !.scan = @ + 1, !.cursor = DiscordCurrent, !.held = {}, !.try = 0]
  /\ UNCHANGED <<dcPosted, dcLinked, dcDisk, dcCrashes, dcFaults>>

(* An attempt fails. Only a failure of this very payload counts; the       *)
(* attempts of a pass are staged and written once.                         *)
DiscordTerminal == DiscordCurrent \in Oversize /\ dcLinked
Counted ==
  IF DiscordTerminal
  THEN LET count == Least(dcMem.terminal[DiscordCurrent] + 1, MaxDiscordAttempts)
       IN  [dcMem EXCEPT !.terminal = [dcMem.terminal EXCEPT ![DiscordCurrent] = count]]
  ELSE dcMem

AttemptFails(applied) ==
  /\ DiscordWalking /\ DiscordCurrent \notin DiscordQuiet \cup dcAcked \cup dcLive
  /\ applied => dcLinked /\ ~DiscordTerminal
  /\ DiscordTerminal \/ ~dcLinked \/ dcFaults < MaxDiscordFaults
  /\ dcFaults' = IF DiscordTerminal \/ ~dcLinked THEN dcFaults ELSE dcFaults + 1
  /\ dcLanded' = IF applied THEN dcLanded \cup {DiscordCurrent} ELSE dcLanded
  /\ IF dcPass.try + 1 < MaxDiscordAttempts
     THEN /\ dcMem' = Counted /\ UNCHANGED dcSaves
          /\ dcPass' = [dcPass EXCEPT !.try = @ + 1]
     ELSE /\ DiscordPersist(Counted)
          /\ IF DiscordTerminal /\ Counted.terminal[DiscordCurrent] = MaxDiscordAttempts
             THEN LET held == dcPass.held \cup {DiscordCurrent}
                  IN  dcPass' = [dcPass EXCEPT !.held = held, !.scan = @ + 1, !.try = 0,
                                           !.pc = IF Cardinality(held) >= Uniform THEN "end" ELSE @]
             ELSE dcPass' = [dcPass EXCEPT !.pc = "end"]
  /\ UNCHANGED <<dcPosted, dcLinked, dcLive, dcAcked, dcDisk, dcCrashes>>

(* The pass reports how far it got; the watermark only moves forward.      *)
End ==
  /\ dcPass.pc = "end" /\ dcPass' = DiscordOff
  /\ IF dcPass.cursor > dcMem.through THEN DiscordPersist([dcMem EXCEPT !.through = dcPass.cursor]) ELSE DiscordKept
  /\ UNCHANGED <<dcPosted, dcLanded, dcLinked, dcLive, dcAcked, dcDisk, dcCrashes, dcFaults>>

-----------------------------------------------------------------------------
DiscordSave ==
  /\ dcSaves # << >> /\ dcDisk' = Head(dcSaves) /\ dcSaves' = Tail(dcSaves)
  /\ UNCHANGED <<dcPosted, dcLanded, dcLinked, dcLive, dcAcked, dcMem, dcPass, dcCrashes, dcFaults>>

(* A write that fails only widens the gap.                                 *)
DiscordSaveFails ==
  /\ dcSaves # << >> /\ DiscordFails /\ dcSaves' = Tail(dcSaves)
  /\ UNCHANGED <<dcPosted, dcLanded, dcLinked, dcLive, dcAcked, dcMem, dcDisk, dcPass, dcCrashes>>

DiscordCrash ==
  /\ dcCrashes < MaxDiscordCrash /\ dcCrashes' = dcCrashes + 1
  /\ dcMem' = dcDisk /\ dcSaves' = << >> /\ dcLive' = {} /\ dcAcked' = {} /\ dcPass' = DiscordOff /\ dcLinked' = FALSE
  /\ UNCHANGED <<dcPosted, dcLanded, dcDisk, dcFaults>>

DiscordWalk ==
  \/ DiscordBegin \/ Fetch \/ FetchEnds \/ PageWalked \/ DiscordSkips \/ DiscordDuplicate \/ DiscordLands
  \/ \E b \in BOOLEAN : AttemptFails(b)
  \/ End

DiscordNext ==
  \/ \E m \in DiscordMessage, b \in BOOLEAN : DiscordPost(m, b) \/ DiscordLiveFails(m, b)
  \/ \E m \in DiscordMessage : DiscordLiveLands(m)
  \/ Unlink \/ DiscordRelink \/ DiscordWalk \/ DiscordSave \/ DiscordSaveFails \/ DiscordCrash

DiscordSpec == DiscordInit /\ [][DiscordNext]_discordVars

-----------------------------------------------------------------------------
(* Every message behind the watermark, in memory and on disk, was recorded *)
(* by the gateway, needed no turn, or is a dead letter of the same store:  *)
(* whatever live sends, crashes and failed writes come between.            *)
DiscordAccounted(s) == \A m \in 1..s.through : m \in dcLanded \cup DiscordQuiet \cup s.dead
DiscordSkipsNothing == DiscordAccounted(dcMem) /\ DiscordAccounted(dcDisk)
=============================================================================
