---------------------------- MODULE SharedSlots ----------------------------
(***************************************************************************)
(* The two pools of one gateway: session hosts and relays. They share no   *)
(* state; both keep a cap while those that wait are woken one at a time.   *)
(***************************************************************************)
EXTENDS HostPool, TailPool

(* Origins that share hosts, and turns that share relays, stay within the  *)
(* cap, and one that waits for a slot is not forgotten while it could have *)
(* one.                                                                    *)
SlotsShared == WithinCap /\ NoneForgotten /\ WithinSlots /\ NoSlotSleptOn
=============================================================================
