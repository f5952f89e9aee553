---------------------------- MODULE MCIntentChain ----------------------------
(* Values of the constants of IntentChain for TLC.  A step of the clock is *)
(* a day: a contract lives to the next day, the cooldown of 18 hours ends  *)
(* before it.                                                              *)
EXTENDS IntentChain

MCDay == 1
MCTtl == 1
MCCooldown == 1
=============================================================================
