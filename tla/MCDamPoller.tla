---------------------------- MODULE MCDamPoller -----------------------------
(* Instances of DamPoller for TLC.                                         *)
EXTENDS DamPoller, TLC

Names == Permutations(Event)
=============================================================================
