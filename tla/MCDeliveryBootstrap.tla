------------------------- MODULE MCDeliveryBootstrap -------------------------
(***************************************************************************)
(* Instances of DeliveryBootstrap for TLC.  The presets an init may name   *)
(* are interchangeable, so TLC may permute them when it checks safety.     *)
(***************************************************************************)
EXTENDS DeliveryBootstrap, TLC

PresetSymmetry == Permutations(Presets)
=============================================================================
