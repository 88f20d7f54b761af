--------------------------- MODULE MCSeenMessages ---------------------------
(***************************************************************************)
(* SeenMessages for TLC: more hashes than the memory holds, and more       *)
(* messages than hashes, so that an evicted hash comes back.               *)
(***************************************************************************)
EXTENDS SeenMessages, TLC

ASSUME InstanceAssumption == Capacity + 1 < MaxForwarded
=============================================================================
