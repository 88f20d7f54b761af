--------------------------- MODULE MCChatHistory ---------------------------
(***************************************************************************)
(* Instances of ChatHistory for TLC.  The configurations give the callers  *)
(* and conversations as model values.                                      *)
(***************************************************************************)
EXTENDS ChatHistory, TLC
=============================================================================
